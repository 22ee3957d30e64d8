---------------------------- MODULE DeploymentRoles ----------------------------
(* Deployment of the two contracts, the roles they keep, and the check that reads *)
(* them back.                                                                     *)
(*                                                                                *)
(* ResearchEscrowFactory and DataSourceRegistry each keep OpenZeppelin roles, and *)
(* each looks the other's roles up before it grants one.  DeployResearchEscrow    *)
(* deploys them with one key and then hands every role over, one transaction at a *)
(* time; it may stop between any two.  createAndFund refuses to fund an escrow    *)
(* while that key still has a role.  rpc-deployment-verifier.mjs reads the roles  *)
(* back, each read at the block that is final by then, and replays the role       *)
(* events up to the block the manifest names.                                     *)
(*                                                                                *)
(* Abstracted: signatures are true or false statements about who signed, time is  *)
(* left out (ResearchEscrow has it), the code and the wiring of a contract are    *)
(* those its constructor gave it, and a block holds at most BlockSize events.     *)
EXTENDS Integers, FiniteSets, Sequences, SequencesExt

CONSTANTS
  Accounts,          \* addresses that may hold a role or sign
  Deployer,          \* ARC_DEPLOYER, who signs the deployment
  Expected,          \* role -> the account the manifest and the environment name
  Buyer,             \* the smoke buyer of the manifest
  Payout,            \* the smoke payout of the manifest
  Vouchers,          \* funding vouchers: [buyer, key, nonce, intentSigner]
  Offers,            \* what a source may be configured to: [payout, active]
  Operable,          \* accounts that roles are granted to by hand
  LogSpan,           \* ROLE_EVENT_LOG_BLOCK_SPAN
  BlockSize,         \* bound: the events of a block
  MaxOps, MaxScripts, MaxActs     \* bounds: grants by hand, scripts, and both together

FactoryRoles == {"factoryAdmin", "fundingSigner", "intentSigner", "settler"}
RegistryRoles == {"registryAdmin", "sourceAdmin"}
Roles == FactoryRoles \cup RegistryRoles
Contracts == {"registry", "implementation", "factory"}

ASSUME DeploymentAssumption ==
  /\ Deployer \in Accounts /\ Buyer \in Accounts /\ Operable \subseteq Accounts
  /\ Expected \in [Roles -> Accounts]
  /\ Vouchers \subseteq [buyer: Accounts, key: STRING, nonce: Nat, intentSigner: Accounts]
  /\ LogSpan \in Nat /\ BlockSize \in Nat \ {0} /\ MaxOps \in Nat /\ MaxScripts \in Nat
  /\ MaxActs \in Nat

VARIABLES
  deployed,    \* the contracts that have code, with the block that deployed them
  bound,       \* DataSourceRegistry.factory is the factory
  paused,      \* the factory creates no escrows for now
  source,      \* _sources, for one sourceId: the configurations it has had, by revision
  member,      \* role -> its members
  log,         \* RoleGranted and RoleRevoked, in the order of the chain
  past,        \* the sealed blocks: what the chain held at the end of each
  finalized,   \* the last block that is final
  script,      \* the script under way: its name and its next transaction
  starts, ops, \* scripts started and roles changed by hand so far
  funded,      \* escrowOf and fundingVoucherNonceUsed: the vouchers that were used
  check        \* the verifier: its manifest block, its next read, its verdict

chain == <<deployed, bound, paused, source, member, log, past, finalized>>
vars == <<deployed, bound, paused, source, member, log, past,
         finalized, script, starts, ops, funded, check>>

HeldBy(a) == {r \in Roles : a \in member[r]}
AdminOf(r) == IF r \in FactoryRoles THEN "factoryAdmin" ELSE "registryAdmin"
Block == Len(past) + 1
Live(c) == c \in DOMAIN deployed
RoomInBlock == Cardinality({i \in DOMAIN log : log[i].block = Block}) < BlockSize

Event(type, r, a, sender) ==
  [block |-> Block, type |-> type, role |-> r, account |-> a, sender |-> sender]

--------------------------------------------------------------------------------
(* Granting and revoking.                                                         *)

\* ResearchEscrowFactory._requireNoSensitiveRoleConflict: no other role of the
\* factory, and no role of the registry, except in the constructor.
FactoryAllows(m, r, a) ==
  /\ \A s \in FactoryRoles \ {r} : a \notin m[s]
  /\ \A s \in RegistryRoles : a \notin m[s]

\* A slip: the registry asks only itself.
RegistryAsksItself(m, isBound, r, a) ==
  IF ~isBound THEN r = "registryAdmin" ELSE \A s \in RegistryRoles \ {r} : a \notin m[s]

\* DataSourceRegistry._requireNoSensitiveRoleConflict: before the factory is bound
\* the administrator's role goes to anybody and the other to nobody; afterwards no
\* other role of the registry and no role of the factory.
RegistryAllows(m, isBound, r, a) ==
  IF ~isBound
  THEN r = "registryAdmin"
  ELSE /\ \A s \in RegistryRoles \ {r} : a \notin m[s]
       /\ \A s \in FactoryRoles : a \notin m[s]

MayGrant(m, isBound, r, a) ==
  IF r \in FactoryRoles THEN FactoryAllows(m, r, a) ELSE RegistryAllows(m, isBound, r, a)

\* AccessControl._grantRole and _revokeRole write an event only when they change
\* something.
Write(type, r, a, sender) ==
  LET new == IF type = "granted" THEN member[r] \cup {a} ELSE member[r] \ {a} IN
  /\ RoomInBlock
  /\ member' = [member EXCEPT ![r] = new]
  /\ log' = IF new = member[r] THEN log ELSE Append(log, Event(type, r, a, sender))

Permitted(m, isBound, type, r, a, sender) ==
  /\ sender \in m[AdminOf(r)]
  /\ type = "granted" => MayGrant(m, isBound, r, a)

Change(type, r, a, sender) ==
  /\ Permitted(member, bound, type, r, a, sender)
  /\ Write(type, r, a, sender)
  /\ UNCHANGED <<deployed, bound, paused, source, past, finalized>>

--------------------------------------------------------------------------------
(* The scripts: deployCore, then transferRoles.                                   *)

CoreSteps == <<"registry", "implementation", "factory", "bind">>

\* A slip: the factory's governance is forgotten.
HandOverForgets ==
  <<[type |-> "granted", role |-> "registryAdmin", to |-> Expected["registryAdmin"]],
    [type |-> "revoked", role |-> "factoryAdmin", to |-> Deployer],
    [type |-> "revoked", role |-> "registryAdmin", to |-> Deployer]>>

HandOver ==
  <<[type |-> "granted", role |-> "factoryAdmin", to |-> Expected["factoryAdmin"]],
    [type |-> "granted", role |-> "fundingSigner", to |-> Expected["fundingSigner"]],
    [type |-> "granted", role |-> "intentSigner", to |-> Expected["intentSigner"]],
    [type |-> "granted", role |-> "settler", to |-> Expected["settler"]],
    [type |-> "granted", role |-> "registryAdmin", to |-> Expected["registryAdmin"]],
    [type |-> "granted", role |-> "sourceAdmin", to |-> Expected["sourceAdmin"]],
    [type |-> "revoked", role |-> "factoryAdmin", to |-> Deployer],
    [type |-> "revoked", role |-> "registryAdmin", to |-> Deployer]>>

\* The roles as the first n transactions of the hand-over leave them: it revokes last.
RolesAfter(n) ==
  [r \in Roles |->
     LET To(type) == {HandOver[i].to : i \in {j \in 1 .. n : /\ HandOver[j].type = type
                                                             /\ HandOver[j].role = r}}
     IN (member[r] \cup To("granted")) \ To("revoked")]

\* forge simulates the whole script and broadcasts nothing when a call reverts.
HandOverSimulates ==
  \A i \in DOMAIN HandOver :
    LET s == HandOver[i] IN
    Permitted(RolesAfter(i - 1), bound, s.type, s.role, s.to, Deployer)

MayStart == starts < MaxScripts /\ starts + ops < MaxActs
MayOperate == ops < MaxOps /\ starts + ops < MaxActs

Idle == [name |-> "none", next |-> 1]

StartCore ==
  /\ script = Idle /\ DOMAIN deployed = {} /\ MayStart
  /\ script' = [name |-> "core", next |-> 1] /\ starts' = starts + 1
  /\ UNCHANGED <<chain, ops, funded, check>>

\* A deployment that stopped goes on from the transaction that is missing.
ResumeCore ==
  /\ script = Idle /\ DOMAIN deployed # {} /\ ~bound /\ MayStart
  /\ script' = [name |-> "core",
                next |-> IF Live("factory") THEN 4 ELSE Cardinality(DOMAIN deployed) + 1]
  /\ starts' = starts + 1
  /\ UNCHANGED <<chain, ops, funded, check>>

StartHandOver ==
  /\ script = Idle /\ Live("factory") /\ MayStart
  /\ HandOverSimulates
  /\ script' = [name |-> "handOver", next |-> 1] /\ starts' = starts + 1
  /\ UNCHANGED <<chain, ops, funded, check>>

\* The constructor of a contract with roles makes the deployer its administrator
\* without looking at the other contract.
Deploy(c) ==
  /\ script.name = "core" /\ CoreSteps[script.next] = c
  /\ deployed' = [x \in DOMAIN deployed \cup {c} |-> IF x = c THEN Block ELSE deployed[x]]
  /\ CASE c = "registry" -> Write("granted", "registryAdmin", Deployer, Deployer)
       [] c = "factory" -> Write("granted", "factoryAdmin", Deployer, Deployer)
       [] OTHER -> UNCHANGED <<member, log>>
  /\ script' = [script EXCEPT !.next = @ + 1]
  /\ UNCHANGED <<bound, paused, source, past, finalized, starts, ops, funded, check>>

\* DataSourceRegistry.bindFactory.
BindFactory ==
  /\ script.name = "core" /\ CoreSteps[script.next] = "bind"
  /\ Deployer \in member["registryAdmin"] /\ ~bound
  /\ bound' = TRUE /\ script' = Idle
  /\ UNCHANGED <<deployed, paused, source, member, log, past, finalized, starts, ops, funded, check>>

HandOverStep ==
  LET s == HandOver[script.next] IN
  /\ script.name = "handOver"
  /\ Change(s.type, s.role, s.to, Deployer)
  /\ script' = IF script.next = Len(HandOver) THEN Idle ELSE [script EXCEPT !.next = @ + 1]
  /\ UNCHANGED <<starts, ops, funded, check>>

\* The script stops: its process is gone, or a transaction it sent reverts.
ScriptStops ==
  /\ script # Idle
  /\ script' = Idle
  /\ UNCHANGED <<chain, starts, ops, funded, check>>

--------------------------------------------------------------------------------
(* Administrators at work: grantRole, revokeRole, renounceRole.                   *)

ByHand(type, r, a, sender) ==
  /\ MayOperate /\ ops' = ops + 1
  /\ Live(IF r \in FactoryRoles THEN "factory" ELSE "registry")
  /\ Change(type, r, a, sender)
  /\ member' # member
  /\ UNCHANGED <<script, starts, funded, check>>

Renounce(r, a) ==
  /\ MayOperate /\ ops' = ops + 1
  /\ a \in member[r]
  /\ Write("revoked", r, a, a)
  /\ UNCHANGED <<deployed, bound, paused, source, past, finalized, script, starts, funded, check>>

\* pauseCreation and unpauseCreation.
PauseCreation(sender) ==
  /\ MayOperate /\ ops' = ops + 1
  /\ Live("factory") /\ sender \in member["factoryAdmin"]
  /\ paused' = ~paused
  /\ UNCHANGED <<deployed, bound, source, member, log, past, finalized, script, starts,
                 funded, check>>

(* DataSourceRegistry's sources.  The last revision is the configuration in force. *)
Revision == CHOOSE n \in 0 .. Cardinality(source) :
              /\ \A c \in source : c.revision <= n
              /\ n = 0 \/ \E c \in source : c.revision = n

NextRevision(o) == [revision |-> Revision + 1, payout |-> o.payout, active |-> o.active]

WriteSource(config, sender) ==
  /\ MayOperate /\ ops' = ops + 1
  /\ bound /\ sender \in member["sourceAdmin"]
  /\ source' = source \cup {config}
  /\ UNCHANGED <<deployed, bound, paused, member, log, past, finalized, script, starts,
                 funded, check>>

CreateSource(o, sender) ==
  /\ source = {} /\ o.active
  /\ WriteSource([revision |-> 1, payout |-> o.payout, active |-> o.active], sender)

UpdateSource(o, sender) ==
  /\ source # {}
  /\ WriteSource(NextRevision(o), sender)

--------------------------------------------------------------------------------
(* createAndFund.                                                                 *)

\* A slip: the gate looks at the factory alone.
FactoryGateOpen == bound /\ HeldBy(Deployer) \cap FactoryRoles = {}

\* _requireFundingGateOpen
FundingGateOpen == bound /\ HeldBy(Deployer) = {}

\* _requireValidIntentSigner and _requireAccountHasNoProjectSensitiveRole
PartiesAllowed(v, signer) ==
  /\ v.intentSigner \notin {v.buyer, signer}
  /\ HeldBy(v.intentSigner) = {"intentSigner"}
  /\ HeldBy(v.buyer) = {}

\* fundingVoucherNonceUsed and escrowOf
VoucherIsNew(v) ==
  \A f \in funded : f.voucher.buyer = v.buyer =>
                       f.voucher.nonce # v.nonce /\ f.voucher.key # v.key

\* _consumeFundingVoucher and _createEscrow: the buyer of the voucher calls, a
\* funding signer of this moment signed, the nonce is new and so is the escrow.
CreateAndFund(v, signer) ==
  /\ Live("factory") /\ ~paused /\ FundingGateOpen
  /\ signer \in member["fundingSigner"]
  /\ PartiesAllowed(v, signer)
  /\ VoucherIsNew(v)
  /\ funded' = funded \cup {[voucher |-> v, signer |-> signer]}
  /\ UNCHANGED <<chain, script, starts, ops, check>>

--------------------------------------------------------------------------------
(* Blocks.                                                                        *)

Snapshot == [member |-> member, bound |-> bound, live |-> DOMAIN deployed]

NewSincePast == IF past = <<>> THEN DOMAIN deployed # {} ELSE past[Len(past)] # Snapshot

\* A block is sealed when it is full, or when no script is sending.
SealBlock ==
  /\ ~RoomInBlock \/ (script = Idle /\ NewSincePast)
  /\ past' = Append(past, Snapshot)
  /\ UNCHANGED <<deployed, bound, paused, source, member, log, finalized, script, starts,
                 ops, funded, check>>

Finalize ==
  /\ check.verdict = "reading" /\ check.tag = "finalized" /\ finalized < Len(past)
  /\ finalized' \in finalized + 1 .. Len(past)
  /\ UNCHANGED <<deployed, bound, paused, source, member, log, past, script, starts,
                 ops, funded, check>>

--------------------------------------------------------------------------------
(* verifyArcDeploymentTopologyAndRoles.                                           *)

Scope(r) == IF r \in FactoryRoles THEN "factory" ELSE "registry"

\* roleChecks: the roles in the order they are read, and conflictChecks.
RoleChecks == <<"factoryAdmin", "fundingSigner", "intentSigner", "settler",
                "registryAdmin", "sourceAdmin">>
ConflictChecks == RemoveAt(RoleChecks, 3)
Each(kind, rs) == [i \in DOMAIN rs |-> <<kind, rs[i]>>]
ThreeReads(r) == <<<<"count", r>>, <<"member", r>>, <<"deployer", r>>>>

\* The reads of the verifier, one after the other: the code, the wiring, the
\* locked initializer, three reads a role, the other roles of the intent signer, the
\* events of the two contracts, and the roles of the buyer.
Reads ==
  <<<<"code", "all">>, <<"wiring", "all">>, <<"initializer", "all">>>>
    \o FlattenSeq([i \in DOMAIN RoleChecks |-> ThreeReads(RoleChecks[i])])
    \o Each("conflict", ConflictChecks)
    \o <<<<"replay", "factory">>, <<"replay", "registry">>, <<"payout", "all">>>>
    \o Each("buyer", RoleChecks)

\* loadRoleEvents: eth_getLogs over [from, from + LogSpan], then the next chunk, up
\* to the block of the manifest.
ChunkStarts(from, to) == {b \in from .. to : (b - from) % (LogSpan + 1) = 0}
ChunkEnd(b, to) == IF b + LogSpan < to THEN b + LogSpan ELSE to
Loaded(scope, to) ==
  {i \in DOMAIN log :
     /\ Scope(log[i].role) = scope
     /\ \E b \in ChunkStarts(deployed[scope], to) : log[i].block \in b .. ChunkEnd(b, to)}

\* replayRoleEvents: the members the events leave a role with, taken in the order of
\* the chain.
Replayed(events, r) ==
  MapThenFoldSet(LAMBDA e, ms : IF e.role # r THEN ms
                                ELSE IF e.type = "granted" THEN ms \cup {e.account}
                                ELSE ms \ {e.account},
                 {}, LAMBDA i : log[i], Max, events)

HasEvent(events, type, r, a) ==
  \E i \in events : /\ log[i].type = type /\ log[i].role = r
                    /\ log[i].account = a /\ log[i].sender = Deployer

\* A slip: the events of the hand-over are looked for, and not replayed.
ReplayFindsHandOver(scope, to) ==
  \A r \in {s \in Roles : Scope(s) = scope} :
    HasEvent(Loaded(scope, to), "granted", r, Expected[r])

\* The members that were read back are the expected account alone, or the verifier
\* had failed before it came here.
ReplayAgrees(scope, to) ==
  LET events == Loaded(scope, to) IN
  \A r \in {s \in Roles : Scope(s) = scope} :
    /\ HasEvent(events, "granted", r, Expected[r])
    /\ r = AdminOf(r) => /\ HasEvent(events, "granted", r, Deployer)
                         /\ HasEvent(events, "revoked", r, Deployer)
    /\ Replayed(events, r) = {Expected[r]}

\* verifySmokeIdentities: the payout is none of the others.
PayoutIsDistinct == Payout \notin {Buyer, Deployer} \cup {Expected[r] : r \in Roles}

\* verifyCoreContracts: each contract has code, and it is the code of its artifact.
HasCode(at) == at.live = Contracts

\* verifyWiring: the factory's addresses are immutable, the registry's is bound once.
IsWired(at) == HasCode(at) /\ at.bound

\* verifyImplementationInitializerLocked: the constructor locks it, so the call that
\* probes it reverts as soon as there is code.
InitializerReverts(at) == "implementation" \in at.live

Passes(read, at, to) ==
  LET r == read[2] IN
  CASE read[1] = "code" -> HasCode(at)
    [] read[1] = "wiring" -> IsWired(at)
    [] read[1] = "initializer" -> InitializerReverts(at)
    [] read[1] = "count" -> Cardinality(at.member[r]) = 1
    [] read[1] = "member" -> Expected[r] \in at.member[r]
    [] read[1] = "deployer" -> Deployer \notin at.member[r]
    [] read[1] = "conflict" -> Expected["intentSigner"] \notin at.member[r]
    [] read[1] = "replay" -> ReplayAgrees(r, to)
    [] read[1] = "payout" -> PayoutIsDistinct
    [] read[1] = "buyer" -> Buyer \notin at.member[r]

NotStarted == [verdict |-> "none", block |-> 0, tag |-> "finalized", next |-> 1]

Failed == [NotStarted EXCEPT !.verdict = "failed"]

\* The manifest names a block that is final, and the contracts' deployment blocks.
StartCheck(b, tag) ==
  /\ check = NotStarted /\ funded = {}
  /\ \A c \in Contracts : Live(c) /\ deployed[c] <= b
  /\ finalized' \in b .. (IF tag = "pinned" THEN b ELSE Len(past))
  /\ check' = [verdict |-> "reading", block |-> b, tag |-> tag, next |-> 1]
  /\ UNCHANGED <<deployed, bound, paused, source, member, log, past, script, starts, ops, funded>>

\* One read, at the block its tag stands for at this moment.
Read ==
  LET at == past[IF check.tag = "finalized" THEN finalized ELSE check.block] IN
  /\ check.verdict = "reading"
  /\ check' = IF ~Passes(Reads[check.next], at, check.block)
              THEN Failed
              ELSE IF check.next = Len(Reads)
              THEN [check EXCEPT !.verdict = "passed"]
              ELSE [check EXCEPT !.next = @ + 1]
  /\ UNCHANGED <<chain, script, starts, ops, funded>>

\* The RPC request fails, and with it the whole verification.
RequestFails ==
  /\ check.verdict = "reading"
  /\ check' = Failed
  /\ UNCHANGED <<chain, script, starts, ops, funded>>

--------------------------------------------------------------------------------
Init ==
  /\ deployed = <<>> /\ bound = FALSE /\ paused = FALSE /\ source = {}
  /\ member = [r \in Roles |-> {}]
  /\ log = <<>> /\ past = <<>> /\ finalized = 0
  /\ script = Idle /\ starts = 0 /\ ops = 0 /\ funded = {}
  /\ check = NotStarted

ChainStep ==
  \/ StartCore \/ ResumeCore \/ StartHandOver
  \/ \E c \in Contracts : Deploy(c)
  \/ BindFactory \/ HandOverStep \/ ScriptStops
  \/ \E type \in {"granted", "revoked"}, r \in Roles, a \in Operable, s \in Accounts :
        ByHand(type, r, a, s)
  \/ \E r \in Roles, a \in Accounts : Renounce(r, a)
  \/ \E a \in Accounts : PauseCreation(a)
  \/ \E o \in Offers, a \in Accounts : CreateSource(o, a) \/ UpdateSource(o, a)
  \/ \E v \in Vouchers, s \in Accounts : CreateAndFund(v, s)
  \/ SealBlock

\* The verifier sees a block only once it is final, and no step of the chain depends
\* on the verifier: so the blocks that become final while it reads may as well have
\* been sealed before it began.  It reads nothing that funding changes either, and
\* is not combined with it.
Next ==
  \/ check = NotStarted /\ ChainStep
  \/ Finalize
  \/ \E b \in 1 .. Len(past), tag \in {"finalized", "pinned"} : StartCheck(b, tag)
  \/ Read \/ RequestFails

Spec == Init /\ [][Next]_vars

--------------------------------------------------------------------------------
(* Properties.                                                                    *)

Events == [block: Nat \ {0}, type: {"granted", "revoked"}, role: Roles,
           account: Accounts, sender: Accounts]

\* The state is of its type.
TypeOK ==
  /\ DOMAIN deployed \subseteq Contracts /\ bound \in BOOLEAN /\ paused \in BOOLEAN
  /\ member \in [Roles -> SUBSET Accounts]
  /\ log \in Seq(Events)
  /\ finalized \in 0 .. Len(past)
  /\ starts \in 0 .. MaxScripts /\ ops \in 0 .. MaxOps
  /\ check.verdict \in {"none", "reading", "passed", "failed"}

\* Nobody has two roles.
Apart(m) == \A r, s \in Roles : r # s => m[r] \cap m[s] = {}

\* The separation a verification found lasts: in no block from the manifest's on has
\* an account two roles, whoever grants afterwards, at either contract. Each contract
\* checks the other at the moment it grants and neither is told of what the other
\* grants later; and what was granted unchecked before bindFactory does not pass.
VerifiedRolesStayApart ==
  check.verdict = "passed" =>
    \A b \in check.block .. Len(past) : Apart(past[b].member)

\* The script never leaves a deployed contract without an administrator, wherever
\* it stops, as long as nobody has changed a role by hand (transferRoles).
ScriptKeepsAnAdministrator ==
  ops = 0 => /\ Live("factory") => member["factoryAdmin"] # {}
             /\ Live("registry") => member["registryAdmin"] # {}

\* A verification that passed tells the truth about the manifest's block: there
\* every role had the one member the manifest names, and the deployer had none,
\* although each of its reads saw the chain at a later moment of its own.
PassedIsTrueAtTheBlock ==
  check.verdict = "passed" =>
    \A r \in Roles : /\ past[check.block].member[r] = {Expected[r]}
                     /\ Deployer \notin past[check.block].member[r]

\* Money moves only after the hand-over has run to its end: as long as nobody changed
\* anything by hand, every role has the account of the manifest, and no other, once an
\* escrow is funded, wherever the scripts stopped and however often they were run
\* again. The gate only asks that the deployer has no role left; that all the others
\* have theirs by then follows from the order of transferRoles.
FundedAfterHandOver ==
  funded # {} /\ ops = 0 => \A r \in Roles : member[r] = {Expected[r]}

================================================================================
