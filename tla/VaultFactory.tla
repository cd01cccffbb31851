---------------------------- MODULE VaultFactory ----------------------------
(***************************************************************************)
(* contracts/vault-factory: deploys, initialises and registers one vault   *)
(* per underlying, together with the two admin entry points of the vaults  *)
(* it makes and the admin handover of docs/MAINNET.md: transfer_admin of   *)
(* every contract to the multisig, then the deployer's key is retired.     *)
(* Vault models what a vault does once it is in use.                       *)
(***************************************************************************)
CONSTANTS
  Underlyings,     \* tokens a vault may be deployed for
  Wasms,           \* vault builds
  Keys,            \* the keys that may administer: the deployer's, the multisig's
  Multisig,        \* the key everything is handed to
  NoKey, NoVault   \* absent admin or pending admin, address without a contract

Contracts == [wasm : Wasms, token : Underlyings, admin : Keys, pending : Keys \cup {NoKey}]

ASSUME FactoryAssumption ==
  /\ Multisig \in Keys
  /\ NoKey \notin Keys
  /\ NoVault \notin Contracts

VARIABLES
  admin, wasm,     \* DataKey::Admin, DataKey::VaultWasmHash
  registry,        \* DataKey::Registry, the address of an underlying's vault
  vaults,          \* what is deployed at each address
  retired          \* keys that sign no more

factoryVars == <<admin, wasm, registry, vaults, retired>>

\* an address of the factory's is its salt, the hash of an underlying
Addresses == Underlyings

Signs(key) == key \in Keys \ retired

-----------------------------------------------------------------------------
(* The factory.  Its init is open to any caller, once. *)

InitFactory(adm, hash) ==
  /\ admin = NoKey
  /\ admin' = adm /\ wasm' = hash
  /\ UNCHANGED <<registry, vaults, retired>>

Salt(u) == u

\* mutant: the factory leaves it to the admin to call init
InitLater(u) == [wasm |-> wasm, token |-> u, admin |-> NoKey, pending |-> NoKey]

\* the vault as deploy_v2 and the nested init leave it
Initialised(u) == [wasm |-> wasm, token |-> u, admin |-> admin, pending |-> NoKey]

\* one atomic call: deploying to an address in use traps and rolls all back
DeployVault(u) ==
  /\ Signs(admin)
  /\ registry[u] = NoVault
  /\ vaults[Salt(u)] = NoVault
  /\ vaults' = [vaults EXCEPT ![Salt(u)] = Initialised(u)]
  /\ registry' = [registry EXCEPT ![u] = Salt(u)]
  /\ UNCHANGED <<admin, wasm, retired>>

SetWasmHash(hash) ==
  /\ Signs(admin)
  /\ wasm' = hash
  /\ UNCHANGED <<admin, registry, vaults, retired>>

-----------------------------------------------------------------------------
(* The vaults' own lifecycle *)

Deployed(a) == vaults[a] # NoVault

TransferAdmin(a, new) ==
  /\ Deployed(a)
  /\ Signs(vaults[a].admin)
  /\ vaults' = [vaults EXCEPT ![a].pending = new]
  /\ UNCHANGED <<admin, wasm, registry, retired>>

AcceptAdmin(a) ==
  /\ Deployed(a)
  /\ Signs(vaults[a].pending)
  /\ vaults' = [vaults EXCEPT ![a].admin = vaults[a].pending, ![a].pending = NoKey]
  /\ UNCHANGED <<admin, wasm, registry, retired>>

-----------------------------------------------------------------------------
(* The runbook's last step: with every admin that can be transferred handed *)
(* over, the other keys are retired.                                        *)

HandedOver(a) == Deployed(a) => vaults[a].admin = Multisig

RetireKeys ==
  /\ \E a \in Addresses : Deployed(a)
  /\ \A a \in Addresses : HandedOver(a)
  /\ retired' = Keys \ {Multisig}
  /\ retired' # retired
  /\ UNCHANGED <<admin, wasm, registry, vaults>>

FactoryInit ==
  /\ admin = NoKey
  /\ wasm \in Wasms
  /\ registry = [u \in Underlyings |-> NoVault]
  /\ vaults = [a \in Addresses |-> NoVault]
  /\ retired = {}

FactoryNext ==
  \/ \E adm \in Keys, hash \in Wasms : InitFactory(adm, hash)
  \/ \E u \in Underlyings : DeployVault(u)
  \/ \E hash \in Wasms : SetWasmHash(hash)
  \/ \E a \in Addresses, new \in Keys : TransferAdmin(a, new)
  \/ \E a \in Addresses : AcceptAdmin(a)
  \/ RetireKeys

FactorySpec == FactoryInit /\ [][FactoryNext]_factoryVars

-----------------------------------------------------------------------------
(* Properties *)

\* Whatever is deployed, upgraded and handed over in whatever order, the
\* registry leads from each underlying to a vault of that underlying which a
\* key still in use administers: a vault is never seen before its init, a
\* handover never strands it with a key that does not answer, and retiring the
\* deployer's key leaves none behind, those deployed afterwards included.
VaultsStayGoverned ==
  \A u \in Underlyings :
    registry[u] # NoVault => /\ Deployed(registry[u])
                            /\ vaults[registry[u]].token = u
                            /\ Signs(vaults[registry[u]].admin)

=============================================================================
