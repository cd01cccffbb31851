------------------------ MODULE VaultFactory_proofs ------------------------
(***************************************************************************)
(* Proof that the vaults of the factory stay governed, for any number of   *)
(* underlyings and keys: a vault is at the address its registry entry      *)
(* names from the call that made both, and the key that administers it is  *)
(* one that signs at every step that sets it or retires a key.             *)
(***************************************************************************)
EXTENDS VaultFactory, TLAPS

FactoryTypeOK ==
  /\ admin \in Keys \cup {NoKey} /\ wasm \in Wasms
  /\ registry \in [Underlyings -> Underlyings \cup {NoVault}]
  /\ vaults \in [Addresses -> Contracts \cup {NoVault}]
  /\ retired \subseteq Keys

\* an entry leads to the underlying's own address, and there is its vault
Registered(u) == registry[u] # NoVault => registry[u] = u /\ Deployed(u)

\* what is deployed is the underlying's, and answers to a key in use
Governed(a) == Deployed(a) => vaults[a].token = a /\ Signs(vaults[a].admin)

FactoryInv ==
  /\ FactoryTypeOK
  /\ \A u \in Underlyings : Registered(u)
  /\ \A a \in Addresses : Governed(a)

\* A vault that is written with a governed record at its own address keeps the
\* invariant, whatever is not about another vault.
LEMMA VaultWritten ==
  ASSUME FactoryInv, NEW a \in Addresses, NEW vault \in Contracts,
         vault.token = a, Signs(vault.admin), vaults' = [vaults EXCEPT ![a] = vault],
         registry' = registry \/ registry' = [registry EXCEPT ![a] = a],
         UNCHANGED <<admin, wasm, retired>>
  PROVE  FactoryInv'
<1>1. \A b \in Addresses : vaults'[b] = IF b = a THEN vault ELSE vaults[b]
  BY DEF FactoryInv, FactoryTypeOK
<1>2. vault # NoVault /\ a \in Underlyings
  BY FactoryAssumption DEF Addresses
<1>3. FactoryTypeOK'
  BY <1>2 DEF FactoryInv, FactoryTypeOK
<1>4. \A u \in Underlyings : registry'[u] = registry[u] \/ (u = a /\ registry'[u] = a)
  BY DEF FactoryInv, FactoryTypeOK
<1>5. \A u \in Underlyings : Registered(u)'
  BY <1>1, <1>2, <1>4 DEF FactoryInv, Registered, Deployed, Addresses
<1>6. \A b \in Addresses : Governed(b)'
  BY <1>1 DEF FactoryInv, Governed, Deployed, Signs
<1> QED BY <1>3, <1>5, <1>6 DEF FactoryInv

\* Every step preserves the invariant.
LEMMA FactoryStep == FactoryInv /\ [FactoryNext]_factoryVars => FactoryInv'
<1> SUFFICES ASSUME FactoryInv, [FactoryNext]_factoryVars PROVE FactoryInv'
  OBVIOUS
<1> USE DEF FactoryTypeOK, Registered, Governed, Deployed, Signs, Addresses
<1>1. CASE UNCHANGED factoryVars
  BY <1>1 DEF factoryVars, FactoryInv
<1>2. ASSUME NEW adm \in Keys, NEW hash \in Wasms, InitFactory(adm, hash)
      PROVE  FactoryInv'
  BY <1>2 DEF InitFactory, FactoryInv
<1>3. ASSUME NEW u \in Underlyings, DeployVault(u)
      PROVE  FactoryInv'
  <2>1. /\ Initialised(u) \in Contracts
        /\ Initialised(u).token = u /\ Initialised(u).admin = admin /\ Signs(admin)
    BY <1>3 DEF DeployVault, Initialised, Contracts, FactoryInv
  <2>2. /\ vaults' = [vaults EXCEPT ![u] = Initialised(u)]
        /\ registry' = [registry EXCEPT ![u] = u]
        /\ UNCHANGED <<admin, wasm, retired>>
    BY <1>3 DEF DeployVault, Salt
  <2> QED BY <2>1, <2>2, VaultWritten
<1>4. ASSUME NEW hash \in Wasms, SetWasmHash(hash)
      PROVE  FactoryInv'
  BY <1>4 DEF SetWasmHash, FactoryInv
<1>5. ASSUME NEW a \in Addresses, NEW new \in Keys, TransferAdmin(a, new)
      PROVE  FactoryInv'
  <2> DEFINE vault == [vaults[a] EXCEPT !.pending = new]
  <2>1. vaults[a] \in Contracts /\ vaults[a].token = a /\ Signs(vaults[a].admin)
    BY <1>5 DEF TransferAdmin, FactoryInv
  <2>2. vault \in Contracts /\ vault.token = a /\ Signs(vault.admin)
    BY <2>1 DEF Contracts
  <2>3. vaults' = [vaults EXCEPT ![a] = vault] /\ UNCHANGED <<admin, wasm, registry, retired>>
    BY <1>5 DEF TransferAdmin, FactoryInv
  <2> HIDE DEF vault
  <2> QED BY <2>2, <2>3, VaultWritten
<1>6. ASSUME NEW a \in Addresses, AcceptAdmin(a)
      PROVE  FactoryInv'
  <2> DEFINE vault == [vaults[a] EXCEPT !.admin = vaults[a].pending, !.pending = NoKey]
  <2>1. vaults[a] \in Contracts /\ vaults[a].token = a /\ Signs(vaults[a].pending)
    BY <1>6 DEF AcceptAdmin, FactoryInv
  <2>2. vault \in Contracts /\ vault.token = a /\ Signs(vault.admin)
    BY <2>1 DEF Contracts
  <2>3. vaults' = [vaults EXCEPT ![a] = vault] /\ UNCHANGED <<admin, wasm, registry, retired>>
    BY <1>6 DEF AcceptAdmin, FactoryInv
  <2> HIDE DEF vault
  <2> QED BY <2>2, <2>3, VaultWritten
<1>7. CASE RetireKeys
  BY <1>7, FactoryAssumption DEF RetireKeys, HandedOver, FactoryInv
<1> QED BY <1>1, <1>2, <1>3, <1>4, <1>5, <1>6, <1>7 DEF FactoryNext

\* contracts/vault-factory and the runbook: in whatever order vaults are
\* deployed, builds replaced, admins handed over and keys retired, the registry
\* leads to each underlying's own vault, and a key in use administers it.
THEOREM FactoryGoverned == FactorySpec => []VaultsStayGoverned
<1>1. FactoryInit => FactoryInv
  BY DEF FactoryInit, FactoryInv, FactoryTypeOK, Registered, Governed, Deployed, Signs
<1>2. FactoryInv => VaultsStayGoverned
  BY DEF FactoryInv, VaultsStayGoverned, Registered, Governed, Addresses
<1> QED BY <1>1, <1>2, FactoryStep, PTL DEF FactorySpec
=============================================================================
