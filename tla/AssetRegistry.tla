---------------------------- MODULE AssetRegistry ----------------------------
(***************************************************************************)
(* The protocol configuration and the asset registry of the ChainPay       *)
(* program (programs/chainpay): the ["config"] account, its authority, and  *)
(* one ["asset", mint] account per settlement mint.  Every instruction is   *)
(* one atomic step; a refused instruction is rolled back and is no step.    *)
(***************************************************************************)
EXTENDS Naturals

CONSTANTS
    Key,         \* the public keys that sign transactions
    Mint,        \* the token mints
    MintLists,   \* the three-place mint lists callers pass to the config
    DefaultKey,  \* Pubkey::default()
    NoConfig,    \* the config account does not exist yet
    NoAsset      \* the asset account of a mint does not exist yet

ASSUME RegistryAssumption ==
    /\ DefaultKey \notin Key \cup Mint
    /\ MintLists \subseteq [1..3 -> Mint \cup {DefaultKey}]
    /\ NoConfig \notin [authority : Key, supported_mints : MintLists]
    /\ NoAsset \notin [authority : Key, enabled : BOOLEAN]

VARIABLES
    config,      \* the ProtocolConfig account
    asset        \* the SupportedAsset account of each mint

registryVars == <<config, asset>>

ProtocolConfig == [authority : Key, supported_mints : MintLists]
SupportedAsset == [authority : Key, enabled : BOOLEAN]

RegistryTypeOK ==
    /\ config \in ProtocolConfig \cup {NoConfig}
    /\ asset \in [Mint -> SupportedAsset \cup {NoAsset}]

RegistryInit ==
    /\ config = NoConfig
    /\ asset = [t \in Mint |-> NoAsset]

\* At least one mint, and none listed twice; empty places are allowed.
validate_supported_mints(list) ==
    /\ \E i \in 1..3 : list[i] # DefaultKey
    /\ \A i, j \in 1..3 : i < j /\ list[j] # DefaultKey => list[i] # list[j]

\* `init` on the config account: the first caller becomes its authority.
initialize_config(who, list) ==
    /\ config = NoConfig
    /\ validate_supported_mints(list)
    /\ config' = [authority |-> who, supported_mints |-> list]
    /\ UNCHANGED asset

\* `has_one = authority`.
IsAuthority(who) == config # NoConfig /\ who = config.authority

update_config(who, list) ==
    /\ IsAuthority(who)
    /\ validate_supported_mints(list)
    /\ config' = [config EXCEPT !.supported_mints = list]
    /\ UNCHANGED asset

\* `init` on the asset account: a mint is registered once, enabled.
register_asset(who, t) ==
    /\ IsAuthority(who)
    /\ asset[t] = NoAsset
    /\ asset' = [asset EXCEPT ![t] = [authority |-> who, enabled |-> TRUE]]
    /\ UNCHANGED config

set_asset_status(who, t, on) ==
    /\ IsAuthority(who)
    /\ asset[t] # NoAsset
    /\ who = asset[t].authority
    /\ asset' = [asset EXCEPT ![t].enabled = on]
    /\ UNCHANGED config

\* The gate that create_mandate and execute_payment put in front of a mint.
AssetEnabled(t) == config # NoConfig /\ asset[t] # NoAsset /\ asset[t].enabled

RegistryNext ==
    \E who \in Key :
        \/ \E list \in MintLists : initialize_config(who, list)
        \/ \E list \in MintLists : update_config(who, list)
        \/ \E t \in Mint : register_asset(who, t)
        \/ \E t \in Mint, on \in BOOLEAN : set_asset_status(who, t, on)
=============================================================================
