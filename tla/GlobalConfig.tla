---------------------------- MODULE GlobalConfig ----------------------------
(***************************************************************************)
(* The configuration of the limit orders: an admin, a fixed number of      *)
(* slots for resolvers, the trade fee, the pause flag and the multiplier   *)
(* of the fees a resolver collects (state/config.rs and its handlers).     *)
(***************************************************************************)
EXTENDS Integers

CONSTANTS
  Accounts,         \* public keys
  NoKey,            \* Pubkey::default, an empty slot
  UpgradeAuthority, \* who may initialise the configuration
  NumSlots,         \* resolver slots, 5 in the code
  NewKeys,          \* keys an admin may hand over to, add or remove
  TradeFees,        \* trade fees an admin may set
  Multipliers       \* fee multipliers an admin may set

ASSUME KeysAssumption == NoKey \notin Accounts /\ UpgradeAuthority \in Accounts

ASSUME ConfigAssumption ==
  /\ NumSlots \in Nat
  /\ NewKeys \subseteq Accounts \cup {NoKey}
  /\ TradeFees \subseteq Nat /\ Multipliers \subseteq Nat

VARIABLE config

(* The configuration before it is initialised.                             *)
NoConfig == [admin |-> NoKey]

Slots == 1..NumSlots

Configs ==
  [admin : Accounts, resolvers : [Slots -> Accounts \cup {NoKey}],
   tradeFee : Nat, paused : BOOLEAN, feeMultiplier : Nat]

IsResolver(r) ==
  config # NoConfig /\ r # NoKey /\ \E i \in Slots : config.resolvers[i] = r

Paused == config = NoConfig \/ config.paused

SlotsOf(r) == {i \in Slots : config.resolvers[i] = r}

IsFirst(i, slots) == i \in slots /\ \A j \in slots : i <= j

-----------------------------------------------------------------------------
ConfigInit == config = NoConfig

InitGlobalConfig(signer, tradeFee) ==
  /\ config = NoConfig
  /\ signer = UpgradeAuthority
  /\ tradeFee > 0
  /\ config' = [admin |-> signer, resolvers |-> [i \in Slots |-> NoKey],
                tradeFee |-> tradeFee, paused |-> FALSE, feeMultiplier |-> 10]

(* has_one = admin.                                                        *)
ByAdmin(signer) == config # NoConfig /\ signer = config.admin

SetAdmin(signer, admin) ==
  /\ ByAdmin(signer)
  /\ admin # NoKey
  /\ config' = [config EXCEPT !.admin = admin]

(* Mutant: a resolver may be added twice. *)
AddableTwice(resolver) == resolver # NoKey

Addable(resolver) == resolver # NoKey /\ SlotsOf(resolver) = {}

AddResolver(signer, resolver) ==
  /\ ByAdmin(signer)
  /\ Addable(resolver)
  /\ \E i \in Slots :
       /\ IsFirst(i, SlotsOf(NoKey))
       /\ config' = [config EXCEPT !.resolvers[i] = resolver]

RemoveResolver(signer, resolver) ==
  /\ ByAdmin(signer)
  /\ resolver # NoKey
  /\ \E i \in Slots :
       /\ IsFirst(i, SlotsOf(resolver))
       /\ config' = [config EXCEPT !.resolvers[i] = NoKey]

SetTradeFee(signer, tradeFee) ==
  /\ ByAdmin(signer)
  /\ tradeFee > 0
  /\ config' = [config EXCEPT !.tradeFee = tradeFee]

SetPaused(signer, paused) ==
  /\ ByAdmin(signer)
  /\ config' = [config EXCEPT !.paused = paused]

(* Mutant: a multiplier may count fewer than ten tenths. *)
MultiplierAllowedAny(feeMultiplier) == feeMultiplier > 0

MultiplierAllowed(feeMultiplier) == feeMultiplier >= 10

SetFeeMultiplier(signer, feeMultiplier) ==
  /\ ByAdmin(signer)
  /\ MultiplierAllowed(feeMultiplier)
  /\ config' = [config EXCEPT !.feeMultiplier = feeMultiplier]

ConfigNext ==
  \E signer \in Accounts :
    \/ \E fee \in TradeFees : InitGlobalConfig(signer, fee)
    \/ \E admin \in NewKeys : SetAdmin(signer, admin)
    \/ \E r \in NewKeys : AddResolver(signer, r)
    \/ \E r \in NewKeys : RemoveResolver(signer, r)
    \/ \E fee \in TradeFees : SetTradeFee(signer, fee)
    \/ \E paused \in BOOLEAN : SetPaused(signer, paused)
    \/ \E multiplier \in Multipliers : SetFeeMultiplier(signer, multiplier)

ConfigSpec == ConfigInit /\ [][ConfigNext]_config

-----------------------------------------------------------------------------
(* ConfigTypeOK: the configuration, once there is one, always has an admin *)
(* to unpause it, a fee and a multiplier that never lowers what is asked.  *)
ConfigTypeOK ==
  config # NoConfig =>
    /\ config \in Configs
    /\ config.tradeFee > 0
    /\ config.feeMultiplier >= 10

(* ResolversDistinct: no resolver holds two slots, so adding one fails for *)
(* want of a slot only when NumSlots resolvers are in.                     *)
ResolversDistinct ==
  config # NoConfig =>
    \A i, j \in Slots :
      config.resolvers[i] = config.resolvers[j] /\ config.resolvers[i] # NoKey
        => i = j

(* ConfigInv: the configuration is well formed (a fee that is not zero, a  *)
(* multiplier of at least one) and its resolvers are distinct.             *)
ConfigInv == ConfigTypeOK /\ ResolversDistinct

(* RemovedIsOut: remove_resolver clears one slot only, yet whoever was     *)
(* removed is no resolver any more, and nobody else's slot is lost.        *)
RemovedIsOut ==
  [][\A signer, r \in Accounts :
       RemoveResolver(signer, r) =>
         /\ ~IsResolver(r)'
         /\ \A s \in Accounts \ {r} : IsResolver(s)' = IsResolver(s)]_config

=============================================================================
