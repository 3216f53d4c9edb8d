---------------------------- MODULE RouterConfig ----------------------------
(***************************************************************************)
(* The router's configuration account and the two instructions that write   *)
(* it.  Whoever lands INITIALIZE first becomes the authority; afterwards    *)
(* only UPDATE_CONFIG changes the account.  A rejected instruction changes  *)
(* nothing, so only the accepted ones are actions.                          *)
(***************************************************************************)
EXTENDS RouterTypes

CONSTANT BpsInputs \* the fee_bps values instructions may carry

VARIABLES
    config,        \* the RouterConfig account
    caller         \* the signer of the last accepted configuration change

configVars == <<config, caller>>

ConfigTypeOK ==
    /\ config \in ConfigType
    /\ caller \in Wallets \cup {ZeroAddress}

ConfigInit ==
    /\ config = [ initialized |-> FALSE, authority |-> ZeroAddress,
                  fee_recipient |-> ZeroAddress, fee_bps |-> 0,
                  paused |-> FALSE ]
    /\ caller = ZeroAddress

-----------------------------------------------------------------------------

(* A slip: write_new before the check of the maximum. *)
InitializeUnchecked(payer, fee_recipient, fee_bps) ==
    /\ ~config.initialized
    /\ config' = [ initialized |-> TRUE, authority |-> payer,
                   fee_recipient |-> fee_recipient, fee_bps |-> fee_bps,
                   paused |-> FALSE ]
    /\ caller' = payer

(* A slip: the AlreadyInitialized check is gone. *)
Reinitialize(payer, fee_recipient, fee_bps) ==
    /\ fee_bps <= MAX_FEE_BPS
    /\ config' = [ initialized |-> TRUE, authority |-> payer,
                   fee_recipient |-> fee_recipient, fee_bps |-> fee_bps,
                   paused |-> FALSE ]
    /\ caller' = payer

(* initialize::process followed by RouterConfig::write_new *)
Initialize(payer, fee_recipient, fee_bps) ==
    /\ fee_bps <= MAX_FEE_BPS
    /\ ~config.initialized
    /\ config' = [ initialized |-> TRUE, authority |-> payer,
                   fee_recipient |-> fee_recipient, fee_bps |-> fee_bps,
                   paused |-> FALSE ]
    /\ caller' = payer

(* update_config::process followed by RouterConfig::update: the fee and the *)
(* pause flag are overwritten by every update, the recipient on request.    *)
UpdateConfig(signer, fee_bps, paused, update_recipient, recipient) ==
    /\ fee_bps <= MAX_FEE_BPS
    /\ config.initialized
    /\ signer = config.authority
    /\ config' = [config EXCEPT
                    !.fee_recipient = IF update_recipient THEN recipient ELSE @,
                    !.fee_bps = fee_bps,
                    !.paused = paused]
    /\ caller' = signer

ConfigNext ==
    \/ \E payer, recipient \in Wallets, bps \in BpsInputs :
           Initialize(payer, recipient, bps)
    \/ \E signer, recipient \in Wallets, bps \in BpsInputs,
          paused, update_recipient \in BOOLEAN :
           UpdateConfig(signer, bps, paused, update_recipient, recipient)

-----------------------------------------------------------------------------

(* A configuration once created is never re-created: its authority stays    *)
(* the wallet that landed INITIALIZE, and every later change of the fee,    *)
(* the recipient or the pause flag was signed by that wallet                *)
(* (initialize.rs AlreadyInitialized, update_config.rs Unauthorized).       *)
ConfigControl ==
    [][config.initialized =>
          /\ config'.initialized
          /\ config'.authority = config.authority
          /\ config' # config => caller' = config.authority]_configVars

ASSUME ConfigConstants == BpsInputs \subseteq Nat
=============================================================================
