----------------------------- MODULE RouterTypes -----------------------------
(***************************************************************************)
(* What the router program and its specification talk about: the accounts   *)
(* of the chain, the route instruction a client submits, and the fee.       *)
(*                                                                          *)
(* An account is an address.  The fields the program reads of it (the       *)
(* program that owns it, the wallet that holds it, its mint) never change   *)
(* while routes run; only its balance does.  The account of a wallet has    *)
(* the address of the wallet and its balance is in lamports; the balance of *)
(* a token account is its amount field.                                     *)
(***************************************************************************)
EXTENDS Integers, Sequences

CONSTANTS
    Wallets,            \* addresses that sign
    ZeroAddress,        \* what unwritten bytes of an address hold
    Accounts,           \* every address with a balance, Wallets included
    Holder,             \* the wallet an account belongs to (token_owner)
    Mint,               \* the mint of a token account (token_mint)
    Program,            \* the program that owns the account (owner())
    SystemProgram, TokenProgram, Token2022Program,
    NativeMint,         \* the all-zero mint: the output is native SOL
    TransferFeeMints,   \* Token-2022 mints that withhold part of a transfer
    MAX_FEE_BPS,        \* 1_000 in the code
    FEE_DENOM,          \* 10_000 in the code
    MAX_U64,            \* 2^64 - 1 in the code
    MAX_LEGS,           \* 4 in the code
    Requests            \* the route instructions clients may submit

Amounts == 0 .. MAX_U64

TokenPrograms == {TokenProgram, Token2022Program}

is_token_program(p) == p \in TokenPrograms

Ledgers == [Accounts -> Amounts]

(***************************************************************************)
(* One leg of a route: the CPI the router makes for it.  "writable" are the *)
(* accounts passed writable; "recognised" says that dynamic_second_leg      *)
(* knows the program and the shape of the data, and then "input" and        *)
(* "output" are the accounts at the layout's indices and "mints_match" is   *)
(* the outcome of the mint and token program comparisons.  "honest" is not  *)
(* in the instruction: it says what the called DEX does.                    *)
(***************************************************************************)
Leg == [ parses : BOOLEAN, recognised : BOOLEAN, launchlab : BOOLEAN,
         mints_match : BOOLEAN, user_signs : BOOLEAN, honest : BOOLEAN,
         amount : Amounts, input : Accounts, output : Accounts,
         writable : SUBSET Accounts ]

(***************************************************************************)
(* A route instruction.  "mode" counts the dynamic intermediates: 0 for     *)
(* tag ROUTE, 1 for ROUTE_DYNAMIC and 2 for ROUTE_DYNAMIC_THREE.            *)
(***************************************************************************)
Modes == 0 .. 2

RouteRequest ==
    [ mode : Modes, user : Wallets, signed : BOOLEAN, config_pda : BOOLEAN,
      amount_in : Amounts, min_amount_out : Amounts,
      exact_out : BOOLEAN, fee_asset : {0, 1},
      expected_mint : {NativeMint} \cup {Mint[a] : a \in Accounts},
      fee_destination : Accounts, fee_source : Accounts,
      user_output : Accounts,
      fee_program : {SystemProgram, TokenProgram, Token2022Program},
      fee_mint_meta : {"absent", "valid", "invalid"},
      intermediate : [1 .. 2 -> Accounts], minimum : [1 .. 2 -> Amounts],
      legs : Seq(Leg), trailing : BOOLEAN ]

(* The fields of the RouterConfig account that routes and updates read. *)
ConfigType ==
    [ initialized : BOOLEAN, authority : Wallets \cup {ZeroAddress},
      fee_recipient : Wallets \cup {ZeroAddress},
      fee_bps : 0 .. MAX_FEE_BPS, paused : BOOLEAN ]

(* The indices of the intermediates a request really has. *)
Hops(req) == 1 .. req.mode

(* floor(amount_in * fee_bps / 10_000) *)
checked_fee(amount_in, fee_bps) == (amount_in * fee_bps) \div FEE_DENOM

ASSUME RouterConstants ==
    /\ Wallets \subseteq Accounts
    /\ ZeroAddress \notin Accounts
    /\ Holder \in [Accounts -> Wallets]
    /\ \A w \in Wallets : Holder[w] = w /\ Program[w] = SystemProgram
    /\ SystemProgram \notin TokenPrograms
    /\ MAX_FEE_BPS \in Nat /\ FEE_DENOM \in Nat \ {0}
    /\ MAX_FEE_BPS <= FEE_DENOM
    /\ MAX_U64 \in Nat /\ MAX_LEGS \in Nat
    /\ Requests \subseteq RouteRequest
=============================================================================
