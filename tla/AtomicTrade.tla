---------------------------- MODULE AtomicTrade ----------------------------
(***************************************************************************)
(* What the router promises its user, as one indivisible step per trade:    *)
(* the trade that was submitted either moves the balances as Settled says   *)
(* of that very trade, or is refused and moves nothing.  How many legs      *)
(* there were, in which order balances moved and which programs moved them  *)
(* is not visible here.                                                     *)
(***************************************************************************)
EXTENDS RouterTypes

VARIABLES
    bal,        \* the balances between two trades
    cfg,        \* the router configuration
    pending     \* the trade submitted and not decided, as a set

abstractVars == <<bal, cfg, pending>>

(* Every account a route instruction names as movable. *)
Named(req) ==
    {req.fee_source, req.fee_destination}
        \cup UNION {req.legs[k].writable : k \in DOMAIN req.legs}

FeeOf(req) == checked_fee(req.amount_in, cfg.fee_bps)

(* The input account pays what the instruction declares: exactly amount_in, *)
(* or with exact_out at least the fee and at most amount_in.                *)
DebitDeclared(req, after) ==
    LET spent == bal[req.fee_source] - after[req.fee_source]
    IN  IF req.exact_out THEN spent \in FeeOf(req) .. req.amount_in
        ELSE spent = req.amount_in

(* The fee went to an account of the configured recipient, in full, and no  *)
(* leg took it back; a mint that withholds transfer fees may reduce it, and *)
(* a recipient who trades may pay it to the account it comes from.          *)
FeePaid(req, after) ==
    FeeOf(req) > 0 =>
        /\ IF req.fee_asset = 0 THEN req.fee_destination = cfg.fee_recipient
           ELSE /\ Holder[req.fee_destination] = cfg.fee_recipient
                /\ Mint[req.fee_destination] = Mint[req.fee_source]
        /\ Holder[req.fee_destination] # req.user
             /\ Mint[req.fee_source] \notin TransferFeeMints
             => after[req.fee_destination]
                   >= bal[req.fee_destination] + FeeOf(req)

(* The output account, of the declared mint, gained the minimum; a fee that *)
(* happens to be paid into it is not part of the gain.                      *)
OutputGained(req, after) ==
    LET fee_in == IF /\ req.fee_destination = req.user_output
                     /\ Mint[req.fee_source] \notin TransferFeeMints
                  THEN FeeOf(req) ELSE 0
    IN  /\ IF req.expected_mint = NativeMint THEN req.user_output = req.user
           ELSE Mint[req.user_output] = req.expected_mint
        /\ req.min_amount_out > 0 =>
              /\ req.user_output # req.fee_source
              /\ after[req.user_output]
                    >= bal[req.user_output] + fee_in + req.min_amount_out

(* What the user held of an intermediate token before a dynamic trade is    *)
(* there after it, and nothing more but a fee paid into that very account.  *)
OldBalancesKept(req, after) ==
    \A i \in Hops(req) :
        LET a == req.intermediate[i]
        IN  /\ after[a] >= bal[a]
            /\ (a # req.fee_destination \/ FeeOf(req) = 0) => after[a] = bal[a]

(* Nobody but the signing user loses anything, and accounts the instruction *)
(* does not name are not touched.                                           *)
OthersKept(req, after) ==
    /\ \A a \in Accounts : Holder[a] # req.user => after[a] >= bal[a]
    /\ \A a \in Accounts \ Named(req) : after[a] = bal[a]

Settled(req, after) ==
    /\ cfg.initialized /\ ~cfg.paused
    /\ req.signed
    /\ DebitDeclared(req, after)
    /\ FeePaid(req, after)
    /\ OutputGained(req, after)
    /\ OldBalancesKept(req, after)
    /\ OthersKept(req, after)

Submit(req) ==
    /\ pending = {}
    /\ pending' = {req}
    /\ UNCHANGED <<bal, cfg>>

Trade(req) ==
    /\ pending = {req}
    /\ bal' \in Ledgers
    /\ Settled(req, bal')
    /\ pending' = {}
    /\ UNCHANGED cfg

Refuse ==
    /\ pending # {}
    /\ pending' = {}
    /\ UNCHANGED <<bal, cfg>>

(* Balances do not move when the configuration does, and the authority is   *)
(* chosen once.                                                             *)
Configure ==
    /\ pending = {}
    /\ cfg' \in ConfigType
    /\ cfg'.initialized
    /\ cfg.initialized => cfg'.authority = cfg.authority
    /\ UNCHANGED <<bal, pending>>

AtomicInit ==
    /\ bal \in Ledgers
    /\ cfg \in ConfigType /\ ~cfg.initialized
    /\ pending = {}

AtomicNext ==
    \/ Configure \/ Refuse
    \/ \E req \in Requests : Submit(req) \/ Trade(req)

AtomicSpec == AtomicInit /\ [][AtomicNext]_abstractVars
=============================================================================
