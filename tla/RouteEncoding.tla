---------------------------- MODULE RouteEncoding ----------------------------
(***************************************************************************)
(* The route instruction between the client that encodes it (route_ix.rs,   *)
(* dynamic.rs, legs.rs) and the program that decodes it (process_inner).    *)
(* Both sides keep a table of where a DEX instruction has its accounts and  *)
(* its amount; the program patches the amount of a later leg by its own     *)
(* table.  Balances and the settlement are in Router: here a leg is its     *)
(* account list and its data, and an account is its key.                    *)
(***************************************************************************)
EXTENDS Integers, SequencesExt

CONSTANTS
    Requests,       \* the routes that callers ask for
    Received,       \* the amounts that a hop may deliver
    Held            \* what an intermediate account holds before the route

MAX_LEGS == 4
MAX_LEG_ACCOUNTS == 64
ROUTE_HEADER_LEN == 50
LEG_HEADER_LEN == 35        \* program 32, account count 1, data length 2

TAG_ROUTE == 2
TAG_ROUTE_DYNAMIC == 5
TAG_ROUTE_DYNAMIC_THREE == 6

VARIABLES
    req,              \* the route asked for
    ix,               \* the instruction built for it
    pc,               \* where the call is
    fee_transfer,     \* how the platform fee was moved
    cursor,           \* next byte of the instruction data
    remaining_offset, \* accounts consumed by the legs so far
    quote_received,   \* what the last hop delivered
    sent              \* the CPIs made, each with what it delivered

vars == <<req, ix, pc, fee_transfer, cursor, remaining_offset,
          quote_received, sent>>

NoRequest == [kind |-> "none"]
NoInstruction == [tag |-> 0]

-----------------------------------------------------------------------------
(* Keys and account metas.  A token account is the user's associated        *)
(* account of a mint under a token program; native SOL is held by the user. *)

user == <<"user">>
ata(mint, program) == <<"ata", mint, program>>
token_mint(key) == <<"mint", key[2]>>
token_program(key) == <<"program", IF key = user THEN "system" ELSE key[3]>>

meta(key, w, s) == [key |-> key, w |-> w, s |-> s]
wr(key) == <<meta(key, TRUE, FALSE)>>
rd(key) == <<meta(key, FALSE, FALSE)>>
owner == <<meta(user, FALSE, TRUE)>>
payer == <<meta(user, TRUE, TRUE)>>

(* Accounts that no table refers to. *)
others(n, w) == [i \in 1 .. n |-> meta(<<"other">>, w, FALSE)]

writes(accounts, key) == \E m \in ToSet(accounts) : m.key = key /\ m.w

-----------------------------------------------------------------------------
(* The legs the client builds (legs.rs).  A pool has two mints in its own   *)
(* order (1 the base, A, X or 0), the token program of each, "extra"        *)
(* optional trailing accounts and whether the output is exact (mode 2, the  *)
(* swap mode of DAMM V2); i is the input side.  Data is the discriminator,  *)
(* the length, the u64 fields by offset and the trailing bytes a decoder    *)
(* looks at.                                                                *)

side(p, mint) == CHOOSE i \in 1 .. 2 : p.mints[i] = mint
user_ata(p, i) ==
    IF p.mints[i] = "sol" THEN user ELSE ata(p.mints[i], p.programs[i])
mint_key(p, i) == rd(<<"mint", p.mints[i]>>)
program_key(p, i) == rd(<<"program", p.programs[i]>>)
mint_keys(p) == mint_key(p, 1) \o mint_key(p, 2)
program_keys(p) == program_key(p, 1) \o program_key(p, 2)

form(disc, len, offset, amount, min, flags) ==
    [ disc |-> disc, len |-> len, flags |-> flags,
      u64 |-> [at \in {offset, offset + 8} |->
                  IF at = offset THEN amount ELSE min] ]

Leg(dex, accounts, data) ==
    [program_id |-> dex, accounts |-> accounts, data |-> data]

launchlab_accounts(p) ==
    payer \o others(3, FALSE) \o others(1, TRUE)
        \o wr(user_ata(p, 1)) \o wr(user_ata(p, 2)) \o others(2, TRUE)
        \o mint_keys(p) \o program_keys(p) \o others(3, FALSE) \o others(2, TRUE)

launchlab_buy_leg(p, amount, min) ==
    Leg("launchlab", launchlab_accounts(p),
        form("buy_exact_in", 32, 8, amount, min, <<0>>))

launchlab_sell_leg(p, amount, min) ==
    Leg("launchlab", launchlab_accounts(p),
        form("sell_exact_in", 32, 8, amount, min, <<0>>))

cpmm_accounts(p, i) ==
    owner \o others(2, FALSE) \o others(1, TRUE)
        \o wr(user_ata(p, i)) \o wr(user_ata(p, 3 - i)) \o others(2, TRUE)
        \o program_key(p, i) \o program_key(p, 3 - i)
        \o mint_key(p, i) \o mint_key(p, 3 - i) \o others(1, TRUE)

cpmm_swap_leg(p, i, amount, min) ==
    Leg("cpmm", cpmm_accounts(p, i),
        form("swap_base_input", 24, 8, amount, min, <<>>))

cpmm_swap_exact_out_leg(p, i, max, amount) ==
    Leg("cpmm", cpmm_accounts(p, i),
        form("swap_base_output", 24, 8, max, amount, <<>>))

pumpfun_buy_leg(p, amount, min) ==
    Leg("pumpfun",
        others(1, FALSE) \o others(1, TRUE) \o mint_key(p, 1) \o others(2, TRUE)
            \o wr(user_ata(p, 1)) \o payer \o others(1, FALSE)
            \o program_key(p, 1) \o others(1, TRUE) \o others(3, FALSE)
            \o others(1, TRUE) \o others(3, FALSE) \o others(1, TRUE),
        form("buy_exact_sol_in", 26, 8, amount, min, <<>>))

pumpfun_sell_leg(p, amount, min) ==
    Leg("pumpfun",
        others(1, FALSE) \o others(1, TRUE) \o mint_key(p, 1) \o others(2, TRUE)
            \o wr(user_ata(p, 1)) \o payer \o others(1, FALSE)
            \o others(1, TRUE) \o program_key(p, 1) \o others(4, FALSE)
            \o others(p.extra, TRUE) \o others(1, FALSE) \o others(1, TRUE),
        form("sell", 24, 8, amount, min, <<>>))

pumpfun_v2_accounts(p, is_buy) ==
    others(1, FALSE) \o mint_keys(p) \o program_keys(p) \o others(1, FALSE)
        \o others(7, TRUE) \o payer \o wr(user_ata(p, 1)) \o wr(user_ata(p, 2))
        \o others(2, TRUE) \o others(IF is_buy THEN 2 ELSE 1, FALSE)
        \o others(2, TRUE) \o others(5, FALSE)

pumpfun_buy_v2_leg(p, amount, min) ==
    Leg("pumpfun", pumpfun_v2_accounts(p, TRUE),
        form("buy_exact_quote_in_v2", 25, 8, amount, min, <<>>))

pumpfun_sell_v2_leg(p, amount, min) ==
    Leg("pumpfun", pumpfun_v2_accounts(p, FALSE),
        form("sell_v2", 24, 8, amount, min, <<>>))

pumpswap_accounts(p, is_buy) ==
    others(1, TRUE) \o payer \o others(1, FALSE) \o mint_keys(p)
        \o wr(user_ata(p, 1)) \o wr(user_ata(p, 2)) \o others(2, TRUE)
        \o others(1, FALSE) \o others(1, TRUE) \o program_keys(p)
        \o others(4, FALSE) \o others(1, TRUE)
        \o others(IF is_buy THEN 2 ELSE 1, FALSE) \o others(IF is_buy THEN 1 ELSE 0, TRUE)
        \o others(3 + p.extra, FALSE) \o others(1, TRUE)

pumpswap_buy_leg(p, amount, min) ==
    Leg("pumpswap", pumpswap_accounts(p, TRUE),
        form("buy_exact_quote_in", 25, 8, amount, min, <<1>>))

pumpswap_sell_leg(p, amount, min) ==
    Leg("pumpswap", pumpswap_accounts(p, FALSE),
        form("sell", 24, 8, amount, min, <<>>))

pumpswap_buy_exact_out_leg(p, amount, max) ==
    Leg("pumpswap", pumpswap_accounts(p, TRUE),
        form("buy", 25, 8, amount, max, <<1>>))

raydium_amm_v4_accounts(p, i) ==
    program_key(p, 1) \o others(1, TRUE) \o others(1, FALSE) \o others(2, TRUE)
        \o wr(user_ata(p, i)) \o wr(user_ata(p, 3 - i)) \o owner

raydium_amm_v4_swap_leg(p, i, amount, min) ==
    Leg("amm_v4", raydium_amm_v4_accounts(p, i),
        form("swap_base_in_v2", 17, 1, amount, min, <<>>))

raydium_amm_v4_swap_exact_out_leg(p, i, amount, max) ==
    Leg("amm_v4", raydium_amm_v4_accounts(p, i),
        form("swap_base_out_v2", 17, 1, max, amount, <<>>))

meteora_damm_v2_swap_leg(p, i, amount, min) ==
    Leg("damm_v2",
        others(1, FALSE) \o others(1, TRUE)
            \o wr(user_ata(p, i)) \o wr(user_ata(p, 3 - i)) \o others(2, TRUE)
            \o mint_keys(p) \o owner \o program_keys(p)
            \o others(3 + p.extra, FALSE),
        form("swap2", 25, 8, amount, min, <<p.mode>>))

raydium_clmm_swap_leg(p, i, amount, min) ==
    Leg("clmm",
        owner \o others(1, FALSE) \o others(1, TRUE)
            \o wr(user_ata(p, i)) \o wr(user_ata(p, 3 - i)) \o others(3, TRUE)
            \o others(3, FALSE) \o mint_key(p, i) \o mint_key(p, 3 - i)
            \o others(1 + p.extra, TRUE),
        form("swap_v2", 41, 8, amount, min, <<1>>))

whirlpool_swap_leg(p, i, amount, min) ==
    Leg("whirlpool",
        program_keys(p) \o others(1, FALSE) \o owner \o others(1, TRUE)
            \o mint_keys(p) \o wr(user_ata(p, 1)) \o others(1, TRUE)
            \o wr(user_ata(p, 2)) \o others(5 + p.extra, TRUE),
        form("swap_v2", IF p.extra = 0 THEN 43 ELSE 49, 8, amount, min,
             <<1, 2 - i, p.extra>>))

meteora_dlmm_swap_leg(p, i, amount, min) ==
    Leg("dlmm",
        others(4, TRUE) \o wr(user_ata(p, i)) \o wr(user_ata(p, 3 - i))
            \o mint_keys(p) \o others(1, TRUE) \o others(1, FALSE) \o owner
            \o program_keys(p) \o others(3, FALSE) \o others(1 + p.extra, TRUE),
        form("swap2", 28, 8, amount, min, <<0>>))

(* A leg that the caller made itself; a third mint is an account it names,  *)
(* writable in mode 2.                                                      *)
raw_leg(p, i, amount, min) ==
    Leg("raw",
        wr(user_ata(p, i)) \o wr(user_ata(p, 3 - i)) \o owner
            \o (IF Len(p.mints) = 3
                THEN <<meta(user_ata(p, 3), p.mode = 2, FALSE)>> ELSE <<>>),
        form("raw", 16, 0, amount, min, <<>>))

pool_leg(p, i, amount, min) ==
    LET exact_out == p.mode = 2 IN
    CASE p.dex = "launchlab" /\ i = 2 -> launchlab_buy_leg(p, amount, min)
      [] p.dex = "launchlab" /\ i = 1 -> launchlab_sell_leg(p, amount, min)
      [] p.dex = "cpmm" /\ ~exact_out -> cpmm_swap_leg(p, i, amount, min)
      [] p.dex = "cpmm" /\ exact_out -> cpmm_swap_exact_out_leg(p, i, amount, min)
      [] p.dex = "pumpfun" /\ i = 2 -> pumpfun_buy_leg(p, amount, min)
      [] p.dex = "pumpfun" /\ i = 1 -> pumpfun_sell_leg(p, amount, min)
      [] p.dex = "pumpfun_v2" /\ i = 2 -> pumpfun_buy_v2_leg(p, amount, min)
      [] p.dex = "pumpfun_v2" /\ i = 1 -> pumpfun_sell_v2_leg(p, amount, min)
      [] p.dex = "pumpswap" /\ i = 2 /\ ~exact_out -> pumpswap_buy_leg(p, amount, min)
      [] p.dex = "pumpswap" /\ i = 2 /\ exact_out ->
           pumpswap_buy_exact_out_leg(p, min, amount)
      [] p.dex = "pumpswap" /\ i = 1 -> pumpswap_sell_leg(p, amount, min)
      [] p.dex = "amm_v4" /\ ~exact_out -> raydium_amm_v4_swap_leg(p, i, amount, min)
      [] p.dex = "amm_v4" /\ exact_out ->
           raydium_amm_v4_swap_exact_out_leg(p, i, min, amount)
      [] p.dex = "damm_v2" -> meteora_damm_v2_swap_leg(p, i, amount, min)
      [] p.dex = "clmm" -> raydium_clmm_swap_leg(p, i, amount, min)
      [] p.dex = "whirlpool" -> whirlpool_swap_leg(p, i, amount, min)
      [] p.dex = "dlmm" -> meteora_dlmm_swap_leg(p, i, amount, min)
      [] p.dex = "raw" -> raw_leg(p, i, amount, min)

(* What the builders refuse. *)
require_mint_programs(p) ==
    \A i \in 1 .. 2 : p.mints[i] = "wsol" => p.programs[i] = "token"

Buildable(p, mint) ==
    /\ mint \in {p.mints[1], p.mints[2]}
    /\ p.dex = "amm_v4" => p.programs = <<"token", "token">>
    /\ p.dex \in {"cpmm", "pumpswap", "damm_v2", "clmm", "whirlpool", "dlmm"} =>
         require_mint_programs(p)
    /\ p.dex = "damm_v2" => p.mode \in {0, 2}
    /\ p.dex = "whirlpool" => p.extra <= 3
    /\ p.dex \in {"pumpswap", "clmm", "whirlpool", "dlmm"} =>
         Len(pool_leg(p, side(p, mint), 0, 0).accounts) <= MAX_LEG_ACCOUNTS

-----------------------------------------------------------------------------
(* Client: the layout of a leg whose input the program will replace         *)
(* (dynamic_leg_layout).  Positions count from 0, as in the source.         *)

At(accounts, position) == accounts[position + 1]

no_layout == [minimum_accounts |-> 0]

client_row(in, out, signer, amount, minimum) ==
    [ input_account |-> in, output_account |-> out, signer |-> signer,
      amount_offset |-> amount, minimum_accounts |-> minimum ]

is_form(leg, dex, disc, len) ==
    leg.program_id = dex /\ leg.data.disc = disc /\ leg.data.len = len

whirlpool_remaining(data) ==
    \/ data.len = 43 /\ data.flags[3] = 0
    \/ data.len = 49 /\ data.flags[3] \in 1 .. 3

is_whirlpool(leg) ==
    /\ leg.program_id = "whirlpool" /\ leg.data.disc = "swap_v2"
    /\ whirlpool_remaining(leg.data)
    /\ leg.data.flags[1] = 1 /\ leg.data.flags[2] \in {0, 1}

dynamic_leg_layout(leg) ==
    LET flags == leg.data.flags IN
    CASE is_form(leg, "launchlab", "buy_exact_in", 32) /\ flags = <<0>> ->
           client_row(6, 5, 0, 8, 13)
      [] is_form(leg, "cpmm", "swap_base_input", 24) ->
           client_row(4, 5, 0, 8, 12)
      [] is_form(leg, "pumpswap", "buy_exact_quote_in", 25) /\ flags[1] <= 1 ->
           client_row(6, 5, 1, 8, 13)
      [] is_form(leg, "pumpswap", "sell", 24) ->
           client_row(5, 6, 1, 8, 13)
      [] is_form(leg, "amm_v4", "swap_base_in_v2", 17) ->
           client_row(5, 6, 7, 1, 8)
      [] is_form(leg, "clmm", "swap_v2", 41) /\ flags[1] = 1 ->
           client_row(3, 4, 0, 8, 13)
      [] is_form(leg, "dlmm", "swap2", 28) /\ flags = <<0>> ->
           client_row(4, 5, 10, 8, 13)
      [] is_form(leg, "damm_v2", "swap2", 25) /\ flags[1] = 0 ->
           client_row(2, 3, 8, 8, 11)
      [] is_whirlpool(leg) ->
           IF flags[2] = 1 THEN client_row(7, 9, 3, 8, 15 + flags[3])
                           ELSE client_row(9, 7, 3, 8, 15 + flags[3])
      [] OTHER -> no_layout

validate_dynamic_leg(leg, input, output, require_zero, allow_launchlab) ==
    LET layout == dynamic_leg_layout(leg)
        account(position) == At(leg.accounts, position)
    IN  /\ leg.program_id = "launchlab" => allow_launchlab
        /\ layout # no_layout
        /\ Len(leg.accounts) >= layout.minimum_accounts
        /\ account(layout.signer).key = user /\ account(layout.signer).s
        /\ account(layout.input_account).key = input
        /\ account(layout.input_account).w
        /\ account(layout.output_account).key = output
        /\ account(layout.output_account).w
        /\ require_zero => leg.data.u64[layout.amount_offset] = 0

(* The instruction: its header, its account list, and where in its data     *)
(* each leg begins.                                                         *)

encoded_len(leg) == LEG_HEADER_LEN + leg.data.len

end_of(first, legs, n) ==
    LET end[k \in 0 .. Len(legs)] ==
            IF k = 0 THEN first ELSE end[k - 1] + encoded_len(legs[k])
    IN  end[n]

header_len(n) == ROUTE_HEADER_LEN + 8 * n

leg_header(leg) == [ program_id |-> leg.program_id,
                     num_accounts |-> Len(leg.accounts), data |-> leg.data ]

(* Each program once, after the accounts of the legs. *)
program_metas(legs) ==
    LET first_use == SelectSeq([k \in 1 .. Len(legs) |-> k],
                         LAMBDA k : \A j \in 1 .. k - 1 :
                             legs[j].program_id # legs[k].program_id)
    IN  [k \in 1 .. Len(first_use) |->
            meta(<<"dex", legs[first_use[k]].program_id>>, FALSE, FALSE)]

(* A slip: the mint is not looked for. *)
append_no_mint(metas, source) == metas

(* The mint of a Token-2022 source is appended if no account is it yet. *)
append_fee_mint(metas, source) ==
    IF token_program(source) = <<"program", "token22">>
       /\ ~\E m \in ToSet(metas) : m.key = token_mint(source)
    THEN metas \o rd(token_mint(source)) ELSE metas

fixed_metas(source, output, intermediates) ==
    payer \o rd(<<"config">>) \o wr(<<"fee_destination">>)
        \o wr(source) \o wr(output) \o rd(token_program(source))
        \o [k \in 1 .. Len(intermediates) |-> meta(intermediates[k], TRUE, FALSE)]

instruction(tag, source, output, intermediates, minimums, legs) ==
    LET first == header_len(Len(intermediates))
        starts == {end_of(first, legs, k - 1) : k \in 1 .. Len(legs)}
        metas == fixed_metas(source, output, intermediates)
                     \o FlattenSeq([k \in 1 .. Len(legs) |-> legs[k].accounts])
                     \o program_metas(legs)
    IN  [ tag |-> tag, num_legs |-> Len(legs), minimums |-> minimums,
          source |-> source,
          metas |-> append_fee_mint(metas, source),
          legs |-> [at \in starts |->
                       leg_header(legs[CHOOSE k \in 1 .. Len(legs) :
                                           at = end_of(first, legs, k - 1)])],
          len |-> end_of(first, legs, Len(legs)) ]

-----------------------------------------------------------------------------
(* A request: the kind of route, its pools, the mints it goes through, the  *)
(* input and the minimum each leg is built with.                            *)

hop_out(r, k) == user_ata(r.pools[k], 3 - side(r.pools[k], r.mints[k]))
route_source(r) == user_ata(r.pools[1], side(r.pools[1], r.mints[1]))
route_output(r) == hop_out(r, Len(r.pools))

built_leg(r, k, amount) ==
    LET p == r.pools[k] IN
    pool_leg(p, side(p, r.mints[k]), amount, r.minimums[k])

built_legs(r) == [k \in 1 .. Len(r.pools) |-> built_leg(r, k, r.amounts[k])]

Well_built(r) ==
    \A k \in 1 .. Len(r.pools) :
        /\ Buildable(r.pools[k], r.mints[k])
        /\ r.pools[k].mints[3 - side(r.pools[k], r.mints[k])] = r.mints[k + 1]

(* dynamic.rs: WSOL into the quote of an explicit pool, and on into a       *)
(* PumpSwap, LaunchLab or CPMM pool that names the same quote.              *)
wsol_to_quote_leg(r) ==
    LET p == r.pools[1] IN
    /\ r.mints[1] = "wsol" /\ route_source(r) = ata("wsol", "token")
    /\ p.dex \notin {"launchlab", "pumpfun", "pumpfun_v2", "raw"}
    /\ p.dex = "damm_v2" => p.mode = 0

quote_to_target_leg(r) ==
    LET p == r.pools[2] IN
    /\ p.dex \in {"pumpswap", "launchlab", "cpmm"}
    /\ p.dex = "launchlab" => r.mints[2] = p.mints[2] /\ require_mint_programs(p)
    /\ user_ata(p, side(p, r.mints[2])) = hop_out(r, 1)

build_dynamic_route_instruction(r) ==
    LET legs == built_legs(r)
        quote == hop_out(r, 1)
        ok == /\ r.minimums[1] > 0
              /\ quote \notin {route_source(r), route_output(r)}
              /\ writes(legs[1].accounts, quote)
              /\ \A k \in 1 .. 2 : Len(legs[k].accounts) \in 1 .. MAX_LEG_ACCOUNTS
              /\ validate_dynamic_leg(legs[2], quote, route_output(r), FALSE, TRUE)
    IN  IF ok THEN instruction(TAG_ROUTE_DYNAMIC, route_source(r), route_output(r),
                               <<quote>>, <<r.minimums[1]>>, legs)
        ELSE NoInstruction

build_dynamic_quote_buy(r) ==
    IF wsol_to_quote_leg(r) /\ quote_to_target_leg(r)
    THEN build_dynamic_route_instruction(r) ELSE NoInstruction

build_three_hop_route_instruction(r) ==
    LET legs == built_legs(r)
        first == hop_out(r, 1)
        second == hop_out(r, 2)
        ends == {route_source(r), route_output(r)}
        ok == /\ r.minimums[1] > 0 /\ r.minimums[2] > 0
              /\ first # second /\ {first, second} \cap ends = {}
              /\ \A k \in 1 .. 3 : Len(legs[k].accounts) \in 1 .. MAX_LEG_ACCOUNTS
              /\ writes(legs[1].accounts, first)
              /\ ~writes(legs[1].accounts, second)
              /\ validate_dynamic_leg(legs[2], first, second, TRUE, FALSE)
              /\ validate_dynamic_leg(legs[3], second, route_output(r), TRUE, TRUE)
    IN  IF ok THEN instruction(TAG_ROUTE_DYNAMIC_THREE, route_source(r),
                               route_output(r), <<first, second>>,
                               <<r.minimums[1], r.minimums[2]>>, legs)
        ELSE NoInstruction

build_route_instruction_ex(r) ==
    instruction(TAG_ROUTE, route_source(r), route_output(r), <<>>, <<>>,
                built_legs(r))

encode(r) ==
    CASE ~Well_built(r) -> NoInstruction
      [] Well_built(r) /\ r.kind = "static" -> build_route_instruction_ex(r)
      [] Well_built(r) /\ r.kind = "two_hop" -> build_dynamic_quote_buy(r)
      [] Well_built(r) /\ r.kind = "three_hop" ->
           build_three_hop_route_instruction(r)

-----------------------------------------------------------------------------
(* Program: the layout table of dynamic_second_leg, and the accounts it     *)
(* checks a later leg against.                                              *)

NO_ACCOUNT == 999

program_row(in, out, signer, amount, mints, programs, paired) ==
    [ input_account |-> in, output_account |-> out, signer |-> signer,
      amount_offset |-> amount, input_mint |-> mints[1], output_mint |-> mints[2],
      input_program |-> programs[1], output_program |-> programs[2],
      paired_mints |-> paired ]

NoLayout == [paired_mints |-> FALSE]

(* A slip: the mints keep their order in the other direction. *)
whirlpool_row_unswapped(a_to_b) ==
    program_row(IF a_to_b THEN 7 ELSE 9, IF a_to_b THEN 9 ELSE 7, 3, 8,
                <<5, 6>>, <<0, 1>>, FALSE)

whirlpool_row(a_to_b) ==
    IF a_to_b THEN program_row(7, 9, 3, 8, <<5, 6>>, <<0, 1>>, FALSE)
              ELSE program_row(9, 7, 3, 8, <<6, 5>>, <<1, 0>>, FALSE)

dynamic_second_leg(leg) ==
    LET flags == leg.data.flags IN
    CASE is_form(leg, "launchlab", "buy_exact_in", 32) /\ flags = <<0>> ->
           program_row(6, 5, 0, 8, <<10, 9>>, <<12, 11>>, FALSE)
      [] is_form(leg, "cpmm", "swap_base_input", 24) ->
           program_row(4, 5, 0, 8, <<10, 11>>, <<8, 9>>, FALSE)
      [] is_form(leg, "pumpswap", "buy_exact_quote_in", 25) /\ flags[1] <= 1 ->
           program_row(6, 5, 1, 8, <<4, 3>>, <<12, 11>>, FALSE)
      [] is_form(leg, "pumpswap", "sell", 24) ->
           program_row(5, 6, 1, 8, <<3, 4>>, <<11, 12>>, FALSE)
      [] is_form(leg, "amm_v4", "swap_base_in_v2", 17) ->
           program_row(5, 6, 7, 1, <<NO_ACCOUNT, NO_ACCOUNT>>, <<0, 0>>, FALSE)
      [] is_form(leg, "clmm", "swap_v2", 41) /\ flags[1] = 1 ->
           program_row(3, 4, 0, 8, <<11, 12>>, <<NO_ACCOUNT, NO_ACCOUNT>>, FALSE)
      [] is_form(leg, "dlmm", "swap2", 28) /\ flags = <<0>> ->
           program_row(4, 5, 10, 8, <<6, 7>>, <<11, 12>>, TRUE)
      [] is_form(leg, "damm_v2", "swap2", 25) /\ flags[1] = 0 ->
           program_row(2, 3, 8, 8, <<6, 7>>, <<9, 10>>, TRUE)
      [] is_whirlpool(leg) -> whirlpool_row(flags[2] = 1)
      [] OTHER -> NoLayout

validate_dynamic_accounts(layout, accounts, input, output) ==
    LET account(position) == At(accounts, position)
        holds(position, key) == position # NO_ACCOUNT => account(position).key = key
        required == { layout.input_account, layout.output_account, layout.signer,
                      layout.input_mint, layout.output_mint,
                      layout.input_program, layout.output_program }
        mints(in, out) == holds(layout.input_mint, token_mint(in))
                          /\ holds(layout.output_mint, token_mint(out))
        programs(in, out) == holds(layout.input_program, token_program(in))
                             /\ holds(layout.output_program, token_program(out))
        forward == mints(input, output) /\ programs(input, output)
        reverse == mints(output, input) /\ programs(output, input)
    IN  /\ \A position \in required \ {NO_ACCOUNT} : position < Len(accounts)
        /\ account(layout.signer).key = user /\ account(layout.signer).s
        /\ account(layout.input_account).key = input
        /\ account(layout.input_account).w
        /\ account(layout.output_account).key = output
        /\ account(layout.output_account).w
        /\ forward \/ (layout.paired_mints /\ reverse)

patch_second_leg_amount(leg, amount, offset) ==
    [leg EXCEPT !.data.u64[offset] = amount]

-----------------------------------------------------------------------------
(* The program sees one account per meta, with the privileges its key has   *)
(* anywhere in the instruction.                                             *)

merged(m) ==
    meta(m.key, writes(ix.metas, m.key), \E x \in ToSet(ix.metas) : x.key = m.key /\ x.s)

views == [k \in 1 .. Len(ix.metas) |-> merged(ix.metas[k])]

intermediates == CASE ix.tag = TAG_ROUTE -> 0
                   [] ix.tag = TAG_ROUTE_DYNAMIC -> 1
                   [] ix.tag = TAG_ROUTE_DYNAMIC_THREE -> 2
dynamic == intermediates > 0
three_hop == intermediates = 2

fee_source == views[4]
user_output == views[5]
fee_program == views[6]
intermediate_acc(k) == views[6 + k]
remaining == SubSeq(views, 7 + intermediates, Len(views))

Init ==
    /\ req = NoRequest /\ ix = NoInstruction /\ pc = "ask"
    /\ fee_transfer = "none" /\ cursor = 0 /\ remaining_offset = 0
    /\ quote_received = 0 /\ sent = <<>>

(* The client builds the instruction, or returns an error. *)
Build ==
    /\ pc = "ask"
    /\ \E r \in Requests :
         /\ req' = r
         /\ ix' = encode(r)
         /\ pc' = IF ix' = NoInstruction THEN "unbuilt" ELSE "header"
    /\ UNCHANGED <<fee_transfer, cursor, remaining_offset, quote_received, sent>>

header_accepted ==
    /\ ix.len >= header_len(intermediates)
    /\ ix.num_legs \in 1 .. MAX_LEGS
    /\ dynamic => ix.num_legs = intermediates + 1
    /\ \A k \in 1 .. Len(ix.minimums) : ix.minimums[k] > 0
    /\ Len(ix.metas) >= 6 + intermediates
    /\ views[1].s
    /\ fee_program.key = token_program(fee_source.key)

intermediates_accepted ==
    /\ \A k \in 1 .. intermediates :
         /\ intermediate_acc(k).w
         /\ intermediate_acc(k).key \notin {fee_source.key, user_output.key}
    /\ three_hop => intermediate_acc(1).key # intermediate_acc(2).key

(* The checks before the legs, and the platform fee: a Token-2022 fee is a  *)
(* checked transfer when the mint is among the remaining accounts.          *)
Header ==
    /\ pc = "header"
    /\ IF header_accepted /\ intermediates_accepted
       THEN /\ pc' = "legs"
            /\ cursor' = header_len(intermediates)
            /\ fee_transfer' =
                 IF /\ fee_program.key = <<"program", "token22">>
                    /\ \E m \in ToSet(remaining) : m.key = token_mint(fee_source.key)
                 THEN "checked" ELSE "plain"
       ELSE pc' = "refused" /\ UNCHANGED <<cursor, fee_transfer>>
    /\ UNCHANGED <<req, ix, remaining_offset, quote_received, sent>>

leg_index == Len(sent)

decodes(header) ==
    /\ header.num_accounts \in 1 .. MAX_LEG_ACCOUNTS
    /\ cursor + LEG_HEADER_LEN + header.data.len <= ix.len
    /\ remaining_offset + header.num_accounts <= Len(remaining)

decoded_leg ==
    LET header == ix.legs[cursor] IN
    [ program_id |-> header.program_id, data |-> header.data,
      accounts |-> SubSeq(remaining, remaining_offset + 1,
                          remaining_offset + header.num_accounts) ]

(* A leg that spends what the hop before it delivered: the second of a      *)
(* three-hop route and the last of any dynamic one.                         *)
spends_delivered == dynamic /\ leg_index >= 1

later_leg_accepted(leg) ==
    LET layout == dynamic_second_leg(leg)
        output == IF leg_index = ix.num_legs - 1 THEN user_output.key
                  ELSE intermediate_acc(leg_index + 1).key
    IN  /\ leg.program_id = "launchlab" => leg_index = ix.num_legs - 1
        /\ layout # NoLayout
        /\ three_hop => leg.data.u64[layout.amount_offset] = 0
        /\ validate_dynamic_accounts(layout, leg.accounts,
                                     intermediate_acc(leg_index).key, output)

first_leg_accepted(leg) ==
    dynamic =>
        /\ writes(leg.accounts, intermediate_acc(1).key)
        /\ three_hop => ~writes(leg.accounts, intermediate_acc(2).key)

leg_accepted(leg) ==
    IF spends_delivered THEN later_leg_accepted(leg)
    ELSE leg_index = 0 => first_leg_accepted(leg)

(* A slip: the amount the client encoded is left in place. *)
invoked_as_encoded(leg) == leg

invoked(leg) ==
    IF spends_delivered
    THEN patch_second_leg_amount(leg, quote_received,
                                 dynamic_second_leg(leg).amount_offset)
    ELSE leg

(* A slip: the whole balance is taken for what was delivered. *)
whole_balance(before, after) == after
received_quote(before, after) == after - before

(* One leg: decode it, check it, call it with the amount in place, and take *)
(* what it delivered as the next input.                                     *)
LegStep ==
    /\ pc = "legs" /\ leg_index < ix.num_legs
    /\ IF cursor \in DOMAIN ix.legs /\ decodes(ix.legs[cursor])
          /\ leg_accepted(decoded_leg)
       THEN /\ cursor' = cursor + LEG_HEADER_LEN + ix.legs[cursor].data.len
            /\ remaining_offset' = remaining_offset + ix.legs[cursor].num_accounts
            /\ IF leg_index < intermediates
               THEN \E delivered \in Received :
                      /\ sent' = Append(sent, [cpi |-> invoked(decoded_leg),
                                               delivered |-> delivered])
                      /\ quote_received' = received_quote(Held, Held + delivered)
                      /\ pc' = IF quote_received' < ix.minimums[leg_index + 1]
                               THEN "slippage" ELSE pc
               ELSE /\ sent' = Append(sent, [cpi |-> invoked(decoded_leg),
                                             delivered |-> 0])
                    /\ UNCHANGED <<quote_received, pc>>
       ELSE /\ pc' = "refused"
            /\ UNCHANGED <<cursor, remaining_offset, quote_received, sent>>
    /\ UNCHANGED <<req, ix, fee_transfer>>

(* After the legs: a dynamic instruction must have been read to its end. *)
Finish ==
    /\ pc = "legs" /\ leg_index = ix.num_legs
    /\ pc' = IF dynamic /\ cursor # ix.len THEN "refused" ELSE "done"
    /\ UNCHANGED <<req, ix, fee_transfer, cursor, remaining_offset,
                   quote_received, sent>>

Next == Build \/ Header \/ LegStep \/ Finish

Spec == Init /\ [][Next]_vars

(* What callers may ask for. The trades of the SDK have at most three legs, *)
(* the program takes four; the fixed builder does not count them, so a      *)
(* caller's fifth is only refused on chain.  Only the native Pump legs hold *)
(* SOL itself; only a caller's own leg names a third mint.  The optional    *)
(* accounts of Pump and DAMM V2 legs are at most one, those of the others   *)
(* are bounded by Buildable.                                                *)
Pool ==
    [ dex : {"launchlab", "cpmm", "pumpfun", "pumpfun_v2", "pumpswap", "amm_v4",
             "damm_v2", "clmm", "whirlpool", "dlmm", "raw"},
      mints : Seq(STRING), programs : Seq({"token", "token22"}),
      extra : Nat, mode : 0 .. 2 ]

SoundPool(p) ==
    /\ p \in Pool
    /\ Len(p.programs) = Len(p.mints)
    /\ Len(p.mints) = 2 \/ (p.dex = "raw" /\ Len(p.mints) = 3)
    /\ p.dex # "pumpfun" => \A i \in DOMAIN p.mints : p.mints[i] # "sol"
    /\ p.dex \in {"pumpfun", "damm_v2"} => p.extra <= 1

RequestOK(r) ==
    LET n == Len(r.pools) IN
    /\ r.kind \in {"static", "two_hop", "three_hop"}
    /\ r.kind = "two_hop" => n = 2
    /\ r.kind = "three_hop" => n = 3
    /\ n \in 1 .. MAX_LEGS /\ r.pools \in Seq(Pool)
    /\ \A k \in 1 .. n : SoundPool(r.pools[k])
    /\ r.mints \in Seq(STRING) /\ Len(r.mints) = n + 1
    /\ r.amounts \in Seq(Nat) /\ Len(r.amounts) = n
    /\ r.minimums \in Seq(Nat) /\ Len(r.minimums) = n

ASSUME RouteEncodingConstants ==
    /\ \A r \in Requests : RequestOK(r)
    /\ Received \subseteq Nat /\ Held \in Nat

-----------------------------------------------------------------------------
(* Properties.                                                              *)

(* The variables keep their kinds, and the two cursors stay inside the      *)
(* instruction (process_inner never reads past it).                         *)
TypeOK ==
    /\ pc \in {"ask", "unbuilt", "header", "legs", "slippage", "refused", "done"}
    /\ fee_transfer \in {"none", "plain", "checked"}
    /\ pc \in {"ask", "unbuilt"} <=> ix = NoInstruction
    /\ quote_received \in Received \cup {0}
    /\ pc \in {"legs", "slippage", "done"} =>
         /\ cursor \in header_len(intermediates) .. ix.len
         /\ remaining_offset \in 0 .. Len(remaining)
         /\ Len(sent) <= ix.num_legs

(* A caller's own first leg that reads the second intermediate account. *)
ReadsAhead ==
    /\ req.kind = "three_hop"
    /\ \E m \in ToSet(built_leg(req, 1, 0).accounts) : m.key = hop_out(req, 2)

(* What the client agrees to build, the program never refuses for its       *)
(* layout: the two tables name the same accounts, flags and amounts, and    *)
(* the offsets written are the offsets read.  The exception is a caller's   *)
(* own first leg that reads the second intermediate: the client checks the  *)
(* leg's own meta, the program the privileges merged over the instruction.  *)
BuiltRoutesAccepted ==
    /\ pc = "refused" => ReadsAhead
    /\ pc = "done" => ~ReadsAhead

amount_due(k) ==
    IF dynamic /\ k > 1 THEN sent[k - 1].delivered ELSE req.amounts[k]

(* Every CPI is the leg its builder would have made for the amount that     *)
(* really arrives: the same program, the same accounts in the same places   *)
(* with at least the privileges asked for, the same data except the input,  *)
(* which is what the hop before it delivered.  A finished route made every  *)
(* leg and consumed exactly their accounts (patch_second_leg_amount, the    *)
(* slicing of `remaining`).                                                 *)
LegsArriveAsBuilt ==
    /\ \A k \in 1 .. Len(sent) :
         LET asked == built_leg(req, k, amount_due(k))
             cpi == sent[k].cpi
         IN  /\ cpi.program_id = asked.program_id
             /\ cpi.data = asked.data
             /\ Len(cpi.accounts) = Len(asked.accounts)
             /\ \A j \in 1 .. Len(asked.accounts) :
                  /\ cpi.accounts[j].key = asked.accounts[j].key
                  /\ asked.accounts[j].w => cpi.accounts[j].w
                  /\ asked.accounts[j].s => cpi.accounts[j].s
    /\ pc = "done" => Len(sent) = Len(req.pools)

(* A Token-2022 fee always finds its mint, whichever DEX the first leg goes *)
(* to, and moves by a checked transfer; a classic one never does            *)
(* (append_fee_mint against the search in process_inner).                   *)
FeeMintFound ==
    fee_transfer # "none" =>
        (fee_transfer = "checked" <=>
            token_program(route_source(req)) = <<"program", "token22">>)

=============================================================================
