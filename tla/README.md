# A TLA+ model of sol-trade-router-sdk

The repository has two programs that must agree with each other. The *router*
is a Solana program: it takes a fee from a trader, calls one to four DEX
programs on the trader's behalf, and refuses the whole transaction unless the
trader's balances moved as the instruction declared. The *SDK* is a client
library: it loads a market, quotes a trade, and builds the instructions
(accounts, wrapped SOL, the route, the closing of accounts) that the router then
accepts or refuses. Example bots use the SDK with a durable-nonce pool.

This directory models the router; the client's trade building together with the
chain that executes what it builds; how the client comes by a market, from events,
parameters or several reads of the chain, and what it builds on one that has
become old; the encoding of routes between client and program; the client's fee
arithmetic and its quotes; and the nonce pool. It checks them with TLC, and proves
with TLAPS every safety property the passing runs check.

## 1. Inventory

| Component | Source | State | Operations | Modelled in |
|---|---|---|---|---|
| Router: route execution | `programs/sol-trade-router/src/instructions/route.rs`, `state.rs` | token and lamport balances; the locals of `process_inner` between two CPIs | `ROUTE`, `ROUTE_DYNAMIC`, `ROUTE_DYNAMIC_THREE` | `Router` |
| Router: configuration | `initialize.rs`, `update_config.rs`, `state.rs` | the `RouterConfig` account | `INITIALIZE`, `UPDATE_CONFIG` | `RouterConfig` |
| Router: `PREPARE_PUMPFUN` | `prepare_pumpfun.rs` | a creator vault's lamports | one guarded transfer | `MarketLoad` |
| Client: trade building | `crates/sdk/src/trade.rs`, `ata.rs`, `asset.rs`, `client.rs` | none of its own: the instructions it returns; the accounts on the chain they act on | `buy_with_opts`, `sell_with_opts`, `prepare_buy_atas`, `prepare_sell_atas`, `TradeBuyParams`, `TradeSellParams` | `SdkTrade`; which legs an order gets: `TradePaths` |
| Client: fee arithmetic | `quote.rs`, `trade.rs` | none | `fee_amount`, `route_amount_in_for_spend`, `apply_slippage_min_out` | `FeeMath` |
| Client: pool quotes | `quote.rs`, `transfer_fee.rs` | none; the ends of a search | constant-product quotes and inverses, LaunchLab clamp, `buy_via_bridge_launchlab`; Pump curves, PumpSwap | `Quotes`, `BridgeSizing` (CPMM, Raydium V4, LaunchLab buys), `PumpQuotes` |
| Client: route encoding | `dynamic.rs`, `route_ix.rs` | none | fixed, two-hop and three-hop instructions | `RouteEncoding` |
| Client: DEX legs | `legs.rs`, `pumpfun_v3.rs` | none | account lists and data of nine DEX programs | `RouteEncoding` (all but Pump V3); V3 setup: `MarketLoad` |
| Client: market model | `market.rs`, `constants.rs` | none | which mint is traded, which pays, when SOL needs a bridge | `Markets` |
| Client: snapshots over RPC | `adapter/from_rpc.rs`, `pumpfun_state.rs` | a market between two reads | Pump, Pump V3 and PumpSwap loads, mint checks | `MarketLoad` |
| Client: snapshots from events and parameters | `parser.rs`, `adapter/from_params.rs` | one market, with its cached quote and liquidity arrays | conversions, `merge_whirlpool_swap`, `merge_clmm_swap` | `PoolFeed` |
| Client: pool guard | `pool_guard.rs` | a policy | assertions on a market and its bridge | `PoolGuard` |
| Client: submission, administration | `client.rs`, `admin.rs` | none | `submit`, config builders | outcome only |
| Bots: nonce pool | `examples/common/src/lib.rs` | `ready` queue; one refresh task per `take` | `warm`, `take`, `spawn_refresh` | `NoncePool` |
| Bots: blockhash cache, hot paths | `examples/*/src/main.rs` | one cached hash; an event loop | refresh, copy, snipe | not modelled (section 6) |
| Tests, scripts, tools | `offline_tests.rs`, `mainnet_*.rs`, `scripts/`, `tools/` | | | not part of the system |

How they interact: the client *submits* transactions; the chain executes them
in an order the client does not choose; a route *calls* DEX programs, which are
not trusted, and runs under a configuration that another wallet changes
between two transactions. The client shares with the program a *copied* fee
rate, and with its own other trades the user's token accounts. The nonce pool
is shared memory under a lock that is released across an RPC.

### What is hard

* Programs the router does not control run between two reads of a balance.
  Its only defence is a comparison at the end, so a snapshot at the wrong place
  or a difference of unsigned numbers of the wrong sign would show in no
  single-leg test.
* A later hop of a dynamic route spends an amount known only once the hop
  before has run; the account it spends from may hold the user's own tokens.
* Fees are floored by the client and by the program, from different inputs, and
  the spend is compared for *equality*.
* A trade is built against one state of the chain and executed against another:
  another fee, another price, accounts another trade has closed.
* Client and program each keep a table of where every DEX instruction has its
  accounts and its amount, and nothing but tests of single legs ties the two
  together; the chain shows the program accounts with merged privileges, which
  the client cannot see when it checks a leg.
* The input of a bridge's first hop is searched for on a quote that rounds four
  times, next to the end of the u64 range.
* A market is loaded in two or three reads between which creators, fee schedules,
  recipients, vaults, hooks and reserves change, and a trade is built on it later
  still.
* A snapshot is kept by merging events that come late, twice, out of order, from
  another pool or not at all, and it carries a quote made for one size and
  direction.
* Rent that a Pump program would take inside a route breaks the exact spend, so
  it is paid before, by amounts others' transactions change.
* A refresh task is timed by a sleep, not by the transaction it waits for.

### What makes each component correct

* Router: a route commits only as one settled trade (exact spend, fee paid to
  the configured recipient, minimum received, old intermediate balances
  restored, nobody else poorer), or leaves no trace; a later hop is offered
  exactly what the hop before delivered; a well-built trade is not refused.
* Configuration: created once, changed only by its authority.
* Client: a committed transaction costs at most what the caller gave, brings at
  least the minimum, takes from no other holding and strands no wrapped SOL;
  prepared accounts suffice; when the client knows the fee, settlement never
  refuses.
* Fee arithmetic: the declared input nets *exactly* to the amount to spend, and
  is the least that does.
* Route encoding: what the client builds the program accepts, and every DEX is
  called with the leg its builder made, for the amount that really arrived.
* Quotes: a bridged buy is sized with the least first hop that buys all the
  curve sells, and the search for it ends.
* Pump quotes: what a budget is quoted costs no more than the budget, at the last
  token of a curve too; a sale counts on no fees that are not the pool's.
* Market loads: a market that is delivered is of one state of the chain in all
  that its trades are derived from; the setup of a trade pays the rent its route
  would have paid.
* Snapshots and guard: a trade the client lets through is for the mint that was
  asked; its pools are trusted, at their true address or of the kinds the guard cannot
  tell; its legs connect, and arrays and quotes are those of the legs it builds.
* Nonce pool: entries are neither lost nor multiplied, two trades in flight do
  not share a nonce, a refresh ends, and what it leaves is current.

PROJECT.json lists the hazards at their lines, with the properties that cover
them, and the source lines every definition stands for.

## 2. The modules

    RouterTypes -- RouterConfig -- Router -- MCRouter
         |                           |
         +------ AtomicTrade --------+      Router implements AtomicTrade
                                     +-- RouterProofs
    FeeMath -- SdkTrade -- MCSdkTrade
       | |        |
       | +-- FeeMathProofs -- SdkTradeProofs
       +---- Quotes -- BridgeSizing -- MCBridgeSizing
               |            +-- BridgeSizingProofs
               +------ PumpQuotes -- MarketLoad -- MCMarketLoad
                                         +-- MarketLoadProofs
    Markets -- PoolGuard -- TradePaths -- PoolFeed -- MCPoolFeed
                                             +-- PoolFeedProofs
    RouteEncoding -- MCRouteEncoding
         +-- RouteEncodingProofs
    NoncePool -- MCNoncePool
         +-- NoncePoolProofs

**RouterTypes** holds what router and specification share: accounts, the route
request, the fee. An account is an address; its owner, mint and program are
constants, its balance is state. A leg carries what the router reads of it (the
accounts that are writable, whether `dynamic_second_leg` recognises it, which
accounts its layout names) and, as an assumption about the world and not a field
of the instruction, whether the DEX behaves.

**RouterConfig** has one action for each configuration instruction.

**Router** is `process_inner`: `Start`/`Reject` (the checks before the fee),
`PayFee`/`SkipFee`/`FailFee`, `Snapshot`, `RunLeg`/`FailLeg` once for every leg,
`Settle`. The `pc` field names the stage; the other fields of `tx` are the locals
that outlive a step, and `saved` is the ledger the runtime restores on an error.
A called program may leave *any* balances in the accounts it was given, except
that it cannot debit an account whose owner's signature it was not passed
(`LegPosts`). `HonestPost` narrows that for legs that are marked honest.

**AtomicTrade** is what the router promises. A trade is submitted (`Submit`), and
then one step decides it: `Trade(req)` moves every balance as `Settled` says of
the very trade that was submitted, `Refuse` moves nothing. The configuration
stands still in between. `Router!Abstract` maps the ledger of a running route to
the ledger before it, and `pending` to the running request, so that a route is
invisible until it commits and a refused one never shows.

**FeeMath** is the arithmetic the client does on fees and slippage.

**SdkTrade** builds trades (`Build`), prepares accounts (`Prepare`), and
executes transactions instruction by instruction: `CreateAta`, `WrapSol`, the
route (`PayRouterFee`, `SwapLeg`, `SettleRoute`), `CloseAta`, `Commit`, with
`Fail` undoing everything. No market is both native SOL and tokenized stock: a
stock pool has a mint on each side. `setup`, `legs` and `cleanup` are the three parts of
`buy_with_opts` and `sell_with_opts`; `creates` and `closes` are the account
policies of the two ways a caller can describe a trade. The fee rate on the
chain (`SetFee`) and the client's copy (`ClientBps`) are different things. What a
pool quotes when the trade is built and what it pays when it lands are unrelated
but for the minimum it was told. The route here is an abbreviation of Router's:
one wallet, fixed legs, honest pools that may be short of what they are asked.

**Quotes** has the arithmetic of a quote: Token-2022 transfer fees and their
inverse, CPMM and Raydium V4 pools in both directions, the LaunchLab curve and
its clamp near graduation. A pool is seen from the side that is paid in.

**BridgeSizing** is `buy_via_bridge_launchlab`: `Ask`, then `TakeAll` when the
curve takes all that the first hop delivers, else `Shrink` and, for a CPMM
bridge, the three loops of `cpmm_in_for_out` one round at a time: `Capacity`
(bisection for the largest input the vault can hold), `Reach` (doubling),
`Narrow` (bisection for the least input), then `Replan`. The errors of the code
are `Refuse`.

**RouteEncoding** has both ends of a route instruction. `pool_leg` and the
builders it chooses from give the account list and the data of every leg;
`encode` is `build_route_instruction_ex`, `build_dynamic_quote_buy` and
`build_three_hop_route_instruction` with the checks of `dynamic_leg_layout`
against the client's table. `Header`, `LegStep` and `Finish` are `process_inner`
again, this time the half that reads bytes and accounts: `dynamic_second_leg` is
the program's table, `validate_dynamic_accounts` what it checks against it, and
`invoked` the leg with its amount patched. The program sees each account with
the privileges its key has anywhere in the instruction (`merged`), as the runtime
has it. Router and RouteEncoding meet in the fields of Router's legs:
`recognised` and `mints_match` are the verdicts RouteEncoding computes.

**Markets** is what the client knows of a pool: its two mints, which of them is
traded and which pays, their token programs, and the mint a bridge to SOL shares
with it. **PoolGuard** has the assertions of `pool_guard.rs`; a derived address is
the tuple it is derived from, and the address of a CPMM pool is compared only when the
snapshot has the configuration it is derived with (`config`, the code's `amm_config`).
**TradePaths** has one operator for each arm of
`build_buy_legs` and `build_sell_legs`: the pools a trade crosses, in which
direction, and its amounts as terms that say where a number comes from (what is
left of the caller's amount, a quote of such a pool at such a version, a minimum
less slippage), so that a quote of another leg or another state is a different
term. **PoolFeed** is the one snapshot a bot keeps: `FromEvent`, `FromAccount` and
`FromParams` make it (parameters may be those of the wild pool, and parameters and
bridges may lack the configuration of a CPMM pool: `Named`), `Merge` updates it with any swap event of the true pool or
of a wild one with the same mints, `Overlay` and `Quote` are what the caller adds,
`Move` is the market. Building changes nothing, so its properties quantify over
every order the client could be given in a state.

**PumpQuotes** has `net_quote`, the curve quotes of both versions (with
`graduating_buy`, the buy that takes the last token and goes on in the pool to be)
and the PumpSwap quotes net of the fees that wait in the vault. **MarketLoad** puts
them to use: a load between its reads (`load_pumpfun`, `load_pumpfun_v3_by_rpc`,
`load_pumpswap`, then `refresh`, `refresh_v3`, `refresh_pumpswap_fee_reserves` and
`validate_route_mints`), the chain that moves between any two of them (others'
trades, graduation, creators, fee schedules, vaults, hooks, sweeps), the trade in
SOL that is built on what was delivered (`build`), and its landing (`land`), where
`PREPARE_PUMPFUN` and the setup run before the route. Two steps that commute with
every other are not interleaved with the chain (`Awaited`): nobody reads the chain
between a delivery and the building of a trade, and the third read of a PumpSwap
load looks at mints only.

**NoncePool** has an action for each part of `take` and of the task it spawns.
The task's read (`fetched`) and its push (`push_back`) are separate: the lock is
not held over the RPC. `land` and `lose` are the chain, and `early` remembers which
accounts were read while the trade that used them was in flight.

Definitions whose comment begins with "A slip" are not part of the system: they
are plausible mistakes in a definition of the code, and substituting one for the
original breaks the property PROJECT.json pairs it with.

## 3. What the runs check

| Run | Question | Bounds |
|---|---|---|
| `static` | Does every committed fixed route settle as AtomicTrade promises, whatever the legs do, with configuration changes in between? | one or two legs, two routes in a row, every kind of fee account, 18 malformed requests |
| `dynamic` | The same through one and two intermediate accounts that held tokens before; is a hop ever offered the old balance? | amounts 0..4, two routes in a row, 18 + 9 request shapes that are refused or go wrong |
| `own_recipient` | Can a wallet that is its own fee recipient trade? No: see findings | as `static`, one route |
| `sdk_orders` | Every order, market and account policy in one transaction, and default orders two at a time, built before either executes and landing in any order: does any cost more or bring less than it says, or take from the other? | 6 markets x 3 assets x buy/sell x exact in/out x policies; two orders on two markets; a new, a prepared and a half-prepared wallet |
| `sdk_paysol` | A statement of a comment about closing accounts: see findings | one trade |
| `bridge_sizing` | Does the search for the first hop end, find the least input that is enough, and leave two hops that agree? | 408 bridges, 64 curves, 6 amounts of a 5-bit range |
| `route_encoding` | Does the program accept what the client builds, and does every DEX get its leg as built? | each hop in turn through every DEX, both orders of a pool's mints, both token programs, 64 and 65 accounts; the other hops through CPMM and Whirlpool; dynamic routes with a minimum of zero; deliveries 1, 2, 7 |
| `pool_feed` | Is every trade on a snapshot from events or parameters, however old or merged, for the true pool, with legs, programs, arrays and quotes that fit? | 27 pools, with the bridges they can use (CPMM at its derived and at another address, with and without its configuration, and AMM V4), a wild pool for each (for some CPMM pools one derived from another configuration), three guard policies, up to three applied events, two ranges of arrays |
| `params_buy` | Can the documented buy from parameters be built? No: see findings | Pump coins paired with SOL |
| `market_load` | Is a market delivered in several reads of one state, and does the trade built on it stay in its budget and settle? | a curve of three states, six coins and two fee schedules, a PumpSwap pool with fees and sweeps, budgets up to 30 |
| `nonce_pool` | Are entries conserved, does every refresh end, and are nonces fresh and unshared where no account is read early? | 2 accounts, one of them possibly listed twice, 3 trades, 2 attempts |
| `nonce_stale` | And if one is? See findings | 2 accounts, 2 trades |

Why the bounds are enough. `FEE_DENOM = 4` with rates up to 2 makes a fee of 0, 1
or 2 out of a single-digit amount: floors go both ways and the client's inverse
has inputs it must skip. `MAX_U64 = 4` leaves room for an old balance, a
delivery and an overpayment in one account, and makes credits overflow. A leg
that is not honest takes *every* balance assignment, so what matters is how many
accounts are involved and not how large the amounts are; three legs are the
longest dynamic route. Two routes in a row (`MaxLanded = 2`) are what a
configuration change between routes needs. Two accounts and three trades are the
smallest pool in which an entry comes back while another is out. In
`bridge_sizing` a 5-bit range with vaults that are nearly full puts every loop of
the search at both of its ends, and rates with denominators 4 and 5 round at
every amount; the bound on the rounds is stated in the number of bits. In
`route_encoding` a leg is checked by its own tables only, so one free leg at a
time loses nothing but combinations of two DEXes, which share no state but the
cursors. In `pool_feed` one snapshot and one
order suffice because building has no effect; three applied events are a first
one, one that a late one overtakes, and the late one, and a second range of arrays
is what a torn merge needs. In `market_load` a curve of three states lets a trade of
others move it both ways; with `FEE_DENOM = 10` the two fees round up separately at
nearly every budget below 30, which buys out any of the curves; `Rent = 2` with a
fee of 1 tells an empty vault, one that lacks a part and a full one apart. The
proofs below remove the bounds from the properties they cover.

Deadlock: the router always has another configuration instruction or route to
process until `MaxLanded`, and updates remain after that, so deadlock is checked
there; BridgeSizing is called again. NoncePool and SdkTrade have finitely many
trades and really stop when all of them are decided, RouteEncoding stops when its
one route is, MarketLoad when its trade has landed, and PoolFeed when its bounds are
used up: their configurations say `CHECK_DEADLOCK FALSE`.

Fairness: only the refresh tasks have it (`WF_vars(background(t))`). They are
spawned with `tokio::spawn`, the runtime polls every task that is woken, a sleep
ends and an RPC returns or times out. Nothing is assumed of trades: one may stay
in flight for good. The condition under which the 50 ms sleep would be right,
that no account is read while its trade is in flight, is part of the properties
that need it (`NonceHeldOnce`, `FreshIfReadLate`) and shows what the pool rests on. That the
search of BridgeSizing ends is stated without fairness, as a bound on its rounds
(`SearchIsShort`).

### Findings

Four statements of the repository are refuted by a run, in `own_recipient`,
`nonce_stale`, `sdk_paysol` and `params_buy`. Besides, `route_encoding`
shows one route that the client builds and the program refuses, about which no
text says otherwise: a caller's own first leg of a three-hop route that names the
second intermediate account without writing it (`ReadsAhead`). The client looks
at that leg's own metas, the program at privileges merged over the instruction,
where the account is writable. Nothing is lost but the transaction.

* `own_recipient`: README.md:311 has the operator use their own wallet as
  fee recipient and turn the fee on later. With a fee above zero the fee transfer
  has the same source and destination, moves nothing, and `validate_spend` finds
  the trade short of `amount_in`. That wallet's exact-in trades all fail.
* `nonce_stale`: docs/NONCE_CACHE.md:66 says the pool refreshes an account after
  landing. The read is timed by a sleep; if it comes first, the old nonce is put
  back and stays until a trade is lost to it.
* `sdk_paysol`: asset.rs:42 and :70 say selling to `Sol` pays SOL unless the
  caller keeps WSOL. Through `TradeSellParams` nothing is unwrapped unless
  `close_output_token_ata` is set.
* `params_buy`: README.md:142 and :153 buy a PumpFun coin with high-level
  parameters. They carry no fee rates and the parameter API has no minimum, so
  `buy_with_opts` refuses to quote and returns an error for every such call; the
  copy bot's buy is built this way.

Three more disagreements that reading shows and no run is spent on: ata.rs:7 says
closes are always opt-in, while `TradeOpts::sell_to_sol` sets `close_wsol`;
docs/LOW_LATENCY_BOTS.md:37 recommends `use_exact_sol_amount: Some(false)`, as both
snipers pass it, which client.rs:602 refuses; and the comment at market.rs:251
takes the fees of a PumpSwap pool from the "same authoritative Pool/vault
snapshot", while the loader reads the pool again after the vault. Fees swept in
between make a quote count on tokens that have left, which is why
`SellQuoteCovered` speaks of fees that stayed.

## 4. What is proved

TLAPS checks the following for every value of the constants that satisfies the
assumptions of the modules.

| Theorem | States |
|---|---|
| `RouterProofs!TypeCorrect` | every balance stays a u64 and every local in range |
| `RouterProofs!RouteInvariant` | what holds of a route in flight (`RouteInv`) |
| `RouterProofs!HopFunding` | a hop is offered what the hop before delivered, at least the minimum |
| `RouterProofs!Atomicity` | Router implements AtomicTrade |
| `RouterProofs!Control` | the configuration is created once and changed by its authority |
| `RouterProofs!HonestRoutesSettle` | no settlement refuses a well-built route that delivers its minimum |
| `FeeMathProofs!GrossNetsToSpend` | the declared input nets exactly to the amount to spend |
| `FeeMathProofs!GrossIsLeast` | and nothing smaller does |
| `FeeMathProofs!SlippageKeepsAMinimum` | a positive quote keeps a positive minimum, at most the quote |
| `SdkTradeProofs!SdkTypeCorrect` | the client's instructions and the chain state stay well formed |
| `SdkTradeProofs!Balances` | a transaction about to commit costs at most what the caller gave, brings the minimum, touches no other holding |
| `SdkTradeProofs!Settles` | when client and chain agree on the fee, settlement never refuses |
| `SdkTradeProofs!NoWsolLeft` | a buy paid in SOL strands no wrapped SOL |
| `SdkTradeProofs!PreparedIsEnough` | a trade whose accounts were prepared finds every account it uses |
| `BridgeSizingProofs!SizingTypeCorrect` | the ends of the search stay u64 values in order |
| `BridgeSizingProofs!InverseIsLeast` | the first hop's input is enough for its target, and nothing less is |
| `BridgeSizingProofs!PlannedHopsAgree` | the first hop fits the caller's amount and delivers what the second spends |
| `BridgeSizingProofs!ShrinkingLosesNothing` | a shrunk buy is quoted as many tokens as the unshrunk one |
| `BridgeSizingProofs!QuotedIsSized` | a buy that can be quoted is sized, unless the curve is sold out |
| `BridgeSizingProofs!SearchIsLogarithmic` | the three loops take at most three rounds per bit, and two |
| `MarketLoadProofs!NetFitsBudget` | what `net_quote` gives to a curve and the fees rounded up on it fit the budget |
| `MarketLoadProofs!QuotedTokensFitBudget` | the tokens `buy_quote` returns cost no more than the budget, by the program's formula, at the last token of a curve and past it too |
| `MarketLoadProofs!LoadInvariant` | what holds of a load and of the trade built on it (`Inv`) |
| `MarketLoadProofs!SetupCoversRent` | no Pump trade that executes pays rent inside its route |
| `MarketLoadProofs!MarketsAreOfOneState` | no market that is delivered mixes two states of the chain |
| `MarketLoadProofs!MarketInvariant` | what holds of the chain and of a PumpSwap pool between two reads (`MarketInv`) |
| `MarketLoadProofs!LoadTypeCorrect` | what a load has read so far, and what it delivers, is well formed |
| `MarketLoadProofs!SalesAreCovered` | a quoted sale counts on no fees that are not the pool's |
| `MarketLoadProofs!DeliveredBudgetsHold` | what a delivered market quotes for a budget costs no more than it |
| `RouteEncodingProofs!RouteInvariant` | how far the program has read after each leg, and what it has called (`RouteInv`) |
| `RouteEncodingProofs!EncodingTypes` | the program's reads stay inside the instruction that was built |
| `RouteEncodingProofs!RoutesAccepted` | what the client builds the program accepts, but for the leg that reads ahead |
| `RouteEncodingProofs!CpisAsBuilt` | every DEX is called with the leg its builder made, for the amount that arrived |
| `RouteEncodingProofs!FeeMintAlwaysFound` | the fee of a Token-2022 input is always a checked transfer, its mint being among the accounts, and that of a classic input never is |
| `PoolFeedProofs!FeedInvariant` | what a snapshot says of its pool, whatever was merged into it (`FeedInv`) |
| `PoolFeedProofs!FeedTypeCorrect` | the snapshot is of a pool of the feed and counts what it was given |
| `PoolFeedProofs!NoStaleMinimum` | minimums, quotes and arrays are those of the legs they stand in |
| `PoolFeedProofs!RoutesConnect` | routes start with what is paid, end with what is wanted, and connect |
| `PoolFeedProofs!NoOtherMint` | a trade asked for by mint is of that mint |
| `PoolFeedProofs!NoAccountMissed` | a trade prepares and closes exactly the accounts its legs move |
| `PoolFeedProofs!NoWildPool` | under a guard each leg goes through a trusted pool, one at its true address, or, where listing is not required, one of the kinds the guard cannot tell (`Unseen`) |
| `PoolFeedProofs!LegsNameTheirPool` | mints, programs and arrays of a leg are of the pool it names |
| `NoncePoolProofs!PoolInvariant` | where the entry of every account is (`PoolInv`) |
| `NoncePoolProofs!NonceTypeCorrect` | entries, answers and retry counts stay in range |
| `NoncePoolProofs!NoSharedNonce` | two trades in flight never rely on one nonce |
| `NoncePoolProofs!LateReadsAreFresh` | an entry read only after its trades is current |
| `NoncePoolProofs!NoEntryLost` | every entry is in the queue, with one refresh task or given up |

**Assumptions.** `RouterConstants` (wallets are accounts that hold themselves;
the fee is at most the whole; requests are requests), `ConfigConstants`,
`RouterBound`, `FeeConstants` (`MAX_FEE_BPS < FEE_DENOM`), `SdkTradeConstants`
(quotes of a first leg are positive, the chain starts in a state where an account
that does not exist holds nothing), `QuoteConstants` (`MAX_U64` and the denominator of
rates are positive), `BridgeSizingConstants` and `BridgeSizingWidth` (an amount fits
its bits; that `2^(n + 1)` is twice `2^n` is stated there, because the provers know
no induction), `MarketLoadConstants` (a vault may hold its rent floor and a trade pays
in less than that; a curve has more virtual tokens than it sells; no list of
recipients is empty; rates and schedules are such), `MintConstants` and
`PoolFeedConstants` (a pool of the feed has two mints and its own address, a curve's
being the derived one, and a configuration if it is a CPMM pool; its look-alike differs
in nothing but the address, the configuration and the launchpad's mark, and a look-alike
of a curve is at no derived address, since the program makes curves at their own only; a
bridge is a CPMM or a Raydium V4 pool of its own),
`NoncePoolConstants` (there is an account, and at least one attempt),
`RouteEncodingConstants` (what a caller may ask for, `RequestOK`: two, three or, on a
fixed route, one to four legs, a mint between any two of them; two mints to a pool with
their programs, except that a caller's own leg may name a third; SOL itself only in the
native Pump legs; and at most one optional account where the builder takes at most
one. Which DEX, which mints, in which order, and how many remaining accounts are not
assumed). TLC evaluates
each of them on every run that uses its module. No theorem but `HonestRoutesSettle`,
which is about such routes, assumes that a leg is honest.

**The router's argument.** `TradesAreAtomic` speaks of the beginning and the end
of a route only, so nothing about the middle follows from it. `RouteInv` adds, for
each stage, how far the ledger may have moved: nowhere at `fee`; by the fee and
nothing else at `snapshot` (`OnlyFeeMoved`); and in the legs, that the snapshots
are those of such a ledger (`Snapped`) and that every wallet but the user's still
has what it had and the fee (`OthersWhole`). The last is what makes
the fee safe from the legs: a leg may credit the recipient but cannot debit it.
At `Settle` the comparisons of the code, together with `Snapped` and
`OthersWhole`, are exactly `Settled`; every other step keeps the mapped ledger.
`HonestRoutesSettle` needs the opposite bound, how far a ledger *has* moved:
`HonestProgress` says that the input account of a well-built route has paid the fee
before the first leg and all of `amount_in` after it, and that an intermediate
account holds what its snapshot says except between the hop that fills it and the
hop that spends it, where `HopsSpendOnlyDelivered` says what it holds. The
comparisons then hold at `Settle` whatever the output was.

**The client's argument.** `TradeBalances` speaks of the end of a transaction.
`IInv` adds that every built trade is `WellBuilt` (one route, an input that nets
to what the first leg spends, a second leg that spends no more than the first
must deliver, from an account that is neither paid nor received) and what holds
while it runs: before the route the user's worth is untouched, with SOL and
wrapped SOL counted as one; inside it `Swapping` says what the input account has
paid so far and that no other account has less; after it `Balanced` is the
property itself, which closing accounts preserves. `BuiltIsWell` is where the
arithmetic of `FeeMathProofs` enters. Accounts have an invariant of their own,
`AccountsInv`. `BuiltIsOrdered` says of every transaction that it opens accounts and
wraps SOL, at most once, before the route and closes accounts after it, each once
(`WellOrdered`). In a run, an account that was open or has been made, and has not been
closed, is open (`AccountsKept`); and a buyer has never more wrapped SOL in addition
than was just wrapped for the route, which takes it all when the input is exact
(`WrappedIsSpent`).

**The sizing's argument.** A quote is monotone in its input, by the monotonicity of
floors and of transfer fees, which is proved for every rate; so whatever one input
reaches, a larger one reaches. `SizingInv` keeps between two rounds that nothing below
`lo` is enough and, once it was reached, that `hi` is (`EndsBracket`); when they meet
the input is the least. That one is reached at all is `SpendFits`: the caller's amount is
enough, and the capacity search never cuts it off. `RoundsInv` counts: after `r` rounds of a bisection `hi - lo < 2^(WIDTH - r)`, and after `r`
doublings `hi` is `2^r` or the largest input there is.

**The quotes' argument.** `net_quote` inverts two fees as one rate and then takes
back what rounding each of them up costs on top; `NetFitsBudget` shows that the
excess of the first guess covers it, because a smaller net is charged no more.
`QuotedTokensFitBudget` follows the quote on the curve, at the curve's last token
and past it: there the budget left pays for the pool to be, and the two nets are
charged apart in the one formula and together in the other, which is where a unit
could get lost.

**The loads' argument.** `MarketsAreOfOneState` needs hardly an invariant: what
is delivered is built from the second read wherever the checks of the code do not
force the first to agree with it. `SetupCoversRent` does: between building and
landing everything may change, so `JobInv` says of a built trade which setup it
carries (`Prepares`), and that a V3 curve once found extended stays so. At `land`
either the coin is no longer the one the setup names, and the transaction reverts,
or the setup leaves vault, accumulator and curve with their rent. `SalesAreCovered`
rests on `MarketInv`: the fees that wait in a PumpSwap vault never exceed it, and grow
until they are swept, so what a later read subtracts is at least what an earlier one
would have, and the rest of the vault is the pool's. `DeliveredBudgetsHold` carries `QuotedTokensFitBudget`
from the arithmetic to the rates a load can deliver; that a fee schedule has a tier
for every market cap is its one well-founded argument.

**The feed's argument.** Each of the properties quantifies over every order that could be
built in a state. `FeedInv` says of the snapshot that its two sides are what they are
on the chain or not yet known, except for the mint of a curve, which the caller may
name and which is then in the address (`Sides`), and that the configuration of a CPMM
pool is its own or missing (`TheirConfig`); that its arrays are whole and of
the pool whose address it carries (`Snapped`); and that a cached quote is of the very
state, mint and amount it is recorded with (`Fresh`). On that, every build is a single leg between the coin and what
pays for it or two legs through the bridge (`OneLeg`, `TwoLegs`), and each
property is read off the two shapes, for every DEX and both directions.

**The pool's argument.** `NonceHeldOnce` compares values and says nothing of the
queue. `PoolInv` adds where the single entry of an account loaded once is: in the
queue, with one refresh task, or given up, and never in two of these (`OnePlace`);
that every trade that took an entry has a task on its account (`Linked`); and that
while no read was early, entries and answers are current and a trade in flight
still has its task before its read (`Current`). A landing then finds no copy of the
entry that it makes old. `NoEntryLost` counts: every place of the list that `warm` read
is in the queue, held by a refresh task or given up, and each step moves one from one of
the three finite sets to another.

**The encoding's argument.** The instruction is written once and read piece by piece,
so the invariant says where the reading stands: after `n` legs the cursor is at the
end of the `n`-th (`End`) and the account offset behind its accounts (`Offset`), both
computed from the legs that were built (`Between`); every call so far was the leg
as its builder makes it for the amount then due (`Arrived`); and the leg before is the
one whose delivery is remembered. The four properties compare calls and verdicts and
say nothing of the two cursors, from which the next step reads. Three facts carry the
step. *The tables agree* (`RowsAgree`): the client's and the program's row of a leg
name the same places, proved DEX by DEX and direction by direction from the account
list of each builder (the `...List` and `...Fits` lemmas). *Patching is building again*
(`PatchIsRebuild`): a leg differs from the same leg for another amount only in the
field at its amount offset. *The metas carry the legs* (`MetasCarry`, `FeeMintCarried`):
behind six fixed accounts and the intermediate ones every leg's accounts lie in a row,
wherever the mint of the fee is appended, so the accounts read at an offset are the
leg's. As an instruction has at most four legs, its layout is followed leg by leg
(`OffsetSteps`, `EndOf`, `FlatLegs`) and needs no induction. A first leg that reads
ahead is never sent, which is the one exception of `BuiltRoutesAccepted`.

## 5. What is only model-checked

`RefreshEnds` is a liveness property, which is out of the prover's reach: TLC checks
it in `nonce_pool`, under the fairness stated above. Every invariant and every action
property of a passing run is proved.

## 6. What the models leave out

* Router: lamports of rent; accounts whose owner or mint changes; instruction data
  that ends too early, which is refused like any other malformed header. The recipient is a wallet. `is_writable`
  of an intermediate account is subsumed by the writable accounts of the legs.
  Solana's rule that one instruction at a time writes an account is why
  configuration changes come between routes and not inside one.
* Client: `Token(WSOL)` is treated as `Wsol`, as the code does; prices are open;
  the recipient's balance is not counted and the recipient does not change; rent
  is not counted; the order of idempotent account creations is immaterial and
  fixed. `prepare_pumpfun_native_accounts` is in MarketLoad and not in SdkTrade;
  `close_wsol(false)` after `sell_to_sol` is not modelled, and neither is a wallet that is its own fee
  recipient, which `own_recipient` covers on the router's side. The amount a
  bridge spends is positive and within the caller's; that it is also the least
  that reaches the target is a matter of the quotes.
* Quotes: the three creator-fee configurations are the side the fee is taken on;
  a fee rate that is not known is refused before the quote; a LaunchLab pool's
  share fee is 0; the snapshot quotes of the concentrated pools (numbers the caller
  supplies) and sales into LaunchLab. Products are exact, as u128 is for u64 reserves.
* Route encoding: amounts and keys are values, not bytes; a leg's data is its
  discriminator, its length, its u64 fields by offset and the flags a decoder
  looks at. Pump V3 legs, a caller's own leg of more than 64 accounts, and
  balances, which are in Router.
* Nonce pool: the RPC answers with the current value or fails; a node that lags
  behind the chain would only add to `nonce_stale`.
* Market loads: an account decodes or the load fails; the loaders of the other DEXes
  are one read each in another crate, so nothing can come between; the layouts with
  a deep or a V2 curve differ in addresses only. V3 and V1 quotes take the fee tier
  at the moment of the read.
* Snapshots: which accounts an event carries is decided by the parser crate; an
  event is of one pool and one state. Liquidity arrays are the range they belong to.
* Pool guard: the vaults and the observation account of a snapshot are those of its
  pool or unset, so the comparisons of `assert_launchlab_ok` and `assert_cpmm_ok` that
  look at them never refuse.
  What the guard cannot tell is part of `GuardedPools`, not left out of it: with a
  policy that requires no listing, an AMM V4, DAMM V2, CLMM, Whirlpool or DLMM pool and
  a PumpSwap pool not quoted in WSOL pass by any address; a CPMM pool, target or
  bridge, passes by any address as long as its snapshot has no `amm_config`
  (`pool_guard.rs:284`, and the test `cpmm_strict_needs_trust` expects it); and a CPMM
  pool derived from another configuration of the same mints is at its own true address.
* Not modelled: `submit`, which hands over to another crate (`SdkTrade` has its
  outcomes, landing once or expiring); the bots but for their nonce pool: none of
  the three example loops gets as far as sending a trade (see findings), and the
  blockhash cache is one cell that one task overwrites; the builders of `admin.rs`,
  of which RouterConfig has the effect; the test harness, the scripts, the mock DEX
  and the vendored gRPC client.

## 7. Plan

Done, in this order: RouterTypes, RouterConfig, Router, AtomicTrade and their
runs; RouterProofs; NoncePool; FeeMath and FeeMathProofs; SdkTrade and
SdkTradeProofs; Quotes and BridgeSizing; RouteEncoding; Markets, PoolGuard,
TradePaths and PoolFeed; PumpQuotes, MarketLoad and MarketLoadProofs;
NoncePoolProofs; BridgeSizingProofs; PoolFeedProofs; the rest of SdkTradeProofs,
MarketLoadProofs, NoncePoolProofs and RouterProofs; RouteEncodingProofs.

What could follow: the V3 Pump legs in RouteEncoding's tables, a LaunchLab sale, and the
lamports of rent in Router; each with its proofs.
