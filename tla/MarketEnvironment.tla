------------------------- MODULE MarketEnvironment -------------------------
(***************************************************************************)
(* simswarm/environments/market.py and market_amm.py: prediction markets   *)
(* with a constant-product maker.  Cash, shares and reserves are whole     *)
(* numbers: Exact names the trades whose quotient is whole, and only those *)
(* are made, so the arithmetic of the code, which is in floats, is exact   *)
(* here.                                                                   *)
(***************************************************************************)
EXTENDS EnvironmentBase

CONSTANTS Markets,          \* the markets' slugs
          Liquidity,        \* config.initial_liquidity
          SeedPercent,      \* initial_price_yes of each market, in percent
          InitialBalance,   \* config.initial_balance
          MovePercent       \* config.price_move_event_threshold, in percent

Outcomes == {"yes", "no"}
Opposite(outcome) == IF outcome = "yes" THEN "no" ELSE "yes"

ASSUME MarketAssumption ==
  /\ Liquidity \in Nat \ {0}
  /\ SeedPercent \in [Markets -> 1 .. 99]
  /\ \A m \in Markets : (2 * Liquidity * SeedPercent[m]) % 100 = 0
  /\ IsFiniteSet(Markets) /\ InitialBalance \in Nat

ReservesFromPrice(percent) ==
  [yes |-> (2 * Liquidity * (100 - percent)) \div 100,
   no  |-> (2 * Liquidity * percent) \div 100]

(* The price of YES is pool.no out of this pool; a Market is its reserves. *)
Pool(m) == m.yes + m.no
Product(m) == m.yes * m.no

(* Buying an outcome adds the money to the opposite reserve and pays with  *)
(* what the product rule frees of its own; selling adds the shares to its  *)
(* own reserve and pays out of the opposite one.                           *)
Pushed(m, outcome, amount) ==
  LET other == Opposite(outcome)
      grown == m[outcome] + amount
  IN [m EXCEPT ![outcome] = grown, ![other] = Product(m) \div grown]

Exact(m, outcome, amount) == Product(m) % (m[outcome] + amount) = 0

\* Mutant: the money joins the reserve the shares are taken from.
BoughtSameSide(m, outcome, amount) == Pushed(m, outcome, amount)

Bought(m, outcome, amount) == Pushed(m, Opposite(outcome), amount)

SharesBought(m, outcome, amount) == m[outcome] - Bought(m, outcome, amount)[outcome]

Sold(m, outcome, shares) == Pushed(m, outcome, shares)
Proceeds(m, outcome, shares) ==
  m[Opposite(outcome)] - Sold(m, outcome, shares)[Opposite(outcome)]

NoShares == [m \in Markets |-> [o \in Outcomes |-> 0]]

NewPortfolio == [balance |-> InitialBalance, shares |-> NoShares]

NewMarket ==
  LET seeded == [m \in Markets |-> ReservesFromPrice(SeedPercent[m])]
  IN [round |-> 1, markets |-> seeded, last |-> seeded, comments |-> 0,
      portfolios |-> [a \in {} |-> NewPortfolio], events |-> {}]

(* register_agent(), on an agent's first observation or action.            *)
Registered(s, agents) ==
  [s EXCEPT !.portfolios = [a \in DOMAIN s.portfolios \cup agents |->
                              IF a \in DOMAIN s.portfolios THEN s.portfolios[a]
                              ELSE NewPortfolio]]

MarketTypeOK(s) ==
  /\ s.markets \in [Markets -> [Outcomes -> Nat]]
  /\ DOMAIN s.portfolios \subseteq Agents
  /\ \A a \in DOMAIN s.portfolios :
       /\ s.portfolios[a].balance \in Nat
       /\ s.portfolios[a].shares \in [Markets -> [Outcomes -> Nat]]

MarketTools == {"browse_markets", "buy_shares", "sell_shares", "comment_on_market",
                "do_nothing"}

----------------------------------------------------------------------------
Settled(portfolio, market, outcome, cash, shares) ==
  [balance |-> portfolio.balance + cash,
   shares  |-> [portfolio.shares EXCEPT ![market][outcome] = @ + shares]]

Traded(s, agent, call, m, cash, shares, data) ==
  Done([s EXCEPT !.markets[call.market] = m,
                 !.portfolios[agent] = Settled(@, call.market, call.outcome, cash, shares)],
       data)

InvalidTrade(call) ==
  call.outcome \notin Outcomes \/ call.market \notin Markets \/ call.amount <= 0

Purchase(s, agent, call) ==
  LET m == s.markets[call.market]
      shares == SharesBought(m, call.outcome, call.amount)
  IN Traded(s, agent, call, Bought(m, call.outcome, call.amount), -call.amount, shares,
            [NoData EXCEPT !.cost = call.amount, !.shares = shares])

Sale(s, agent, call) ==
  LET m == s.markets[call.market]
      proceeds == Proceeds(m, call.outcome, call.amount)
  IN Traded(s, agent, call, Sold(m, call.outcome, call.amount), proceeds, -call.amount,
            [NoData EXCEPT !.cost = proceeds, !.shares = call.amount])

BuyShares(s, agent, call) ==
  IF InvalidTrade(call) \/ s.portfolios[agent].balance < call.amount
  THEN Refused(s) ELSE Purchase(s, agent, call)

SellShares(s, agent, call) ==
  IF \/ InvalidTrade(call)
     \/ s.portfolios[agent].shares[call.market][call.outcome] < call.amount
  THEN Refused(s) ELSE Sale(s, agent, call)

Comment(s) == Done([s EXCEPT !.comments = @ + 1], NoData)

MarketExecute(before, agent, call) ==
  LET s == Registered(before, {agent})
  IN CASE call.name = "buy_shares"        -> BuyShares(s, agent, call)
       [] call.name = "sell_shares"       -> SellShares(s, agent, call)
       [] call.name = "comment_on_market" -> Comment(s)
       [] call.name \in {"browse_markets", "do_nothing"} -> Done(s, NoData)
       [] OTHER                           -> Refused(s)

----------------------------------------------------------------------------
(* tick(): |price - last price| >= threshold, with the fractions           *)
(* multiplied out; the price of this round becomes the last one.           *)
Moved(s) ==
  {m \in Markets :
     LET now == s.markets[m]
         was == s.last[m]
     IN 100 * Distance(now.no * Pool(was), was.no * Pool(now))
          >= MovePercent * Pool(was) * Pool(now)}

PriceMove(m, round) == Event("market", "price_move", m, round)

MarketTick(s) ==
  [s EXCEPT !.round = @ + 1, !.last = s.markets,
            !.events = @ \cup {PriceMove(m, s.round) : m \in Moved(s)}]

MarketPublished(s) == [s EXCEPT !.events = {}]

(* What the pool, the traders' cash and the shares they hold add up to.    *)
Held(portfolio) ==
  portfolio.balance
    + Sum([m \in Markets |-> portfolio.shares[m].yes + portfolio.shares[m].no])

Worth(s) ==
  Sum([m \in Markets |-> Pool(s.markets[m])])
    + Sum([a \in DOMAIN s.portfolios |-> Held(s.portfolios[a])])
=============================================================================
