------------------------ MODULE EconomicEnvironment ------------------------
(***************************************************************************)
(* simswarm/environments/economic.py: firms, labour, prices, investment    *)
(* and policies, with metrics computed at the end of each round.  Metrics  *)
(* that are ratios are kept as the pair they are the quotient of.          *)
(***************************************************************************)
EXTENDS EnvironmentBase

CONSTANTS LaborForce,        \* config.labor_force
          MetricPercent      \* config.metric_change_threshold, in percent

ASSUME EconomicAssumption == LaborForce \in Nat \ {0} /\ MetricPercent \in Nat

(* register_agent() as the engine calls it: nobody starts with money.      *)
NewActor == [balance |-> 0, workforce |-> 0, price |-> 0, output |-> 0]

NoMetrics == [employed |-> 0, prices |-> 0, sellers |-> 0, output |-> 0, invested |-> 0]

NewEconomy == [round |-> 0, actors |-> [a \in {} |-> NewActor], policies |-> <<>>, invested |-> 0,
               metrics |-> NoMetrics, last |-> NoMetrics, events |-> {}]

Enrolled(s, agents) ==
  [s EXCEPT !.actors = [a \in DOMAIN s.actors \cup agents |->
                          IF a \in DOMAIN s.actors THEN s.actors[a] ELSE NewActor]]

EconomyTypeOK(s) ==
  /\ DOMAIN s.actors \subseteq Agents
  /\ \A a \in DOMAIN s.actors :
       s.actors[a] \in [balance : Int, workforce : Int, price : Int, output : Int]
  /\ s.invested \in Int

EconomicTools == {"set_price", "hire", "fire", "invest", "allocate", "apply_policy",
                  "do_nothing"}

----------------------------------------------------------------------------
(* Handlers.  The numbers come from the model as they are: hire, fire and  *)
(* invest accept a negative one.                                           *)

SetPrice(s, agent, call) == Done([s EXCEPT !.actors[agent].price = call.amount], NoData)

Hire(s, agent, call) == Done([s EXCEPT !.actors[agent].workforce = @ + call.amount], NoData)

Fire(s, agent, call) ==
  IF call.amount > s.actors[agent].workforce THEN Refused(s)
  ELSE Done([s EXCEPT !.actors[agent].workforce = @ - call.amount], NoData)

WithCapital(actor, amount) ==
  [actor EXCEPT !.balance = @ - amount, !.output = @ + amount]

Invest(s, agent, call) ==
  IF s.actors[agent].balance < call.amount THEN Refused(s)
  ELSE Done([s EXCEPT !.actors[agent] = WithCapital(@, call.amount),
                      !.invested = @ + call.amount], NoData)

ApplyPolicy(s, agent, call) ==
  Done([s EXCEPT !.policies = Append(@, [by |-> agent, round |-> s.round])], NoData)

EconomicExecute(before, agent, call) ==
  LET s == Enrolled(before, {agent})
  IN CASE call.name = "set_price"    -> SetPrice(s, agent, call)
       [] call.name = "hire"         -> Hire(s, agent, call)
       [] call.name = "fire"         -> Fire(s, agent, call)
       [] call.name = "invest"       -> Invest(s, agent, call)
       [] call.name = "apply_policy" -> ApplyPolicy(s, agent, call)
       [] call.name \in {"allocate", "do_nothing"} -> Done(s, NoData)
       [] OTHER                      -> Refused(s)

----------------------------------------------------------------------------
SumOver(s, field) == Sum([a \in DOMAIN s.actors |-> s.actors[a][field]])

(* Employment counts no more workers than there are; the average price is  *)
(* over the actors whose price is positive.                                *)
ComputeMetrics(s) ==
  LET sellers == {a \in DOMAIN s.actors : s.actors[a].price > 0}
      employed == SumOver(s, "workforce")
  IN [employed |-> IF employed < LaborForce THEN employed ELSE LaborForce,
      prices   |-> Sum([a \in sellers |-> s.actors[a].price]),
      sellers  |-> Cardinality(sellers),
      output   |-> SumOver(s, "output"),
      invested |-> s.invested]

(* |current - previous| >= threshold, for each of the four metrics.        *)
Average(m) == IF m.sellers = 0 THEN [num |-> 0, den |-> 1]
                               ELSE [num |-> m.prices, den |-> m.sellers]

Shifted(was, now) ==
  {key \in {"employment_rate", "avg_price", "total_output", "total_investment"} :
     CASE key = "employment_rate" ->
            100 * Distance(now.employed, was.employed) >= MetricPercent * LaborForce
       [] key = "avg_price" ->
            100 * Distance(Average(now).num * Average(was).den,
                           Average(was).num * Average(now).den)
              >= MetricPercent * Average(now).den * Average(was).den
       [] key = "total_output" -> 100 * Distance(now.output, was.output) >= MetricPercent
       [] OTHER -> 100 * Distance(now.invested, was.invested) >= MetricPercent}

MetricChange(key, round) == Event("economic", "metric_change", key, round)

EconomicTick(s) ==
  LET now == ComputeMetrics(s)
  IN [s EXCEPT !.round = @ + 1, !.last = s.metrics, !.metrics = now,
               !.events = @ \cup {MetricChange(k, s.round + 1) : k \in Shifted(s.metrics, now)}]

EconomicPublished(s) == [s EXCEPT !.events = {}]
=============================================================================
