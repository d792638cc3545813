------------------------------ MODULE MCEngine ------------------------------
(* Two agents, three rounds; a text for, one against that names an agent,  *)
(* and the empty one.  Besides the agents' ids calls name one by its name, *)
(* nobody, and the empty string.                                           *)
EXTENDS Engine

MCAgents == {"ann", "bob"}
MCHandles == {"Bob", "zoe", ""}
MCIdByName == [h \in {"Bob"} |-> "bob"]
MCOrder == <<"ann", "bob">>
MCTexts == {"for", "against", "none"}
MCStance == [t \in MCTexts |-> IF t = "for" THEN 600 ELSE IF t = "against" THEN -450 ELSE 0]
MCMentions == [t \in MCTexts |-> IF t = "against" THEN {"ann"} ELSE {}]
MCClass == [t \in MCTexts |-> IF t = "for" THEN "supports" ELSE IF t = "against" THEN "opposed" ELSE "neutral"]
MCEnvironments == {<<"social">>, <<"social", "market">>, <<"market">>, <<"economic">>}
MCBudget == [e \in MCEnvironments, c \in {1, 2} |->
               IF e = <<"social">> /\ c = 2 THEN 3 ELSE 2]
MCScheduled == {[round |-> 2, about |-> "shock"]}
MCSeeds == [m \in {"m1"} |-> 50]
MCTradeAmounts == {2, 3}
MCQuantities == {-3, 3}
=============================================================================
