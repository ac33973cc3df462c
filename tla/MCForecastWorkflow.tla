-------------------------- MODULE MCForecastWorkflow --------------------------
(* Instances of ForecastWorkflow for TLC. *)
EXTENDS ForecastWorkflow, TLC

CONSTANTS fact, news, odds, experts

(* A dated fact, later news, betting odds that every pattern matches, and  *)
(* "experts put it at 40%", which only the one for judges does.            *)
PublishedAt == fact :> 0 @@ news :> 2 @@ odds :> None @@ experts :> None

DossierOf(sources, marked, leak, invalid) ==
    [sources |-> sources, marked |-> marked, leak |-> leak, invalid |-> invalid]
DossierChoice ==
    {DossierOf({fact, odds}, {fact}, FALSE, {fact}), DossierOf({news}, {}, FALSE, {fact}),
     DossierOf({experts}, {}, FALSE, {}), DossierOf({}, {}, TRUE, {fact})}
ReportChoice ==
    {[cites |-> {fact}, admits |-> FALSE], [cites |-> {news}, admits |-> FALSE],
     [cites |-> {experts}, admits |-> TRUE]}

Symmetry == Permutations(State) \cup Permutations(Role)
===============================================================================
