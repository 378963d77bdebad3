------------------------------ MODULE MCAgentTurn ------------------------------
(* Two tools and the plans of one and two calls; repeated plans and repeated *)
(* calls are both within the budgets.                                        *)
EXTENDS AgentTurn

CONSTANTS t1, t2, a, b

McPlans == {<<a>>, <<a, b>>, <<b, a, b, a>>}

=============================================================================
