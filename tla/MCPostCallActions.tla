-------------------------- MODULE MCPostCallActions --------------------------
(* A lead for a new customer and an update for a known one, with the retries  *)
(* of PostCallRetryConfig's kinds, in parallel and in order, with and without *)
(* require_enrichment_for_post_actions.                                       *)
EXTENDS PostCallActions

Retries2 == [enabled |-> TRUE, max |-> 2, validation |-> TRUE, api |-> TRUE, llm |-> TRUE]
NoLLM == [enabled |-> TRUE, max |-> 1, validation |-> TRUE, api |-> FALSE, llm |-> FALSE]
NoRetries == [enabled |-> FALSE, max |-> 3, validation |-> TRUE, api |-> TRUE, llm |-> TRUE]

Lead(priority, retry) ==
  [type |-> "create_lead", condition |-> "new", priority |-> priority, enabled |-> TRUE,
   retry |-> retry, needsId |-> FALSE]

Update(condition, priority, retry) ==
  [type |-> "update_contact", condition |-> condition, priority |-> priority, enabled |-> TRUE,
   retry |-> retry, needsId |-> TRUE]

ActionLists ==
  {<<Lead(2, NoRetries), Update("exists", 1, Retries2)>>,
   <<Update("always", 1, Retries2), Lead(1, NoLLM)>>,
   <<[Lead(1, NoRetries) EXCEPT !.enabled = FALSE], Update("success", 1, NoLLM)>>}

SomeLifecycles == [enrich : BOOLEAN, require : BOOLEAN, parallel : BOOLEAN, actions : ActionLists]
=============================================================================
