------------------------------ MODULE MCTokens ------------------------------
(* Instances of Tokens: a subject in two teams, policies with a wider and a *)
(* narrower grant, exclusions, and a text the merge does not take; the keys *)
(* of the second team are beyond the search, and a third key beyond the     *)
(* recipe.                                                                  *)
EXTENDS Tokens

CONSTANTS alice, ops, dev, p1, p2, com, acme

Groups == {<<com>>, <<com, acme>>}

SomePolicies ==
  {[teams |-> <<ops, dev>>, grants |-> <<[key |-> <<com>>, ops |-> {"r", "c"}]>>,
    exclude |-> <<<<com, acme>>>>, sections |-> TRUE],
   [teams |-> <<>>, grants |-> <<[key |-> Star, ops |-> {"c", "w"}]>>,
    exclude |-> <<<<com, acme>>, Star, <<com>>>>, sections |-> TRUE],
   [teams |-> <<ops>>, grants |-> <<[key |-> <<com, acme>>, ops |-> {"d"}],
                                   [key |-> Star, ops |-> {"d"}]>>,
    exclude |-> <<>>, sections |-> FALSE]}

Directory == [s \in Subject |-> [pw |-> p2, groups |-> {<<com>>}]]
==============================================================================
