------------------------------ MODULE MCRelay ------------------------------
(***************************************************************************)
(* Relay on small instances: a is in range of the bridge, b of a, c of b   *)
(* alone or of a as well.  In the line a may take its own child b for a    *)
(* parent, by accident or because a user says so, or looks for its parent  *)
(* again and again; in the triangle c may move between a and b, or one of  *)
(* a loss, a restart and a pruned route happens; where a and b both hear   *)
(* the bridge, a JOIN is retried with another parent.  Healing is checked  *)
(* with fewer remotes or one frame in the air, and with lists of preferred *)
(* parents.                                                                *)
(***************************************************************************)
EXTENDS Relay, TLC

CONSTANTS a, b, c

Pair     == {{Bridge, a}, {a, b}}
Both     == Pair \cup {{Bridge, b}}
Line     == Pair \cup {{b, c}}
Triangle == Line \cup {{a, c}}

NoLists == [n \in Remotes |-> <<>>]

\* A scenario where some remotes prefer parents, and one where none does.
Preferring(lists, links, weak, room, wrong) ==
    [place |-> [links |-> links, weak |-> weak, preferred |-> lists @@ NoLists, room |-> room],
     budget |-> [k \in FaultKinds |-> Cardinality({i \in DOMAIN wrong : wrong[i] = k})]]
Scenario(links, weak, room, wrong) == Preferring(NoLists, links, weak, room, wrong)

MCScenarios ==
    {Scenario(Line, {a}, 1, <<"recover", "early">>),
     Scenario(Line, {}, 1, <<"parent">>),
     Preferring(a :> <<Bridge>>, Line, {}, 1, <<>>),
     Scenario(Triangle, {c}, 2, <<"recover", "early">>),
     Scenario(Both, {}, 2, <<"early", "early">>)}
        \cup {Scenario(Triangle, {}, 2, <<k>>) : k \in {"loss", "restart", "prune"}}

LiveScenarios ==
    {Scenario(Pair, {a}, 2, <<"recover", "early">>),
     Scenario(Pair, {}, 1, <<"parent">>),
     Preferring(a :> <<b>>, Pair, {}, 1, <<"loss">>),
     Preferring((a :> <<b>>) @@ (b :> <<a>>), Pair, {}, 1, <<>>),
     Preferring(a :> <<Bridge>>, Line, {}, 1, <<>>),
     Preferring((b :> <<a>>) @@ (c :> <<b, a>>), Triangle, {}, 1, <<>>),
     Scenario(Both, {}, 1, <<"early", "loss">>)}
        \cup {Scenario(Triangle, {}, 1, <<k>>) : k \in {"restart", "prune"}}

=============================================================================
