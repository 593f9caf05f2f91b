----------------------------- MODULE MCRootWaves -----------------------------
(* Three root candidates on two threads, with a budget of eight and so a   *)
(* share of four: a branch ends at once, asks for one or two expansions,   *)
(* for a guide and its bundle of two, or for more than its share.          *)
EXTENDS RootWaves

MCPlans == {<<>>, <<1>>, <<1, 1>>, <<1, 2>>, <<1, 1, 2>>, <<1, 1, 1, 1>>}
=============================================================================
