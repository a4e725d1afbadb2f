----------------------------- MODULE MCBWTraining -----------------------------
(* Small instances of BWTraining.                                          *)
EXTENDS BWTraining

\* Pruned until rung n, and how the search ends there; 9 is never.
V(n, e) == [from |-> n, end |-> e]
Serials == {V(0, "aligns"), V(1, "aligns"), V(9, "aligns"), V(0, "fails"),
            V(1, "fails"), V(0, "raises"), V(0, "absent"), V(0, "short")}
Sharded == {V(0, "aligns"), V(2, "aligns"), V(1, "fails")}
Ending == {V(0, "aligns"), V(1, "aligns"), V(9, "aligns")}

O(s, m, r, n, p, b, f, v) ==
    [shards |-> s, multipron |-> m, remainder |-> r, rungs |-> n, policy |-> p,
     budget |-> b, floor |-> f, verdicts |-> v]
\* One for each path, remainder, policy, ladder and way of publishing; in one
\* the budget covers every utterance.
PassSettings ==
    {O(1, TRUE, "first", 2, "recover", 1, FALSE, Serials),
     O(1, FALSE, "first", 1, "omit", 2, TRUE, Serials),
     O(1, TRUE, "first", 0, "recover", 3, TRUE, Serials),
     O(1, TRUE, "last", 1, "abort", 1, TRUE, Serials),
     O(2, TRUE, "last", 2, "recover", 1, TRUE, Sharded),
     O(2, FALSE, "first", 1, "recover", 2, FALSE, Sharded)}
EndSettings ==
    {O(1, TRUE, "first", 1, "recover", 1, FALSE, Ending),
     O(2, FALSE, "first", 1, "abort", 1, TRUE, Ending)}
OneGain == {-2}
Gains == {-2, 0, NonFinite}
===============================================================================
