----------------------------- MODULE MCReadApi ------------------------------
EXTENDS ReadApi

MCRequest == 1 .. 3
Together(a, b, c) == <<a, b, c>>
Alone(k) == Together(k, Unused, Unused)
MCScenarios ==
  {Alone(k) : k \in Kind}
    \cup {Together("overview", "workflows", Unused)}
    \cup {Together("workflows", "workflows", "workflows")}

(* Requests that find a client share nothing.                              *)
MCInit == Init /\ (temporal => \E k \in Kind : kind = Alone(k))

MCSpec == MCInit /\ [][Next]_vars /\ Fairness
=============================================================================
