------------------------------- MODULE MCCounter -------------------------------
(* One set with a listener for timeouts and a counter, one with a listener *)
(* for timeouts alone, and the manager's listener for configurations.      *)
EXTENDS Counter
CONSTANTS s1, s2, h1, h2, c1, mgr
MCTopicOf ==
    [l \in Listeners |-> CASE l \in {h1, h2} -> "hellban" [] l = c1 -> "counter" [] l = mgr -> "config"]
MCHellban == [s \in Sets |-> IF s = s1 THEN h1 ELSE h2]
MCCount == [s \in Sets |-> IF s = s1 THEN c1 ELSE None]
=============================================================================
