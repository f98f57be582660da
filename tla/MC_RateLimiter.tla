---------------------------- MODULE MC_RateLimiter ----------------------------
(* Instances of RateLimiter for TLC. *)
EXTENDS RateLimiter

\* The address a client claims before its own is appended.
Claimed(a) == CHOOSE b \in Clients : b # a

\* Straight from the client; through one or two proxies, which append to what it
\* claimed; through a proxy that sets X-Real-IP.
Ways ==
    UNION {{[origin |-> a, direct |-> a, hops |-> <<Claimed(a)>>, real |-> None],
            [origin |-> a, direct |-> "proxy", hops |-> <<Claimed(a), a>>, real |-> Claimed(a)],
            [origin |-> a, direct |-> "proxy", hops |-> <<a, "proxy">>, real |-> None],
            [origin |-> a, direct |-> "proxy", hops |-> <<>>, real |-> a]} : a \in Clients}

TwoThenOne == [s \in Stores |-> IF s = CHOOSE r \in Stores : TRUE THEN 2 ELSE 1]
=============================================================================
