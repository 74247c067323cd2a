---------------------------- MODULE MCCoinTosses ----------------------------
EXTENDS CoinTosses

CONSTANT MaxThreads

(* Static schedules give every thread one stretch of the iterations, in    *)
(* the order of the threads; the lengths are up to the implementation.     *)
MCTeams ==
  UNION {{c \in [0 .. n-1 -> {a .. b : a \in 0 .. nNodes, b \in -1 .. nNodes-1}] :
            /\ \A i \in Coin : \E t \in 0 .. n-1 : i \in c[t]
            /\ \A s, t \in 0 .. n-1 : s < t => \A i \in c[s], k \in c[t] : i < k} :
         n \in 1 .. MaxThreads}
=============================================================================
