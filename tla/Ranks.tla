-------------------------------- MODULE Ranks --------------------------------
(* Ranks of states, by which the modules say that their loops end. *)
EXTENDS Naturals

(* Ranks are compared as the words of a dictionary are: the order has no   *)
(* endless descent.                                                        *)
Lower(r, s) ==
  /\ s \in Nat \X Nat \X Nat \X Nat
  /\ \E n \in DOMAIN s : r[n] < s[n] /\ \A m \in 1 .. n - 1 : r[m] = s[m]

=============================================================================
