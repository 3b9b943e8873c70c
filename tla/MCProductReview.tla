-------------------------- MODULE MCProductReview --------------------------
(* Finite instances of ProductReview: codes of two accounts. *)
EXTENDS ProductReview, TLC

CONSTANTS p1, p2, m1, r1, r2, jv1, jv2, xl1, xl2

OneProduct  == {p1}
TwoProducts == {p1, p2}
OneRequest  == {r1}
TwoRequests == {r1, r2}

OnePair  == (jv1 :> "jv") @@ (xl1 :> "xl")
TwoPairs == (jv1 :> "jv") @@ (jv2 :> "jv") @@ (xl1 :> "xl") @@ (xl2 :> "xl")

(* Codes of one account, and requests, are interchangeable. *)
Interchangeable ==
  {f @@ g @@ h : f \in Permutations({jv1, jv2}), g \in Permutations({xl1, xl2}),
                 h \in Permutations({r1, r2})}
=============================================================================
