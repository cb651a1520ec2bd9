--------------------------- MODULE MCLegacyIntents ---------------------------
(***************************************************************************)
(* Instances of LegacyIntents for TLC.                                     *)
(***************************************************************************)
EXTENDS LegacyIntents, TLC

CONSTANTS c1, c2, c3, p1, p2, k1, r1, r2

(* c1 and c2 are a create and its retry, c3 has no key; or none has.       *)
RetryKey == (c1 :> k1) @@ (c2 :> k1) @@ (c3 :> NoKey)
NoKeys == (c1 :> NoKey) @@ (c2 :> NoKey)
BlankKey == (c1 :> Blank) @@ (c2 :> Blank)

(* Two creates for one reference and one for a blank one; two with a       *)
(* reference of their own; two with none.                                  *)
SharedRef == (c1 :> r1) @@ (c2 :> Blank) @@ (c3 :> r1)
TwoPayments == (c1 :> r1) @@ (c2 :> r2)
NoPayment == (c1 :> NoRef) @@ (c2 :> NoRef)

Symmetry == Permutations(Passes)

=============================================================================
