------------------------------- MODULE MCShop -------------------------------
(***************************************************************************)
(* Short sessions of five kinds: purchases and shipments of two products,  *)
(* more purchases of one product, promotions and their subscribers,        *)
(* comments of two users, and some of everything.                          *)
(***************************************************************************)
EXTENDS Shop

LOCAL INSTANCE TLC

CONSTANTS ana23, juan87, laura

MCNick == {ana23, juan87, laura}

\* no definition tells one nickname from another
NickSymmetry == Permutations(MCNick)

Limit(r, p, q, b, c) ==
  [roles |-> r, products |-> p, promotions |-> q, purchases |-> b, comments |-> c]

Buying      == Limit(2, 2, 0, 2, 0)
BuyingAgain == Limit(2, 1, 0, 3, 0)
Promoting   == Limit(3, 1, 2, 0, 0)
Commenting  == Limit(2, 1, 0, 0, 3)
Everything  == Limit(2, 1, 1, 1, 1)

MCSessions == {Buying, BuyingAgain, Promoting, Commenting, Everything}
=============================================================================
