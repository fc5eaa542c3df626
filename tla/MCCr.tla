------------------------------- MODULE MCCr -------------------------------
(***************************************************************************)
(* TLC instances of Cr.                                                    *)
(***************************************************************************)
EXTENDS Cr, TLC

CONSTANTS m, c1, c2, c3, b1, b2, b3

TwoChildren == {m, c1, c2}
ThreeChildren == {m, c1, c2, c3}
ThreeBundles == {b1, b2, b3}
TwoBundles == {b1, b2}
OneBundle == {b1}

Never == {-1}
NeverOrOne == {-1, 1}
OneTick == {1}

\* Children are interchangeable, and so are bundles.
SymThree == Permutations({c1, c2, c3}) \cup Permutations({b1, b2, b3})
=============================================================================
