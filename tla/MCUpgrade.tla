------------------------------ MODULE MCUpgrade ------------------------------
(* One administrator; the releases before, of, and after this one.         *)
EXTENDS Upgrade

CONSTANT admin1

OneAdmin == {admin1}
Releases == 0..2
=============================================================================
