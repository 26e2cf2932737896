------------------------- MODULE MCDnsTestLifecycle -------------------------
(* Small instances of DnsTestLifecycle for TLC. *)
EXTENDS DnsTestLifecycle, TLC

CONSTANTS t1, t2, t3, a1, c1, c2, d1, d2

OneTest == {t1}
TwoTests == {t1, t2}
ThreeTests == {t1, t2, t3}
ThreeAndAutonomous == {t1, t2, t3, a1}
NoTests == {}
TheAutonomous == {a1}
OneCred == {c1}
TwoCreds == {c1, c2}
OneDeleter == {d1}
TwoDeleters == {d1, d2}

ApiKinds == {"plain", "search"}

TestSymmetry == Permutations(TwoTests) \cup Permutations(TwoDeleters)
CapSymmetry == Permutations(ThreeTests) \cup Permutations(TwoCreds)
DeleterSymmetry == Permutations(TwoDeleters)
=============================================================================
