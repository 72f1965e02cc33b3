------------------------------ MODULE MCCorpus ------------------------------
EXTENDS Corpus

\* Which members sign a version of the fixture.
Spread(v) == IF v = 0 THEN {0, 2} ELSE {1, 2}

\* Which programs are started first, second and third: those that leave nothing behind
\* first, and prover by itself, which replaces what the others have left, last.
Schedule(k) ==
  CASE k = 1 -> {"fixture", "demo", "raw"}
    [] k = 2 -> {"fixture", "prover", "honest-only"}
    [] OTHER -> {"fixture", "prover", "honest-only", "self"}
=============================================================================
