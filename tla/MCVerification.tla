--------------------------- MODULE MCVerification ---------------------------
EXTENDS Verification

CONSTANTS k1, k2, k3, m1, m2, l1, l2

\* A 2-of-3 and a 1-of-1 committee, an ML-DSA committee, and two anchors that
\* are refused: a member named twice, and no threshold.
Wires ==
  {[tag |-> WotsXmss, members |-> <<k1, k2, k3>>, t |-> 2, genesis |-> 0],
   [tag |-> WotsXmss, members |-> <<k3>>, t |-> 1, genesis |-> 1],
   [tag |-> WotsXmss, members |-> <<k1, k2, k1>>, t |-> 2, genesis |-> 0],
   [tag |-> WotsXmss, members |-> <<k2>>, t |-> 0, genesis |-> 0],
   [tag |-> MlDsa65, members |-> <<m2, m1>>, t |-> 2, genesis |-> 0]}
=============================================================================
