------------------------------ MODULE MCBandRunner -----------------------------
EXTENDS BandRunner, TLC

CONSTANTS t1, t2, t3, scout, clerk

Setup(n1, n2, n3, r3) ==
  [target |-> (t1 :> n1) @@ (t2 :> n2) @@ (t3 :> n3),
   rank |-> (t1 :> 1) @@ (t2 :> 1) @@ (t3 :> r3)]

\* scout has tools, clerk has none.  Two of a band share a node and t3 comes in
\* a band before or after; or all three are one band.
MCSetups ==
  {Setup(scout, scout, clerk, 2), Setup(clerk, clerk, scout, 0), Setup(scout, clerk, clerk, 1)}

MCCreated == (t1 :> 1) @@ (t2 :> 2) @@ (t3 :> 3)
================================================================================
