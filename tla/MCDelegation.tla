----------------------------- MODULE MCDelegation -----------------------------
(***************************************************************************)
(* Small clusters for TLC.                                                 *)
(***************************************************************************)
EXTENDS Delegation, TLC

CONSTANTS a, b, c, s

\* The dashboard's bot s may ask a and b, which may ask each other.
MutualPeers == (a :> {b}) @@ (b :> {a}) @@ (s :> {a, b})

\* The dashboard's bot s may ask a only; a and b may ask each other.
OneWayIn == (a :> {b}) @@ (b :> {a}) @@ (s :> {a})

\* Nobody can be asked, over any number of hops, by itself.
AcyclicPeers == (a :> {b, c}) @@ (b :> {c}) @@ (c :> {}) @@ (s :> {a, b})

\* A chain that can come back to its first bot.
RingPeers == (a :> {b}) @@ (b :> {c}) @@ (c :> {a}) @@ (s :> {a})
===============================================================================
