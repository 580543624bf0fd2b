----------------------------- MODULE MCContacts -----------------------------
(***************************************************************************)
(* An instance of Contacts for TLC: a matchmaker, two SaYi and two EiAr    *)
(* bots.                                                                   *)
(***************************************************************************)
EXTENDS Contacts, TLC

CONSTANTS e1, e2, s1, s2, k1, t1

\* The tasks are those of the one matchmaker.
OneOwner == [t \in Task |-> k1]

\* Every bot knows skaye_sv, the matchmaker its partner; besides, the first EiAr bot is
\* known to the matchmaker and knows s2 (bots/*/bot.yaml).
KnownPeers0 == (k1 :> {Sv, s1, e1}) @@ (e1 :> {Sv, s2}) @@ [b \in Bot |-> {Sv}]

\* One EiAr bot comes up while the others are at work.
MCEarly == Bot \ {e1}
=============================================================================
