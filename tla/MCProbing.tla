----------------------------- MODULE MCProbing -----------------------------
(***************************************************************************)
(* Instances of Probing for TLC.                                           *)
(***************************************************************************)
EXTENDS Probing

\* A good entry, an unusable one and one with a bad key; two amounts in the
\* wrong order.
McPeers == <<"valid", "empty", "badkey">>
McAmounts == <<2, 1>>
=============================================================================
