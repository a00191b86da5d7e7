--------------------------- MODULE MCConnections ---------------------------
(***************************************************************************)
(* Instances of Connections for TLC: whom the tasks meet.                  *)
(***************************************************************************)
EXTENDS Connections

Meet(b, c, e, i) ==
  [t \in {"bootstrap", "cli", "events", "in"} |->
     CASE t = "bootstrap" -> b [] t = "cli" -> c [] t = "events" -> e [] t = "in" -> i]

\* The bootstrap task is the reconnect task's rival for the channel peer "p";
\* the others meet "r", with which there is no channel.
McReach == Meet({"p"}, {"r"}, {"r"}, {"r"})

\* The reconnect task alone.
McReachNone == Meet({}, {}, {}, {})

\* The channel peers "p", "q" and "z" have two addresses, one and none.
McAddresses == [p \in Peer |-> CASE p = "p" -> 2 [] p = "z" -> 0 [] OTHER -> 1]
=============================================================================
