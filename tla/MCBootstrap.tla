---------------------------- MODULE MCBootstrap ----------------------------
(***************************************************************************)
(* The instance of DnsBootstrap for TLC: the configurations it starts      *)
(* with.  All but the DNS section are tried with DNS bootstrap off.        *)
(***************************************************************************)
EXTENDS DnsBootstrap

Opt(S) == {None} \cup {Some(v) : v \in S}

\* Only the required section.
Minimal == [network |-> None, ldk |-> None, rgs |-> None, probing |-> None, dns |-> None]

McToml ==
  {[Minimal EXCEPT !.network = n] :
     n \in Opt({"mainnet", "testnet", "regtest", "signet", "bitcoin"})} \cup
  {[Minimal EXCEPT !.ldk = Some(l)] :
     l \in [port : Opt({0, 1}), name : Opt({32, 33}), addrs : {<<>>, <<"ok">>, <<"ok", "bad">>}]} \cup
  \* 4096 hours are 0 seconds modulo 2^16.
  {[Minimal EXCEPT !.rgs = Some(r)] :
     r \in [enabled : Opt(BOOLEAN), hours : Opt({0, 1, 4096})]} \cup
  {[Minimal EXCEPT !.probing = Some(p)] :
     p \in [interval : {0, 1}, timeout : Opt({0, 1})]} \cup
  \* The default seeds; one that never answers and another; none.
  {[Minimal EXCEPT !.dns = Some(d)] :
     d \in [enabled : Opt({FALSE}), seeds : Opt({<<>>, <<"mute", "a">>}), timeout : Opt({0}),
            num : {Some(0), Some(2)}, interval : Opt({0})]}

McFiles ==
  {[toml |-> Some(t), garbled |-> FALSE, json |-> FALSE] : t \in McToml} \cup
  {[toml |-> Some(Minimal), garbled |-> TRUE, json |-> FALSE]} \cup
  {[toml |-> None, garbled |-> FALSE, json |-> j] : j \in BOOLEAN}
=============================================================================
