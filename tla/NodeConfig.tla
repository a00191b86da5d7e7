----------------------------- MODULE NodeConfig -----------------------------
(***************************************************************************)
(* The configuration (src/src/config.rs, src/src/dns_bootstrap/config.rs,  *)
(* src/src/args.rs): what config.toml may say, what is refused, and what   *)
(* the node makes of it.                                                   *)
(*                                                                         *)
(* A field or a section that may be left out is a sequence of at most one  *)
(* value.  Of the fields, those are kept that are checked, have a default  *)
(* or set a period; an address is "ok" or "bad", a node name is its length *)
(* in bytes.                                                               *)
(***************************************************************************)
EXTENDS Integers, Sequences

CONSTANT U64   \* 2^64: what an integer of the configuration wraps at
ASSUME U64Assumption == U64 \in Nat /\ U64 > 3600

None == <<>>
Some(v) == <<v>>
UnwrapOr(option, v) == IF option = None THEN v ELSE option[1]

(***************************************************************************)
(* The types serde gives the fields: what config.toml can say.  rpc_* and  *)
(* the fields of probing that set neither a period nor a timeout are left  *)
(* out.                                                                    *)
(***************************************************************************)
Option(S) == {o \in Seq(S) : Len(o) <= 1}
Word == 0 .. U64 - 1
LdkToml == [port : Option(0 .. 65535), name : Option(Nat), addrs : Seq({"ok", "bad"})]
RgsToml == [enabled : Option(BOOLEAN), hours : Option(Word)]
ProbingToml == [interval : Word, timeout : Option(Word)]
DnsToml == [enabled : Option(BOOLEAN), seeds : Option(Seq(STRING)), timeout : Option(Word),
            num : Option(Word), interval : Option(Word)]
Toml == [network : Option(STRING), ldk : Option(LdkToml), rgs : Option(RgsToml),
         probing : Option(ProbingToml), dns : Option(DnsToml)]

\* The default functions of the fields.
DefaultNetwork == "testnet"
DefaultPeerPort == 9735
DefaultRgsInterval == 6
DefaultProbeTimeout == 60
DefaultDns == [enabled |-> TRUE, seeds |-> <<"nodes.lightning.wiki", "lseed.bitcoinstats.com">>,
               timeout |-> 30, num |-> 10, interval |-> 300]

(***************************************************************************)
(* toml::from_str: the fields left out of a section that is there get      *)
(* their defaults; a section left out gets the Default of its type, which  *)
(* is derived for LdkConfig and written out for RapidGossipSyncConfig.     *)
(* Probing and DNS bootstrap are off without their sections.               *)
(***************************************************************************)
LdkSection(option) ==
  IF option = None
    THEN [port |-> 0, name |-> None, addrs |-> <<>>]
    ELSE [option[1] EXCEPT !.port = UnwrapOr(@, DefaultPeerPort)]

DefaultRgs == [enabled |-> TRUE, hours |-> 6]

RgsSection(option) ==
  IF option = None
    THEN DefaultRgs
    ELSE [enabled |-> UnwrapOr(option[1].enabled, TRUE),
          hours |-> UnwrapOr(option[1].hours, DefaultRgsInterval)]

ProbingSection(option) ==
  IF option = None THEN None
  ELSE Some([interval |-> option[1].interval,
             timeout |-> UnwrapOr(option[1].timeout, DefaultProbeTimeout)])

DnsField(section, f) == UnwrapOr(section[f], DefaultDns[f])

DnsSection(option) ==
  IF option = None THEN None
  ELSE Some([f \in DOMAIN DefaultDns |-> DnsField(option[1], f)])

Parsed(toml) ==
  [network |-> UnwrapOr(toml.network, DefaultNetwork),
   ldk |-> LdkSection(toml.ldk),
   rgs |-> RgsSection(toml.rgs),
   probing |-> ProbingSection(toml.probing),
   dns |-> DnsSection(toml.dns)]

\* Mutant: the interval of an enabled DNS bootstrap is not checked.
ValidateNoDnsInterval(c) ==
  /\ c.network \in {"mainnet", "testnet", "regtest", "signet"}
  /\ \A i \in DOMAIN c.ldk.addrs : c.ldk.addrs[i] = "ok"
  /\ c.ldk.name # None => c.ldk.name[1] <= 32
  /\ ~(c.rgs.enabled /\ c.rgs.hours = 0)
  /\ c.probing # None => c.probing[1].interval # 0 /\ c.probing[1].timeout # 0
  /\ c.dns # None /\ c.dns[1].enabled =>
       c.dns[1].seeds # <<>> /\ c.dns[1].timeout # 0 /\ c.dns[1].num # 0

\* validate
Validate(c) ==
  /\ c.network \in {"mainnet", "testnet", "regtest", "signet"}
  /\ \A i \in DOMAIN c.ldk.addrs : c.ldk.addrs[i] = "ok"
  /\ c.ldk.name # None => c.ldk.name[1] <= 32
  /\ ~(c.rgs.enabled /\ c.rgs.hours = 0)
  /\ c.probing # None => c.probing[1].interval # 0 /\ c.probing[1].timeout # 0
  /\ c.dns # None /\ c.dns[1].enabled =>
       /\ c.dns[1].seeds # <<>>
       /\ c.dns[1].timeout # 0
       /\ c.dns[1].interval # 0
       /\ c.dns[1].num # 0

(***************************************************************************)
(* load, of the data directory's files: config.toml, or None, whether it   *)
(* is garbled (unreadable, no TOML, an unknown or a missing field), and    *)
(* whether there is a config.json.                                         *)
(***************************************************************************)
Load(file) ==
  IF file.toml = None
    THEN IF file.json THEN "DeprecatedJsonConfig" ELSE "FileNotFound"
    ELSE IF file.garbled THEN "ParseError"
    ELSE IF ~Validate(Parsed(file.toml[1])) THEN "ValidationError"
    ELSE "ok"

\* Mutant: signet is not told apart from testnet.
GetNetworkNoSignet(c) ==
  CASE c.network = "mainnet" -> "Bitcoin"
    [] c.network = "regtest" -> "Regtest"
    [] OTHER -> "Testnet"

\* get_network
GetNetwork(c) ==
  CASE c.network = "mainnet" -> "Bitcoin"
    [] c.network = "testnet" -> "Testnet"
    [] c.network = "regtest" -> "Regtest"
    [] c.network = "signet" -> "Signet"
    [] OTHER -> "Testnet"

\* The chain bitcoind must be on.
ChainOf(network) ==
  CASE network = "Bitcoin" -> "main"
    [] network = "Regtest" -> "regtest"
    [] network = "Signet" -> "signet"
    [] OTHER -> "test"

\* The periods in seconds of the tasks that are started.
RgsPeriod(c) == (c.rgs.hours * 3600) % U64

Periods(c) ==
  (IF c.rgs.enabled THEN {[task |-> "rgs", period |-> RgsPeriod(c)]} ELSE {}) \cup
  (IF c.probing # None THEN {[task |-> "probing", period |-> c.probing[1].interval]} ELSE {}) \cup
  (IF c.dns # None /\ c.dns[1].enabled
     THEN {[task |-> "dns", period |-> c.dns[1].interval]} ELSE {})
=============================================================================
