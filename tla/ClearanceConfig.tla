-------------------------- MODULE ClearanceConfig --------------------------
(***************************************************************************)
(* The settings of packages/clearance: the rules of the hosts that may be  *)
(* reached (hostRule.ts, allowlist.ts) and resolveClearanceConfig of       *)
(* index.ts.                                                               *)
(*                                                                         *)
(* A host as it is written is a record: what it is ("name", "ip4", "ip6"   *)
(* or "malformed"), its labels, and the ways of writing it that            *)
(* normalization removes or refuses.  A normalized host has none of them.  *)
(***************************************************************************)
EXTENDS Integers, Sequences, SequencesExt

NoHost == [is |-> "none", labels |-> <<>>]

\* The written host has an empty text, a space, a slash, a percent sign, a star or, when it
\* is no address, a colon or an at sign: is = "malformed".  bracketed: [...]; dotted: one
\* trailing dot, which is dropped.
NormalizeHost(t) ==
  IF t.is = "malformed" \/ (t.bracketed /\ t.is = "name")
  THEN NoHost
  ELSE [is |-> t.is, labels |-> t.labels]

\* A rule is a host, or "*." and a name.
NormalizeRule(t) ==
  LET host == NormalizeHost(t)
  IN  [wild |-> t.wild,
       host |-> IF t.wild /\ host.is \in {"ip4", "ip6"} THEN NoHost ELSE host]

NormalizeRules(texts) ==
  {r \in {NormalizeRule(t) : t \in Range(texts)} : r.host # NoHost}

\* hostname.endsWith(suffix) for the suffix ".a.b", and longer than it.  A leading empty
\* label adds the dot that the suffix has, and no more.
IsBelow(host, base) ==
  /\ IsStrictSuffix(base.labels, host.labels)
  /\ host.labels # <<"">> \o base.labels

HostAllowed(host, rules) ==
  \E r \in rules : IF r.wild THEN IsBelow(host, r.host) ELSE host = r.host

IsValidPort(port) == port \in 1..65535

(* A setting: "unset" (or blank), "integer" with its value, or "other". *)

Refused == [ok |-> FALSE, value |-> 0]
Value(v) == [ok |-> TRUE, value |-> v]

ParseIntegerEnv(setting, fallback, range) ==
  CASE setting.text = "unset" -> Value(fallback)
    [] setting.text = "integer" /\ setting.n \in range -> Value(setting.n)
    [] OTHER -> Refused

\* The ports as a set; -1 stands for a text that is no number.
NormalizeAllowedPorts(ports) ==
  IF ports # <<>> /\ \A i \in DOMAIN ports : IsValidPort(ports[i])
  THEN [ok |-> TRUE, value |-> Range(ports)] ELSE [ok |-> FALSE, value |-> {}]

\* The lines of the files of CLEARANCE_ALLOW_HOSTS_FILES, without comments and blanks.  A
\* file that cannot be read refuses the start.
ResolveAllowlist(env) ==
  LET texts == env.hosts \o FlattenSeq([i \in DOMAIN env.files |-> env.files[i].hosts])
      rules == NormalizeRules(texts)
  IN  [ok |-> rules # {} /\ \A i \in DOMAIN env.files : env.files[i].readable,
       value |-> rules]

DefaultAllowedPorts == <<443>>
DefaultPort == 19999
DefaultDnsTtl == 60000
DefaultIdleTimeout == 120000
DefaultMaxSockets == 1024

\* What the proxy starts with, or ok = FALSE when the start is refused.
ResolveClearanceConfig(env) ==
  LET rules == ResolveAllowlist(env)
      ports == NormalizeAllowedPorts(IF env.portsSet THEN env.ports ELSE DefaultAllowedPorts)
      ttl   == ParseIntegerEnv(env.dnsTtl, DefaultDnsTtl, Nat)
      idle  == ParseIntegerEnv(env.idleTimeout, DefaultIdleTimeout, Nat \ {0})
      limit == ParseIntegerEnv(env.maxSockets, DefaultMaxSockets, Nat \ {0})
      port  == ParseIntegerEnv(env.port, DefaultPort, 1..65535)
  IN  [ok |-> rules.ok /\ ports.ok /\ ttl.ok /\ idle.ok /\ limit.ok /\ port.ok,
       rules |-> rules.value, ports |-> ports.value, dnsTtl |-> ttl.value,
       maxSockets |-> limit.value, blockPrivate |-> ~env.allowPrivate]
=============================================================================
