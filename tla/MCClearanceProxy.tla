-------------------------- MODULE MCClearanceProxy --------------------------
\* A small instance of ClearanceProxy.
EXTENDS ClearanceProxy

CONSTANTS c1, c2

Host(is, labels) ==
  [is |-> is, labels |-> labels, bracketed |-> FALSE, dotted |-> FALSE, wild |-> FALSE]
Wild(labels) == [Host("name", labels) EXCEPT !.wild = TRUE]
Bracketed(t) == [t EXCEPT !.bracketed = TRUE]

Public4 == <<"198.20">>
Private4 == <<"10.0">>
Public6 == <<"2600::">>

MCAddresses ==
  {[ip |-> Public4, family |-> 4], [ip |-> Private4, family |-> 4],
   [ip |-> Public6, family |-> 6], [ip |-> <<"?">>, family |-> 0]}
MCPrivateIps == {Private4}
MCAnswers ==
  {<<[ip |-> Public6, family |-> 6], [ip |-> <<"?">>, family |-> 0],
     [ip |-> Private4, family |-> 4], [ip |-> Public4, family |-> 4]>>,
   <<[ip |-> Private4, family |-> 4], [ip |-> Public6, family |-> 6]>>,
   <<[ip |-> Private4, family |-> 4]>>}

Unset == [text |-> "unset", n |-> 0]
Number(n) == [text |-> "integer", n |-> n]
Env(hosts, files, dnsTtl, maxSockets, allowPrivate) ==
  [hosts |-> hosts, files |-> files, portsSet |-> TRUE, ports |-> <<443, 80, 443>>,
   dnsTtl |-> dnsTtl, idleTimeout |-> Unset, maxSockets |-> maxSockets, port |-> Unset,
   allowPrivate |-> allowPrivate]

Below == <<"a", "x">>
Base == <<"x">>
Rules == <<Wild(Base), Wild(Public4) , Host("malformed", <<>>)>>
Ips == [readable |-> TRUE, hosts |-> <<Host("ip4", Public4), Host("ip4", Private4)>>]

MCEnvironments ==
  {Env(Rules, <<Ips>>, Number(1), Number(2), FALSE),
   Env(Rules, <<Ips>>, Number(1), Number(1), TRUE),
   Env(Rules, <<>>, Number(0), Number(2), FALSE),
   \* refused: a file that cannot be read, no rule, bad numbers, bad ports
   Env(Rules, <<[readable |-> FALSE, hosts |-> <<>>]>>, Unset, Unset, FALSE),
   Env(<<Host("malformed", <<>>)>>, <<>>, Unset, Unset, FALSE),
   Env(Rules, <<>>, Number(-1), Unset, FALSE),
   Env(Rules, <<>>, Unset, Number(0), FALSE),
   [Env(Rules, <<>>, Unset, Unset, FALSE) EXCEPT !.ports = <<443, -1>>]}

Req(kind, text, port, body) ==
  [kind |-> kind, ok |-> TRUE, text |-> text, port |-> port, body |-> body]

\* One client asks for what may be reached, the other for what may not, too.
Good ==
  {Req("connect", Host("name", Below), 443, FALSE),
   Req("http", Host("name", Below), NoPort, TRUE),
   Req("http", Host("name", Below), 443, FALSE)}
Others ==
  {Req("connect", Host("ip4", Private4), 443, FALSE),
   Req("connect", Bracketed(Host("ip4", Public4)), 443, FALSE),
   Req("connect", Bracketed(Host("name", Below)), 443, FALSE),
   Req("connect", Host("name", Base), 443, FALSE),
   Req("connect", Host("name", <<"">> \o Base), 443, FALSE),
   Req("connect", Host("name", Below), 22, FALSE),
   Req("connect", Host("name", Below), 0, FALSE),
   Req("http", Host("name", Below), 0, FALSE),
   [Req("http", Host("malformed", <<>>), 80, FALSE) EXCEPT !.ok = FALSE]}
MCRequests == [c \in Conns |-> IF c = c1 THEN Good ELSE Good \cup Others]
=============================================================================
