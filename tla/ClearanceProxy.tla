--------------------------- MODULE ClearanceProxy ---------------------------
(***************************************************************************)
(* The forward proxy of packages/clearance/src/index.ts: CONNECT tunnels   *)
(* and plain HTTP requests, the check of their targets, and the cache of   *)
(* the addresses that host names resolve to.                               *)
(*                                                                         *)
(* Each connection carries one request.  What Node's sockets do by         *)
(* themselves (half-closed ends, pipes that end with their source, the     *)
(* agent's queue) is part of the actions; the bytes are not.               *)
(***************************************************************************)
EXTENDS ClearanceConfig, FiniteSets

CONSTANTS
  Conns,        \* the connections that clients may make
  Environments, \* the settings the proxy may be started with
  Requests,     \* what may be asked on each connection
  Answers,      \* what a lookup may answer: sequences of addresses
  Addresses,    \* [ip, family], family 0 for what is no IP address
  PrivateIps,   \* the ips that the two block lists contain
  MaxTime,
  NoTarget, NoAddress

ASSUME ProxyAssumption ==
  /\ MaxTime \in Nat
  /\ Answers \subseteq Seq(Addresses)
  /\ NoAddress \notin Addresses
  /\ \A c \in Conns : \A r \in Requests[c] :
       /\ r = [kind |-> r.kind, ok |-> r.ok, text |-> r.text, port |-> r.port, body |-> r.body]
       /\ r.kind \in {"connect", "http"} /\ r.body \in BOOLEAN
       /\ r.body => r.kind = "http"

VARIABLES
  now,
  config,    \* of the proxy that runs; ok = FALSE: the start was refused
  cache,     \* dnsCache: for a host its first address, until when it is used and, as history,
             \* when it was asked for
  request,
  handler,   \* "idle", "resolving", "refused" or "relaying"
  asked,     \* resolveHost's now
  target,    \* the host, port and address that authorize answered
  client,    \* "none", "open", "half" (it has ended), "ending" (we have), "closed"
  uploading, \* the request's body has not been read to its end
  watched,   \* the client's close destroys the upstream
  upstream,  \* "none", "queued" (for a socket of the agent), "dialing", "connected" (a plain
             \* request before its response), "open", "closed"
  answers,   \* the status lines written to the client: the first, and those after it
  learned    \* history: when the lookup began that told the address

netVars == <<client, uploading, watched, upstream, answers>>
vars == <<now, config, cache, request, handler, asked, target, learned, netVars>>

\* A URL that names no port, or 80.
NoPort == -1

ParseTarget(r) ==
  IF r.kind = "http" /\ r.port = NoPort THEN [r EXCEPT !.port = 80] ELSE r

\* CONNECT's target or the request's URL does not parse, or the URL is not http:.
IsMalformed(r) ==
  \/ ~r.ok
  \/ r.kind = "connect" /\ ~IsValidPort(r.port)

NoRequest == [kind |-> "none"]

Names == {NormalizeHost(r.text) : r \in UNION {Requests[c] : c \in Conns}}
Silence == [first |-> "none", later |-> {}]
NoEntry == [first |-> NoAddress, until |-> 0, since |-> 0]

Init ==
  /\ now = 0
  /\ \E env \in Environments : config = ResolveClearanceConfig(env)
  /\ cache = [h \in Names |-> NoEntry]
  /\ request = [c \in Conns |-> NoRequest]
  /\ handler = [c \in Conns |-> "idle"]
  /\ asked = [c \in Conns |-> 0]
  /\ target = [c \in Conns |-> NoTarget]
  /\ client = [c \in Conns |-> "none"]
  /\ uploading = [c \in Conns |-> FALSE]
  /\ watched = [c \in Conns |-> FALSE]
  /\ upstream = [c \in Conns |-> "none"]
  /\ answers = [c \in Conns |-> Silence]
  /\ learned = [c \in Conns |-> 0]

Tick == now < MaxTime /\ now' = now + 1
        /\ UNCHANGED <<config, cache, request, handler, asked, target, learned, netVars>>

IsHttp(c) == request[c].kind = "http"
Listens(c) == client[c] \in {"open", "half"}

\* A status line is written.
With(written, status) ==
  IF written.first = "none" THEN [first |-> status, later |-> {}]
  ELSE [first |-> written.first, later |-> written.later \cup {status}]

\* socketReply and httpReply: nothing is written to a socket that is destroyed.  The answer
\* to a plain request ends its connection, a socket's only our half of it.
Reply(c, status) ==
  /\ answers' = IF Listens(c) THEN [answers EXCEPT ![c] = With(@, status)] ELSE answers
  /\ client' = [client EXCEPT ![c] =
       IF ~Listens(c) THEN @
       ELSE IF @ = "half" \/ IsHttp(c) THEN "closed" ELSE "ending"]

(* Addresses. *)

IsBlocked(ip) == config.blockPrivate /\ ip \in PrivateIps

\* Mutant: the answer of a lookup is taken as it is.
UsableUnfiltered(records) == {i \in DOMAIN records : records[i].family \in {4, 6}}

\* The addresses of a lookup that may be used, by their places in the answer.
Usable(records) ==
  {i \in DOMAIN records : records[i].family \in {4, 6} /\ ~IsBlocked(records[i].ip)}

\* Sorted by family, which keeps the order otherwise.  Only the first is ever used.
ComesFirst(i, records) ==
  /\ i \in Usable(records)
  /\ \A j \in Usable(records) :
       \/ records[i].family < records[j].family
       \/ records[i].family = records[j].family /\ i <= j

\* Mutant: the entry expires a TTL after the answer, not after the question.
ExpiryFromAnswer(c) == now + config.dnsTtl

Expiry(c) == asked[c] + config.dnsTtl

IsFresh(h) == cache[h].first # NoAddress /\ cache[h].until > now

Direct(h) == [ip |-> h.labels, family |-> IF h.is = "ip4" THEN 4 ELSE 6]

\* The sockets of the agent for one target: requests wait when there are maxSockets.
Sockets(t) ==
  {d \in Conns : /\ IsHttp(d) /\ upstream[d] \in {"dialing", "connected", "open"}
                 /\ target[d].at = t.at /\ target[d].port = t.port}

\* After authorize: the upstream is made, then the client's close is listened to: a close
\* that has already happened is not heard.  since: when the address was asked for.
Dial(c, r, address, since) ==
  LET t == [host |-> NormalizeHost(r.text), port |-> r.port, at |-> address] IN
  /\ target' = [target EXCEPT ![c] = t]
  /\ upstream' = [upstream EXCEPT ![c] =
       IF r.kind = "http" /\ Cardinality(Sockets(t)) >= config.maxSockets
       THEN "queued" ELSE "dialing"]
  /\ handler' = [handler EXCEPT ![c] = "relaying"]
  /\ watched' = [watched EXCEPT ![c] = client[c] # "closed"]
  /\ learned' = [learned EXCEPT ![c] = since]

Deny(c) == handler' = [handler EXCEPT ![c] = "refused"] /\ Reply(c, "403")

(* The handlers of a request. *)

\* The server accepts a connection while there are fewer than maxConnections.
Accept(c) ==
  /\ config.ok /\ client[c] = "none"
  /\ Cardinality({d \in Conns : client[d] \notin {"none", "closed"}}) < config.maxSockets
  /\ client' = [client EXCEPT ![c] = "open"]
  /\ UNCHANGED <<now, config, cache, request, handler, asked, target, learned,
                 uploading, watched, upstream, answers>>

Permitted(host, port) == host # NoHost /\ port \in config.ports /\ HostAllowed(host, config.rules)

IsForbidden(host, port) ==
  ~Permitted(host, port) \/ (host.is # "name" /\ IsBlocked(host.labels))

\* Of a request that is refused only the kind matters any more.
Refuse(c, r, status) ==
  /\ request' = [request EXCEPT ![c] = [kind |-> r.kind]]
  /\ handler' = [handler EXCEPT ![c] = "refused"]
  /\ answers' = [answers EXCEPT ![c] = With(@, status)]
  /\ client' = [client EXCEPT ![c] = IF r.kind = "http" THEN "closed" ELSE "ending"]
  /\ UNCHANGED <<cache, target, learned, watched, upstream>>

\* handleConnect or handleHttpRequest up to the first await: the request is parsed,
\* authorized and, when its address is known, dialed.
Ask(c, raw) ==
  LET r == ParseTarget(raw)
      host == NormalizeHost(r.text)
  IN
  /\ handler[c] = "idle" /\ client[c] = "open" /\ request[c] = NoRequest
  /\ uploading' = [uploading EXCEPT ![c] = r.body]
  /\ asked' = [asked EXCEPT ![c] = now]
  /\ \/ IsMalformed(r) /\ Refuse(c, r, "400")
     \/ ~IsMalformed(r) /\ IsForbidden(host, r.port) /\ Refuse(c, r, "403")
     \/ /\ ~IsMalformed(r) /\ ~IsForbidden(host, r.port)
        /\ request' = [request EXCEPT ![c] = r]
        /\ \/ host.is # "name" /\ Dial(c, r, Direct(host), now) /\ UNCHANGED cache
           \/ /\ host.is = "name" /\ IsFresh(host)
              /\ Dial(c, r, cache[host].first, cache[host].since)
              /\ UNCHANGED cache
           \/ /\ host.is = "name" /\ ~IsFresh(host)
              /\ handler' = [handler EXCEPT ![c] = "resolving"]
              /\ cache' = [cache EXCEPT ![host] = NoEntry]
              /\ UNCHANGED <<target, learned, watched, upstream>>
        /\ UNCHANGED <<answers, client>>
  /\ UNCHANGED <<now, config>>

\* dnsLookup answers: the rest of resolveHost, and what awaits it.
LookupAnswers(c, records) ==
  LET host == NormalizeHost(request[c].text) IN
  /\ handler[c] = "resolving"
  /\ \/ /\ Usable(records) = {}
        /\ Deny(c)
        /\ UNCHANGED <<cache, target, learned, watched, upstream>>
     \/ \E i \in DOMAIN records :
          /\ ComesFirst(i, records)
          /\ cache' = IF config.dnsTtl = 0 THEN cache
                      ELSE [cache EXCEPT ![host] =
                              [first |-> records[i], until |-> Expiry(c), since |-> asked[c]]]
          /\ Dial(c, request[c], records[i], asked[c])
          /\ UNCHANGED <<answers, client>>
  /\ UNCHANGED <<now, config, request, asked, uploading>>

LookupFails(c) ==
  /\ handler[c] = "resolving"
  /\ Deny(c)
  /\ UNCHANGED <<now, config, cache, request, asked, target, learned, uploading, watched,
                 upstream>>

(* The two sockets. *)

KeepRest == UNCHANGED <<now, config, cache, request, handler, asked, target, learned>>

Live(c) == upstream[c] \in {"queued", "dialing", "connected", "open"}

\* The client's socket or response is closed before its end; its listener, if it was added
\* in time, destroys the upstream.
ClientCloses(c) ==
  /\ client' = [client EXCEPT ![c] = "closed"]
  /\ upstream' = [upstream EXCEPT ![c] = IF watched[c] /\ Live(c) THEN "closed" ELSE @]
  /\ UNCHANGED <<uploading, watched, answers>>
  /\ KeepRest

ClientLeaves(c) == client[c] \in {"open", "half", "ending"} /\ ClientCloses(c)

\* The idle timer of the client's socket: armed by handleConnect at once, and by
\* handleHttpRequest from the dialing on until the request is read or the upstream closed.
ClientIdles(c) ==
  /\ client[c] \in {"open", "half", "ending"} /\ handler[c] # "idle"
  /\ \/ request[c].kind = "connect"
     \/ IsHttp(c) /\ uploading[c] /\ Live(c)
  /\ ClientCloses(c)

\* The client ends its half of a tunnel.
ClientEnds(c) ==
  /\ handler[c] # "idle" /\ request[c].kind = "connect"
  /\ \/ client[c] = "ending" /\ ClientCloses(c)
     \/ /\ client[c] = "open"
        /\ client' = [client EXCEPT ![c] = "half"]
        /\ UNCHANGED <<uploading, watched, upstream, answers>>
        /\ KeepRest

\* req's end, or a body that does not parse: clientError answers 400 on the socket, whatever
\* has been written to it.
UploadEnds(c) ==
  /\ uploading[c] /\ client[c] = "open" /\ Live(c)
  /\ uploading' = [uploading EXCEPT ![c] = FALSE]
  /\ UNCHANGED <<client, watched, upstream, answers>>
  /\ KeepRest

UploadBreaks(c) ==
  /\ uploading[c] /\ client[c] = "open"
  /\ answers' = [answers EXCEPT ![c] = With(@, "400")]
  /\ client' = [client EXCEPT ![c] = "ending"]
  /\ UNCHANGED <<uploading, watched, upstream>>
  /\ KeepRest

\* The agent has a socket for the next request.
Dequeue(c) ==
  /\ upstream[c] = "queued"
  /\ Cardinality(Sockets(target[c])) < config.maxSockets
  /\ upstream' = [upstream EXCEPT ![c] = "dialing"]
  /\ UNCHANGED <<client, uploading, watched, answers>>
  /\ KeepRest

\* The socket of a plain request is connected.
RemoteConnects(c) ==
  /\ upstream[c] = "dialing" /\ IsHttp(c)
  /\ upstream' = [upstream EXCEPT ![c] = "connected"]
  /\ UNCHANGED <<client, uploading, watched, answers>>
  /\ KeepRest

\* The tunnel is established, or the response of the remote host begins.
RemoteAccepts(c) ==
  /\ upstream[c] = IF IsHttp(c) THEN "connected" ELSE "dialing"
  /\ IsHttp(c) => watched[c]
  /\ upstream' = [upstream EXCEPT ![c] = "open"]
  /\ answers' = IF Listens(c)
                THEN [answers EXCEPT ![c] = With(@, IF IsHttp(c) THEN "relayed" ELSE "200")]
                ELSE answers
  /\ UNCHANGED <<client, uploading, watched>>
  /\ KeepRest

\* The remote host ends its half, which ends ours, or its response: the pipe ends the
\* client's.
RemoteEnds(c) ==
  /\ upstream[c] = "open"
  /\ upstream' = [upstream EXCEPT ![c] = "closed"]
  /\ client' = [client EXCEPT ![c] =
       IF ~Listens(c) THEN @ ELSE IF @ = "half" \/ IsHttp(c) THEN "closed" ELSE "ending"]
  /\ UNCHANGED <<uploading, watched, answers>>
  /\ KeepRest

\* Mutant: an error is answered whether the tunnel is established or not.
AfterErrorAlways(c) == Reply(c, "502")

\* The upstream's error: told to a client that has had no answer, otherwise passed on.
AfterError(c) ==
  IF upstream[c] = "open"
  THEN /\ client' = [client EXCEPT ![c] = "closed"]
       /\ UNCHANGED answers
  ELSE Reply(c, "502")

UpstreamFails(c) ==
  /\ upstream' = [upstream EXCEPT ![c] = "closed"]
  /\ AfterError(c)
  /\ UNCHANGED <<uploading, watched>>
  /\ KeepRest

RemoteFails(c) == upstream[c] \in {"dialing", "connected", "open"} /\ UpstreamFails(c)

\* Mutant: an upstream has no timer until it is established.
UpstreamIdlesWhenOpen(c) == upstream[c] = "open" /\ UpstreamFails(c)

\* The idle timer of the upstream's socket destroys it with an error.  handleConnect sets it
\* on the socket at once; ClientRequest.setTimeout arms it when the socket is connected, so
\* that it does not run while a plain request is queued or dialed.
UpstreamIdles(c) ==
  /\ upstream[c] \in {IF IsHttp(c) THEN "connected" ELSE "dialing", "open"}
  /\ UpstreamFails(c)

\* A response that breaks off without an error of the socket: upstreamReq has no error to
\* tell, and the pipe does not end the client's response.
ResponseBreaksOff(c) ==
  /\ upstream[c] = "open" /\ IsHttp(c)
  /\ upstream' = [upstream EXCEPT ![c] = "closed"]
  /\ UNCHANGED <<client, uploading, watched, answers>>
  /\ KeepRest

Next ==
  \/ Tick
  \/ \E c \in Conns :
       \/ Accept(c)
       \/ \E r \in Requests[c] : Ask(c, r)
       \/ \E records \in Answers : LookupAnswers(c, records)
       \/ LookupFails(c)
       \/ ClientLeaves(c) \/ ClientIdles(c) \/ ClientEnds(c)
       \/ UploadEnds(c) \/ UploadBreaks(c)
       \/ Dequeue(c)
       \/ RemoteConnects(c) \/ RemoteAccepts(c) \/ RemoteEnds(c) \/ RemoteFails(c)
       \/ UpstreamIdles(c) \/ ResponseBreaksOff(c)

Spec == Init /\ [][Next]_vars

\* An attempt to connect ends by itself: TCP gives it up after some time.
DialEnds(c) == upstream[c] = "dialing" /\ IsHttp(c) /\ (RemoteConnects(c) \/ RemoteFails(c))

\* Besides, the timers of a socket whose other side is gone: its pipe is undone and nobody
\* reads it, so that nothing passes on it any more.
TimersRun ==
  \A c \in Conns :
    /\ WF_vars(DialEnds(c))
    /\ WF_vars(client[c] = "closed" /\ UpstreamIdles(c))
    /\ WF_vars(upstream[c] = "closed" /\ ClientIdles(c))

FairSpec == Spec /\ TimersRun

TypeOK ==
  /\ now \in 0..MaxTime
  /\ handler \in [Conns -> {"idle", "resolving", "refused", "relaying"}]
  /\ client \in [Conns -> {"none", "open", "half", "ending", "closed"}]
  /\ upstream \in [Conns -> {"none", "queued", "dialing", "connected", "open", "closed"}]
  /\ uploading \in [Conns -> BOOLEAN] /\ watched \in [Conns -> BOOLEAN]
  /\ asked \in [Conns -> 0..MaxTime] /\ learned \in [Conns -> 0..MaxTime]
  /\ \A h \in Names : cache[h].since \in 0..MaxTime

\* The proxy reaches only hosts and ports that its rules allow, and no address that it
\* blocks, whether the address was asked for, remembered or written in the request.
TargetsArePermitted ==
  \A c \in Conns : upstream[c] # "none" =>
    /\ Permitted(target[c].host, target[c].port)
    /\ ~IsBlocked(target[c].at.ip)

\* An address that is used was asked for by this request, or less than the TTL before it:
\* neither a slow lookup nor one that is overtaken by another keeps an address for longer.
FreshAddresses ==
  \A c \in Conns : upstream[c] # "none" =>
    learned[c] = asked[c] \/ asked[c] < learned[c] + config.dnsTtl

\* A client reads one status line, however errors, timeouts and closes race; only a body
\* that fails to parse adds its 400 to a response that is under way.
OneAnswer ==
  \A c \in Conns : answers[c].later # {} =>
    answers[c].first = "relayed" /\ answers[c].later = {"400"}

\* No tunnel outlives one of its sides: a connection that is left, even before the proxy
\* listens for that, does not keep its upstream, and the reverse.
TunnelsEnd ==
  \A c \in Conns :
    /\ (client[c] = "closed" /\ upstream[c] \in {"dialing", "connected", "open"})
         ~> upstream[c] = "closed"
    /\ (upstream[c] = "closed" /\ request[c].kind = "connect") ~> client[c] = "closed"
=============================================================================
