-------------------------- MODULE Clearance_proofs --------------------------
(***************************************************************************)
(* Theorems about packages/clearance.                                      *)
(*                                                                         *)
(* ClearanceProxy, for every set of connections, settings, requests and    *)
(* answers: what is reached is permitted, no address is kept for longer    *)
(* than its TTL, and nobody is answered twice.                             *)
(*                                                                         *)
(* ClearanceLauncher, for every set of commands: what its commands say and *)
(* the pidfile are right, in the settings each theorem names.              *)
(***************************************************************************)
EXTENDS ClearanceProxy, ClearanceLauncher, TLAPS

-----------------------------------------------------------------------------
(* The proxy. *)

\* The domains and the small types of the state.
Shape ==
  /\ now \in Nat
  /\ config.dnsTtl \in Nat
  /\ DOMAIN cache = Names /\ \A h \in Names : cache[h].until \in Int /\ cache[h].since \in Nat
  /\ DOMAIN request = Conns /\ DOMAIN target = Conns
  /\ handler \in [Conns -> {"idle", "resolving", "refused", "relaying"}]
  /\ asked \in [Conns -> Nat] /\ learned \in [Conns -> Nat]
  /\ client \in [Conns -> {"none", "open", "half", "ending", "closed"}]
  /\ uploading \in [Conns -> BOOLEAN] /\ watched \in [Conns -> BOOLEAN]
  /\ upstream \in [Conns -> {"none", "queued", "dialing", "connected", "open", "closed"}]

\* What the cache remembers may be used until a TTL after it was asked for.
CacheIsRight ==
  \A h \in Names : cache[h].first # NoAddress =>
    ~IsBlocked(cache[h].first.ip) /\ cache[h].until = cache[h].since + config.dnsTtl

\* A lookup is under way only for what may be reached, and an upstream exists only then.
Resolves ==
  \A c \in Conns :
    /\ handler[c] = "resolving" =>
         /\ NormalizeHost(request[c].text) \in Names
         /\ Permitted(NormalizeHost(request[c].text), request[c].port)
    /\ upstream[c] # "none" <=> handler[c] = "relaying"

AInv == Shape /\ CacheIsRight /\ Resolves /\ TargetsArePermitted /\ FreshAddresses

\* A request keeps its text and kind when it is parsed.
LEMMA Parsed ==
  ASSUME NEW c \in Conns, NEW r \in Requests[c]
  PROVE  /\ ParseTarget(r).text = r.text /\ ParseTarget(r).kind = r.kind
         /\ ParseTarget(r).body = r.body
         /\ NormalizeHost(r.text) \in Names
BY ProxyAssumption DEF ParseTarget, Names

\* The TTL of the settings is a natural number, refused or not.
LEMMA TtlIsNat == \A env : ResolveClearanceConfig(env).dnsTtl \in Nat
<1>. TAKE env
<1>. DEFINE setting == env.dnsTtl
<1>1. ParseIntegerEnv(setting, DefaultDnsTtl, Nat).value \in Nat
  <2>1. CASE setting.text = "unset"
    BY <2>1 DEF ParseIntegerEnv, Value, DefaultDnsTtl
  <2>2. CASE setting.text = "integer" /\ setting.n \in Nat
    BY <2>2 DEF ParseIntegerEnv, Value
  <2>3. CASE setting.text # "unset" /\ ~(setting.text = "integer" /\ setting.n \in Nat)
    BY <2>3 DEF ParseIntegerEnv, Refused
  <2>. QED  BY <2>1, <2>2, <2>3
<1>2. ResolveClearanceConfig(env).dnsTtl = ParseIntegerEnv(setting, DefaultDnsTtl, Nat).value
  BY DEF ResolveClearanceConfig
<1>. QED  BY <1>1, <1>2

LEMMA AInit == Init => AInv
<1>. SUFFICES ASSUME Init PROVE AInv
  OBVIOUS
<1>1. config.dnsTtl \in Nat
  BY TtlIsNat DEF Init
<1>. QED
  BY <1>1 DEF Init, AInv, Shape, CacheIsRight, Resolves, TargetsArePermitted, FreshAddresses,
     NoEntry

\* A dialed target is permitted and fresh when its address is.
LEMMA Dials ==
  ASSUME AInv, NEW c \in Conns, NEW r, NEW address, NEW begun \in Nat,
         Dial(c, r, address, begun), config' = config, now' = now, asked' \in [Conns -> Nat],
         \A d \in Conns : d # c => asked'[d] = asked[d],
         DOMAIN request' = Conns, \A d \in Conns : d # c => request'[d] = request[d],
         Permitted(NormalizeHost(r.text), r.port), ~IsBlocked(address.ip),
         begun = asked'[c] \/ asked'[c] < begun + config.dnsTtl,
         uploading' \in [Conns -> BOOLEAN], client' \in [Conns ->
           {"none", "open", "half", "ending", "closed"}],
         DOMAIN cache' = Names, \A h \in Names : cache'[h].until \in Int /\ cache'[h].since \in Nat,
         CacheIsRight'
  PROVE  AInv'
<1>1. Shape'
  BY DEF AInv, Shape, Dial
<1>2. Resolves'
  BY DEF AInv, Shape, Dial, Resolves, Permitted
<1>3. TargetsArePermitted'
  BY DEF AInv, Shape, Dial, TargetsArePermitted, Permitted, IsBlocked
<1>4. FreshAddresses'
  BY DEF AInv, Shape, Dial, FreshAddresses
<1>. QED  BY <1>1, <1>2, <1>3, <1>4 DEF AInv

\* A step that keeps what was authorized, and makes no upstream of none.
LEMMA KeepsAuthorized ==
  ASSUME AInv, now' \in Nat, config' = config, cache' = cache, asked' = asked,
         target' = target, learned' = learned,
         DOMAIN request' = Conns,
         \A c \in Conns : handler'[c] = "resolving" => request'[c] = request[c],
         handler' \in [Conns -> {"idle", "resolving", "refused", "relaying"}],
         \A c \in Conns : handler'[c] \in {"resolving", "relaying"} => handler'[c] = handler[c],
         \A c \in Conns : handler[c] = "relaying" => handler'[c] = "relaying",
         client' \in [Conns -> {"none", "open", "half", "ending", "closed"}],
         uploading' \in [Conns -> BOOLEAN], watched' = watched,
         upstream' \in [Conns -> {"none", "queued", "dialing", "connected", "open", "closed"}],
         \A c \in Conns : upstream'[c] = "none" <=> upstream[c] = "none"
  PROVE  AInv'
<1>1. Shape'
  BY DEF AInv, Shape
<1>2. CacheIsRight'
  BY DEF AInv, CacheIsRight, IsBlocked
<1>3. Resolves'
  BY DEF AInv, Shape, Resolves, Permitted
<1>4. TargetsArePermitted'
  BY DEF AInv, TargetsArePermitted, Permitted, IsBlocked
<1>5. FreshAddresses'
  BY DEF AInv, FreshAddresses
<1>. QED  BY <1>1, <1>2, <1>3, <1>4, <1>5 DEF AInv

\* The parts of the state that a reply leaves alone.
LEMMA Replies ==
  ASSUME AInv, NEW c \in Conns, NEW status, Reply(c, status)
  PROVE  client' \in [Conns -> {"none", "open", "half", "ending", "closed"}]
BY DEF AInv, Shape, Reply

LEMMA AsksKeep ==
  ASSUME AInv, NEW c \in Conns, NEW r \in Requests[c], Ask(c, r)
  PROVE  AInv'
<1>. DEFINE p == ParseTarget(r)
            host == NormalizeHost(p.text)
<1>1. /\ host \in Names /\ p.text = r.text /\ p.body \in BOOLEAN
  BY Parsed, ProxyAssumption
<1>2. /\ handler[c] = "idle" /\ upstream[c] = "none"
      /\ asked' = [asked EXCEPT ![c] = now] /\ uploading' = [uploading EXCEPT ![c] = p.body]
      /\ now' = now /\ config' = config
  BY DEF Ask, AInv, Resolves
<1>3. /\ asked' \in [Conns -> Nat] /\ asked'[c] = now
      /\ \A d \in Conns : d # c => asked'[d] = asked[d]
      /\ uploading' \in [Conns -> BOOLEAN]
  BY <1>1, <1>2 DEF AInv, Shape
<1>4. \/ \E status \in {"400", "403"} : Refuse(c, p, status)
      \/ /\ ~IsForbidden(host, p.port)
         /\ request' = [request EXCEPT ![c] = p]
         /\ UNCHANGED <<answers, client>>
         /\ \/ host.is # "name" /\ Dial(c, p, Direct(host), now) /\ UNCHANGED cache
            \/ /\ IsFresh(host) /\ Dial(c, p, cache[host].first, cache[host].since)
               /\ UNCHANGED cache
            \/ /\ handler' = [handler EXCEPT ![c] = "resolving"]
               /\ cache' = [cache EXCEPT ![host] = NoEntry]
               /\ UNCHANGED <<target, learned, watched, upstream>>
  BY DEF Ask
<1>5. CASE \E status \in {"400", "403"} : Refuse(c, p, status)
  <2>1. /\ handler' = [handler EXCEPT ![c] = "refused"]
        /\ request' = [request EXCEPT ![c] = [kind |-> p.kind]]
        /\ client' = [client EXCEPT ![c] = IF p.kind = "http" THEN "closed" ELSE "ending"]
        /\ UNCHANGED <<cache, target, learned, watched, upstream>>
    BY <1>5 DEF Refuse
  <2>2. Shape'
    BY <1>2, <1>3, <2>1 DEF AInv, Shape
  <2>3. CacheIsRight'
    BY <1>2, <2>1 DEF AInv, CacheIsRight, IsBlocked
  <2>4. Resolves'
    BY <1>2, <2>1 DEF AInv, Shape, Resolves, Permitted
  <2>5. TargetsArePermitted' /\ FreshAddresses'
    BY <1>2, <1>3, <2>1 DEF AInv, TargetsArePermitted, FreshAddresses, Permitted, IsBlocked
  <2>. QED  BY <2>2, <2>3, <2>4, <2>5 DEF AInv
<1>6. ASSUME ~IsForbidden(host, p.port), request' = [request EXCEPT ![c] = p],
             UNCHANGED <<answers, client>>
      PROVE  /\ Permitted(host, p.port) /\ (host.is # "name" => ~IsBlocked(host.labels))
             /\ DOMAIN request' = Conns /\ request'[c] = p
             /\ \A d \in Conns : d # c => request'[d] = request[d]
             /\ client' \in [Conns -> {"none", "open", "half", "ending", "closed"}]
  BY <1>6 DEF IsForbidden, AInv, Shape
<1>7. CASE /\ ~IsForbidden(host, p.port) /\ request' = [request EXCEPT ![c] = p]
           /\ UNCHANGED <<answers, client>>
           /\ host.is # "name" /\ Dial(c, p, Direct(host), now) /\ UNCHANGED cache
  <2>1. ~IsBlocked(Direct(host).ip) /\ now \in Nat
    BY <1>6, <1>7 DEF Direct, AInv, Shape
  <2>2. CacheIsRight' /\ DOMAIN cache' = Names
        /\ \A h \in Names : cache'[h].until \in Int /\ cache'[h].since \in Nat
    BY <1>2, <1>7 DEF AInv, Shape, CacheIsRight, IsBlocked
  <2>. QED  BY <1>2, <1>3, <1>6, <1>7, <2>1, <2>2, Dials
<1>8. CASE /\ ~IsForbidden(host, p.port) /\ request' = [request EXCEPT ![c] = p]
           /\ UNCHANGED <<answers, client>>
           /\ IsFresh(host) /\ Dial(c, p, cache[host].first, cache[host].since)
           /\ UNCHANGED cache
  <2>1. /\ ~IsBlocked(cache[host].first.ip) /\ cache[host].since \in Nat
        /\ now < cache[host].since + config.dnsTtl
    BY <1>1, <1>8 DEF AInv, Shape, CacheIsRight, IsFresh
  <2>2. CacheIsRight' /\ DOMAIN cache' = Names
        /\ \A h \in Names : cache'[h].until \in Int /\ cache'[h].since \in Nat
    BY <1>2, <1>8 DEF AInv, Shape, CacheIsRight, IsBlocked
  <2>. QED  BY <1>2, <1>3, <1>6, <1>8, <2>1, <2>2, Dials
<1>9. CASE /\ ~IsForbidden(host, p.port) /\ request' = [request EXCEPT ![c] = p]
           /\ UNCHANGED <<answers, client>>
           /\ handler' = [handler EXCEPT ![c] = "resolving"]
           /\ cache' = [cache EXCEPT ![host] = NoEntry]
           /\ UNCHANGED <<target, learned, watched, upstream>>
  <2>1. Shape'
    BY <1>1, <1>2, <1>3, <1>6, <1>9 DEF AInv, Shape, NoEntry
  <2>2. CacheIsRight'
    BY <1>1, <1>2, <1>9 DEF AInv, Shape, CacheIsRight, IsBlocked, NoEntry
  <2>3. Resolves'
    BY <1>1, <1>2, <1>6, <1>9 DEF AInv, Shape, Resolves, Permitted
  <2>4. TargetsArePermitted' /\ FreshAddresses'
    BY <1>2, <1>3, <1>9 DEF AInv, TargetsArePermitted, FreshAddresses, Permitted, IsBlocked
  <2>. QED  BY <2>1, <2>2, <2>3, <2>4 DEF AInv
<1>. QED  BY <1>4, <1>5, <1>7, <1>8, <1>9

LEMMA AnswersKeep ==
  ASSUME AInv, NEW c \in Conns, NEW records \in Answers, LookupAnswers(c, records)
  PROVE  AInv'
<1>. DEFINE host == NormalizeHost(request[c].text)
<1>1. /\ handler[c] = "resolving" /\ upstream[c] = "none" /\ host \in Names
      /\ Permitted(host, request[c].port)
  BY DEF LookupAnswers, AInv, Resolves, Shape
<1>2. UNCHANGED <<now, config, request, asked, uploading>>
  BY DEF LookupAnswers
<1>3. CASE Deny(c) /\ UNCHANGED <<cache, target, learned, watched, upstream>>
  BY <1>1, <1>2, <1>3, Replies, KeepsAuthorized DEF Deny, AInv, Shape
<1>4. ASSUME NEW i \in DOMAIN records,
             ComesFirst(i, records),
             cache' = IF config.dnsTtl = 0 THEN cache
                      ELSE [cache EXCEPT ![host] =
                              [first |-> records[i], until |-> Expiry(c), since |-> asked[c]]],
             Dial(c, request[c], records[i], asked[c]), UNCHANGED <<answers, client>>
      PROVE  AInv'
  <2>1. ~IsBlocked(records[i].ip)
    BY <1>4 DEF ComesFirst, Usable
  <2>2. /\ asked[c] \in Nat /\ config.dnsTtl \in Nat
        /\ Expiry(c) = asked[c] + config.dnsTtl
    BY DEF AInv, Shape, Expiry
  <2>3. DOMAIN cache' = Names
        /\ \A h \in Names : cache'[h].until \in Int /\ cache'[h].since \in Nat
    BY <1>1, <1>4, <2>2 DEF AInv, Shape
  <2>4. CacheIsRight'
    BY <1>1, <1>2, <1>4, <2>1, <2>2 DEF AInv, Shape, CacheIsRight, IsBlocked
  <2>5. /\ asked' \in [Conns -> Nat] /\ DOMAIN request' = Conns
        /\ uploading' \in [Conns -> BOOLEAN]
        /\ client' \in [Conns -> {"none", "open", "half", "ending", "closed"}]
    BY <1>2, <1>4 DEF AInv, Shape
  <2>. QED  BY <1>1, <1>2, <1>4, <2>1, <2>2, <2>3, <2>4, <2>5, Dials
<1>. QED  BY <1>3, <1>4 DEF LookupAnswers

LEMMA AStep == AInv /\ [Next]_vars => AInv'
<1>. SUFFICES ASSUME AInv, [Next]_vars PROVE AInv'
  OBVIOUS
<1>. USE DEF AInv, Shape
<1>1. CASE Tick
  BY <1>1, KeepsAuthorized DEF Tick, netVars
<1>2. CASE UNCHANGED vars
  BY <1>2, KeepsAuthorized DEF vars, netVars
<1>3. ASSUME NEW c \in Conns, Accept(c) PROVE AInv'
  BY <1>3, KeepsAuthorized DEF Accept
<1>4. ASSUME NEW c \in Conns, NEW r \in Requests[c], Ask(c, r) PROVE AInv'
  BY <1>4, AsksKeep
<1>5. ASSUME NEW c \in Conns, NEW records \in Answers, LookupAnswers(c, records) PROVE AInv'
  BY <1>5, AnswersKeep
<1>6. ASSUME NEW c \in Conns, LookupFails(c) PROVE AInv'
  BY <1>6, Replies, KeepsAuthorized DEF LookupFails, Deny
<1>7. ASSUME NEW c \in Conns, ClientCloses(c) PROVE AInv'
  BY <1>7, KeepsAuthorized DEF ClientCloses, KeepRest, Live
<1>8. ASSUME NEW c \in Conns, ClientLeaves(c) \/ ClientIdles(c) \/ ClientEnds(c) PROVE AInv'
  <2>1. CASE ClientCloses(c)
    BY <2>1, <1>7
  <2>2. CASE ~ClientCloses(c)
    BY <1>8, <2>2, KeepsAuthorized DEF ClientLeaves, ClientIdles, ClientEnds, KeepRest
  <2>. QED  BY <2>1, <2>2
<1>9. ASSUME NEW c \in Conns, UploadEnds(c) \/ UploadBreaks(c) \/ Dequeue(c)
                        \/ RemoteConnects(c)
      PROVE  AInv'
  BY <1>9, KeepsAuthorized DEF UploadEnds, UploadBreaks, Dequeue, RemoteConnects, KeepRest
<1>10. ASSUME NEW c \in Conns, UpstreamFails(c),
              upstream[c] \in {"dialing", "connected", "open"}
       PROVE  AInv'
  <2>1. client' \in [Conns -> {"none", "open", "half", "ending", "closed"}]
    BY <1>10, Replies DEF UpstreamFails, AfterError
  <2>. QED  BY <1>10, <2>1, KeepsAuthorized DEF UpstreamFails, KeepRest
<1>11. ASSUME NEW c \in Conns, RemoteAccepts(c) \/ RemoteEnds(c) \/ ResponseBreaksOff(c)
       PROVE  AInv'
  BY <1>11, KeepsAuthorized DEF RemoteAccepts, RemoteEnds, ResponseBreaksOff, KeepRest
<1>12. ASSUME NEW c \in Conns, RemoteFails(c) \/ UpstreamIdles(c) PROVE AInv'
  BY <1>10, <1>12 DEF RemoteFails, UpstreamIdles
<1>. QED
  BY <1>1, <1>2, <1>3, <1>4, <1>5, <1>6, <1>8, <1>9, <1>11, <1>12 DEF Next

LEMMA AuthorizedInvariant == Spec => []AInv
BY AInit, AStep, PTL DEF Spec

\* What the proxy reaches is permitted: authorize's checks and the filter of resolveHost
\* hold for every upstream, whatever was remembered meanwhile.
THEOREM PermittedTargets == Spec => []TargetsArePermitted
<1>. AInv => TargetsArePermitted
  BY DEF AInv
<1>. QED  BY AuthorizedInvariant, PTL

\* resolveHost's cache keeps no address beyond its TTL, counted from the question.
THEOREM AddressesAreFresh == Spec => []FreshAddresses
<1>. AInv => FreshAddresses
  BY DEF AInv
<1>. QED  BY AuthorizedInvariant, PTL

(* Answers. *)

One(status) == [first |-> status, later |-> {}]
Both == [first |-> "relayed", later |-> {"400"}]
IsOneAnswer(written) ==
  \/ \E status \in {"none", "200", "400", "403", "502", "relayed"} : written = One(status)
  \/ written = Both

\* What is written first, and what a broken upload adds.
LEMMA Written ==
  /\ Silence = One("none")
  /\ \A status : With(Silence, status) = One(status)
  /\ With(One("relayed"), "400") = Both
  /\ \A status \in {"none", "200", "400", "403", "502", "relayed"} : IsOneAnswer(One(status))
  /\ IsOneAnswer(Both)
<1>1. Silence = One("none") /\ \A status : With(Silence, status) = One(status)
  BY DEF With, Silence, One
<1>2. With(One("relayed"), "400") = Both
  <2>1. One("relayed").first = "relayed" /\ One("relayed").later = {}
    BY DEF One
  <2>2. {} \cup {"400"} = {"400"}
    OBVIOUS
  <2>. QED  BY <2>1, <2>2 DEF With, Both
<1>. QED  BY <1>1, <1>2 DEF IsOneAnswer, Both

\* Whoever still listens has had no answer, but from an upstream that was opened.
Answered ==
  /\ DOMAIN answers = Conns
  /\ \A c \in Conns :
      /\ IsOneAnswer(answers[c])
      /\ uploading[c] => IsHttp(c)
      /\ handler[c] \in {"idle", "resolving"} /\ client[c] \in {"none", "open", "half"} =>
           answers[c] = Silence
      /\ handler[c] = "refused" => client[c] \in {"ending", "closed"}
      /\ upstream[c] \in {"queued", "dialing", "connected"} /\ Listens(c) => answers[c] = Silence
      /\ Listens(c) => answers[c] \in {Silence, IF IsHttp(c) THEN One("relayed") ELSE One("200")}
      /\ handler[c] = "idle" => request[c] = NoRequest /\ client[c] # "half"
      /\ client[c] = "none" => handler[c] = "idle"

BInv == AInv /\ Answered

LEMMA BInit == Init => BInv
<1>. SUFFICES ASSUME Init PROVE Answered
  BY AInit DEF BInv
<1>. QED  BY Written DEF Init, Answered, Listens, IsHttp, NoRequest

\* A reply is the first thing that is written to whoever listens to it.
LEMMA RepliesOnce ==
  ASSUME BInv, NEW c \in Conns, NEW status \in {"403", "502"}, Reply(c, status),
         Listens(c) => answers[c] = Silence
  PROVE  /\ DOMAIN answers' = Conns
         /\ \A d \in Conns : d # c => answers'[d] = answers[d] /\ client'[d] = client[d]
         /\ ~Listens(c)' /\ (client[c] = "none" => client'[c] = "none")
         /\ client[c] # "none" => client'[c] \in {"ending", "closed"}
         /\ answers'[c] \in {answers[c], One(status)}
<1>1. client \in [Conns -> {"none", "open", "half", "ending", "closed"}] /\ DOMAIN answers = Conns
  BY DEF BInv, AInv, Shape, Answered
<1>2. CASE Listens(c)
  BY <1>1, <1>2, Written DEF Reply, Listens
<1>3. CASE ~Listens(c)
  BY <1>1, <1>3 DEF Reply, Listens
<1>. QED  BY <1>2, <1>3

\* What a step does to the other connections, and a connection that is alone in it.
LEMMA OthersKeep ==
  ASSUME BInv, NEW c \in Conns, DOMAIN answers' = Conns,
         \A d \in Conns : d # c =>
           /\ answers'[d] = answers[d] /\ client'[d] = client[d] /\ upstream'[d] = upstream[d]
           /\ uploading'[d] = uploading[d] /\ handler'[d] = handler[d]
           /\ request'[d] = request[d],
         IsOneAnswer(answers'[c]),
         uploading'[c] => IsHttp(c)',
         handler'[c] \in {"idle", "resolving"} /\ client'[c] \in {"none", "open", "half"} =>
           answers'[c] = Silence,
         handler'[c] = "refused" => client'[c] \in {"ending", "closed"},
         upstream'[c] \in {"queued", "dialing", "connected"} /\ Listens(c)' => answers'[c] = Silence,
         Listens(c)' => answers'[c] \in {Silence, IF IsHttp(c)' THEN One("relayed") ELSE One("200")},
         handler'[c] = "idle" => request'[c] = NoRequest /\ client'[c] # "half",
         client'[c] = "none" => handler'[c] = "idle"
  PROVE  Answered'
BY DEF BInv, Answered, Listens, IsHttp

LEMMA ReplyKeeps ==
  ASSUME BInv, NEW c \in Conns, NEW status \in {"403", "502"}, Reply(c, status),
         Listens(c) => answers[c] = Silence, client[c] # "none",
         UNCHANGED <<request, uploading>>,
         handler'[c] \in {"refused", "relaying"}, upstream'[c] \in {"none", "closed"},
         \A d \in Conns : d # c => handler'[d] = handler[d] /\ upstream'[d] = upstream[d]
  PROVE  Answered'
<1>1. /\ DOMAIN answers' = Conns
      /\ \A d \in Conns : d # c => answers'[d] = answers[d] /\ client'[d] = client[d]
      /\ client'[c] \in {"ending", "closed"}
      /\ answers'[c] \in {answers[c], One(status)}
  BY RepliesOnce
<1>2. IsOneAnswer(answers'[c])
  BY <1>1, Written DEF BInv, Answered
<1>3. ~Listens(c)'
  BY <1>1 DEF Listens
<1>4. uploading'[c] => IsHttp(c)'
  BY DEF BInv, Answered, IsHttp
<1>. QED  BY <1>1, <1>2, <1>3, <1>4, OthersKeep

LEMMA BStep == BInv /\ [Next]_vars => BInv'
<1>. SUFFICES ASSUME BInv, [Next]_vars PROVE Answered'
  BY AStep DEF BInv
<1>t. /\ handler \in [Conns -> {"idle", "resolving", "refused", "relaying"}]
      /\ client \in [Conns -> {"none", "open", "half", "ending", "closed"}]
      /\ uploading \in [Conns -> BOOLEAN]
      /\ upstream \in [Conns -> {"none", "queued", "dialing", "connected", "open", "closed"}]
      /\ DOMAIN request = Conns /\ Resolves /\ Answered /\ AInv
  BY DEF BInv, AInv, Shape
<1>1. CASE Tick \/ UNCHANGED vars
  BY <1>t, <1>1 DEF Tick, vars, netVars, Answered, Listens, IsHttp
<1>3. ASSUME NEW c \in Conns, Accept(c) PROVE Answered'
  BY <1>t, <1>3 DEF Accept, Answered, Listens, IsHttp
<1>4. ASSUME NEW c \in Conns, NEW r \in Requests[c], Ask(c, r) PROVE Answered'
  <2>. DEFINE p == ParseTarget(r)
  <2>1. /\ p.kind \in {"connect", "http"} /\ p.body \in BOOLEAN
        /\ p.body => p.kind = "http"
    BY <1>t, Parsed, ProxyAssumption
  <2>2. /\ handler[c] = "idle" /\ client[c] = "open" /\ answers[c] = Silence
        /\ uploading' = [uploading EXCEPT ![c] = p.body]
    BY <1>t, <1>4 DEF Ask, Answered
  <2>3. CASE \E status \in {"400", "403"} : Refuse(c, p, status)
    <3>1. PICK status \in {"400", "403"} : Refuse(c, p, status)
      BY <1>t, <2>3
    <3>2. /\ answers'[c] = One(status) /\ DOMAIN answers' = Conns
          /\ \A d \in Conns : d # c => answers'[d] = answers[d]
      BY <1>t, <2>2, <3>1, Written DEF Refuse, Answered
    <3>3. /\ client'[c] \in {"closed", "ending"} /\ handler'[c] = "refused"
          /\ upstream'[c] = "none" /\ uploading'[c] = p.body /\ IsHttp(c)' = (p.kind = "http")
          /\ \A d \in Conns : d # c =>
               /\ client'[d] = client[d] /\ upstream'[d] = upstream[d]
               /\ uploading'[d] = uploading[d] /\ handler'[d] = handler[d]
               /\ request'[d] = request[d]
      BY <1>t, <2>2, <3>1 DEF Refuse, IsHttp, Resolves
    <3>4. IsOneAnswer(answers'[c]) /\ ~Listens(c)'
      BY <3>2, <3>3, Written DEF Listens
    <3>. QED  BY <2>1, <3>2, <3>3, <3>4, OthersKeep
  <2>4. CASE /\ request' = [request EXCEPT ![c] = p] /\ UNCHANGED <<answers, client>>
             /\ \/ \E address, begun : Dial(c, p, address, begun)
                \/ /\ handler' = [handler EXCEPT ![c] = "resolving"]
                   /\ UNCHANGED upstream
    <3>1. /\ handler' \in [Conns -> {"idle", "resolving", "refused", "relaying"}]
          /\ handler'[c] \in {"resolving", "relaying"} /\ IsHttp(c)' = (p.kind = "http")
          /\ \A d \in Conns : d # c =>
               /\ upstream'[d] = upstream[d] /\ uploading'[d] = uploading[d]
               /\ handler'[d] = handler[d] /\ request'[d] = request[d]
      BY <1>t, <2>2, <2>4 DEF Dial, IsHttp
    <3>2. answers' = answers /\ client' = client /\ uploading'[c] = p.body
      BY <1>t, <2>2, <2>4
    <3>. QED
      BY <1>t, <2>1, <2>2, <3>1, <3>2, Written, OthersKeep DEF Answered
  <2>. QED  BY <1>t, <1>4, <2>3, <2>4 DEF Ask
<1>5. ASSUME NEW c \in Conns, NEW records \in Answers, LookupAnswers(c, records)
      PROVE  Answered'
  <2>1. handler[c] = "resolving" /\ upstream[c] = "none"
    BY <1>t, <1>5 DEF LookupAnswers, Resolves
  <2>2. CASE Deny(c) /\ UNCHANGED <<request, uploading, upstream>>
    BY <1>t, <2>1, <2>2, ReplyKeeps DEF Deny, Answered, Listens
  <2>3. CASE /\ \E address, begun : Dial(c, request[c], address, begun)
             /\ UNCHANGED <<request, uploading, answers, client>>
    BY <1>t, <2>1, <2>3, OthersKeep DEF Dial, Answered, Listens, IsHttp
  <2>. QED  BY <1>t, <1>5, <2>2, <2>3 DEF LookupAnswers
<1>6. ASSUME NEW c \in Conns, LookupFails(c) PROVE Answered'
  BY <1>t, <1>6, ReplyKeeps DEF LookupFails, Resolves, Deny, Answered, Listens
<1>7. ASSUME NEW c \in Conns, ClientCloses(c), client[c] # "none" PROVE Answered'
  BY <1>t, <1>7, OthersKeep DEF ClientCloses, KeepRest, Live, Answered, Listens, IsHttp
<1>8. ASSUME NEW c \in Conns, ClientLeaves(c) \/ ClientIdles(c) \/ ClientEnds(c)
      PROVE  Answered'
  <2>1. CASE ClientCloses(c)
    BY <1>t, <1>8, <2>1, <1>7 DEF ClientLeaves, ClientIdles, ClientEnds
  <2>2. CASE ~ClientCloses(c)
    <3>1. /\ handler[c] # "idle" /\ client[c] = "open"
          /\ client' = [client EXCEPT ![c] = "half"]
          /\ UNCHANGED <<uploading, upstream, answers, handler, request>>
      BY <1>t, <1>8, <2>2 DEF ClientLeaves, ClientIdles, ClientEnds, KeepRest
    <3>. QED  BY <1>t, <3>1, OthersKeep DEF Answered, Listens, IsHttp
  <2>. QED  BY <1>t, <2>1, <2>2
<1>9. ASSUME NEW c \in Conns, UploadEnds(c) \/ Dequeue(c) \/ RemoteConnects(c)
                        \/ ResponseBreaksOff(c)
      PROVE  Answered'
  <2>1. /\ UNCHANGED <<client, answers, handler, request>>
        /\ uploading'[c] => uploading[c]
        /\ upstream'[c] \in {"queued", "dialing", "connected"} =>
             upstream[c] \in {"queued", "dialing", "connected"}
        /\ \A d \in Conns : d # c => uploading'[d] = uploading[d] /\ upstream'[d] = upstream[d]
    BY <1>t, <1>9 DEF UploadEnds, Dequeue, RemoteConnects, ResponseBreaksOff, KeepRest
  <2>. QED  BY <1>t, <2>1, OthersKeep DEF Answered, Listens, IsHttp
<1>10. ASSUME NEW c \in Conns, UploadBreaks(c) PROVE Answered'
  <2>1. /\ uploading[c] /\ IsHttp(c) /\ client[c] = "open"
        /\ answers[c] \in {Silence, One("relayed")} /\ handler[c] # "refused"
    BY <1>t, <1>10 DEF UploadBreaks, Answered, Listens
  <2>2. /\ answers'[c] \in {One("400"), Both} /\ DOMAIN answers' = Conns
        /\ \A d \in Conns : d # c => answers'[d] = answers[d]
    BY <1>t, <1>10, <2>1, Written DEF UploadBreaks, Answered
  <2>3. /\ client' = [client EXCEPT ![c] = "ending"]
        /\ UNCHANGED <<uploading, upstream, handler, request>>
    BY <1>t, <1>10 DEF UploadBreaks, KeepRest
  <2>4. IsOneAnswer(answers'[c]) /\ ~Listens(c)' /\ client'[c] = "ending"
    BY <1>t, <2>1, <2>2, <2>3, Written DEF Listens
  <2>. QED  BY <1>t, <2>1, <2>2, <2>3, <2>4, OthersKeep DEF Answered, IsHttp
<1>11. ASSUME NEW c \in Conns, RemoteAccepts(c) PROVE Answered'
  <2>1. /\ upstream[c] \in {"dialing", "connected"}
        /\ upstream' = [upstream EXCEPT ![c] = "open"]
        /\ UNCHANGED <<client, uploading, handler, request>> /\ handler[c] = "relaying"
    BY <1>t, <1>11 DEF RemoteAccepts, KeepRest, Resolves
  <2>2. /\ DOMAIN answers' = Conns /\ \A d \in Conns : d # c => answers'[d] = answers[d]
        /\ Listens(c) => answers'[c] = IF IsHttp(c) THEN One("relayed") ELSE One("200")
        /\ ~Listens(c) => answers'[c] = answers[c]
    BY <1>t, <1>11, <2>1, Written DEF RemoteAccepts, Answered
  <2>3. IsOneAnswer(answers'[c])
    BY <1>t, <2>2, Written DEF Answered
  <2>. QED  BY <1>t, <2>1, <2>2, <2>3, OthersKeep DEF Answered, Listens, IsHttp
<1>12. ASSUME NEW c \in Conns, RemoteEnds(c) PROVE Answered'
  BY <1>t, <1>12, OthersKeep DEF RemoteEnds, KeepRest, Resolves, Answered, Listens, IsHttp
<1>13. ASSUME NEW c \in Conns, UpstreamFails(c),
              upstream[c] \in {"dialing", "connected", "open"}
       PROVE  Answered'
  <2>1. CASE upstream[c] = "open"
    BY <1>t, <1>13, <2>1, OthersKeep
       DEF UpstreamFails, AfterError, KeepRest, Resolves, Answered, Listens, IsHttp
  <2>2. CASE upstream[c] \in {"dialing", "connected"}
    <3>1. Reply(c, "502") /\ upstream' = [upstream EXCEPT ![c] = "closed"]
      BY <1>13, <2>2 DEF UpstreamFails, AfterError
    <3>2. UNCHANGED <<request, uploading, handler>> /\ handler[c] = "relaying"
      BY <1>t, <1>13, <2>2 DEF UpstreamFails, KeepRest, Resolves
    <3>. QED  BY <1>t, <2>2, <3>1, <3>2, ReplyKeeps DEF Answered, BInv
  <2>. QED  BY <1>t, <1>13, <2>1, <2>2
<1>14. ASSUME NEW c \in Conns, RemoteFails(c) \/ UpstreamIdles(c) PROVE Answered'
  BY <1>t, <1>13, <1>14 DEF RemoteFails, UpstreamIdles
<1>. QED
  BY <1>t, <1>1, <1>3, <1>4, <1>5, <1>6, <1>8, <1>9, <1>10, <1>11, <1>12, <1>14 DEF Next

\* However the errors, timeouts and closes of the two sockets race, a client reads one
\* status line.
THEOREM AnsweredOnce == Spec => []OneAnswer
<1>1. BInv => OneAnswer
  BY DEF BInv, Answered, OneAnswer, IsOneAnswer, One, Both
<1>. QED  BY <1>1, BInit, BStep, PTL DEF Spec

-----------------------------------------------------------------------------
(* The launcher. *)

USE BoundsAssumption, FlagsAssumption DEF Pids, NoPid

-----------------------------------------------------------------------------
(* Type correctness. *)

LEMMA InitTypeOK == LauncherInit => LauncherTypeOK
BY DEF LauncherInit, LauncherTypeOK, Kinds, Labels

\* Boot, the part of a step that creates a process, keeps the processes typed.
LEMMA BootTypeOK ==
  ASSUME LauncherTypeOK, NEW p \in Pids, Boot(p)
  PROVE  /\ proc' \in [Pids -> {"unused", "booting", "read", "listening", "dying", "exited"}]
         /\ loaded' \in [Pids -> Nat]
BY DEF LauncherTypeOK, Boot

LEMMA CommandTypeOK ==
  ASSUME LauncherTypeOK, NEW c \in Commands, CommandStep(c)
  PROVE  LauncherTypeOK'
<1> USE DEF LauncherTypeOK, Labels, hosts, daemons, history, bounds
<1>1. CASE CheckPort(c)
  BY <1>1 DEF CheckPort, Continue, Return
<1>2. CASE ResolveHosts(c)
  BY <1>2 DEF ResolveHosts, Continue, Return
<1>3. CASE Spawn(c)
  <2>1. PICK p \in Pids : Boot(p) /\ pid' = [pid EXCEPT ![c] = p]
    BY <1>3 DEF Spawn
  <2>2. /\ proc' \in [Pids -> {"unused", "booting", "read", "listening", "dying", "exited"}]
        /\ loaded' \in [Pids -> Nat]
    BY <2>1, BootTypeOK
  <2>3. QED
    BY <1>3, <2>1, <2>2 DEF Spawn, Continue
<1>4. CASE TruncatePidfile(c)
  BY <1>4 DEF TruncatePidfile, Continue
<1>5. CASE WritePidfile(c)
  BY <1>5 DEF WritePidfile, Continue
<1>6. CASE SeeListener(c)
  BY <1>6 DEF SeeListener, Return
<1>7. CASE StartTimesOut(c)
  BY <1>7 DEF StartTimesOut, Return
<1>8. CASE ReadPidfile(c)
  BY <1>8 DEF ReadPidfile, Continue, Return, AfterStop
<1>9. CASE Signal(c)
  BY <1>9 DEF Signal, Continue, Alive
<1>10. CASE SeeClosed(c)
  BY <1>10 DEF SeeClosed, Continue
<1>11. CASE StopTimesOut(c)
  BY <1>11 DEF StopTimesOut, Return
<1>12. CASE RemovePidfile(c)
  BY <1>12 DEF RemovePidfile, Continue, Return, AfterStop
<1>13. CASE Report(c)
  BY <1>13 DEF Report, Return
<1>14. QED
  BY <1>1, <1>2, <1>3, <1>4, <1>5, <1>6, <1>7, <1>8, <1>9, <1>10, <1>11, <1>12, <1>13 DEF CommandStep

LEMMA NextTypeOK ==
  ASSUME LauncherTypeOK, [LauncherNext]_launcherVars
  PROVE  LauncherTypeOK'
<1> USE DEF LauncherTypeOK, hosts, daemons, history, bounds
<1>1. ASSUME NEW c \in Commands, Begin(c) PROVE LauncherTypeOK'
  <2>1. PICK k \in Kinds :
          /\ kind' = [kind EXCEPT ![c] = k]
          /\ pc' = [pc EXCEPT ![c] = IF k = "start" THEN "check" ELSE "readPid"]
    BY <1>1 DEF Begin
  <2>2. kind' \in [Commands -> Kinds] /\ pc' \in [Commands -> Labels]
    BY <2>1 DEF Labels
  <2>3. since' \in [Commands -> Nat] /\ alone' \subseteq Commands
    BY <1>1 DEF Begin
  <2>4. QED
    BY <1>1, <2>2, <2>3 DEF Begin
<1>2. ASSUME NEW c \in Commands, CommandStep(c) PROVE LauncherTypeOK'
  BY <1>2, CommandTypeOK
<1>3. ASSUME NEW c \in Commands, KillCommand(c) PROVE LauncherTypeOK'
  BY <1>3 DEF KillCommand, Return, Labels
<1>4. ASSUME NEW p \in Pids, LoadHosts(p) PROVE LauncherTypeOK'
  BY <1>4 DEF LoadHosts
<1>5. ASSUME NEW p \in Pids, Bind(p) PROVE LauncherTypeOK'
  BY <1>5 DEF Bind
<1>6. ASSUME NEW p \in Pids, Exit(p) PROVE LauncherTypeOK'
  BY <1>6 DEF Exit
<1>7. ASSUME NEW p \in Pids, Crash(p) PROVE LauncherTypeOK'
  BY <1>7 DEF Crash
<1>8. ASSUME NEW p \in Pids, StartByHand(p) PROVE LauncherTypeOK'
  BY <1>8, BootTypeOK DEF StartByHand
<1>9. ASSUME EditHosts PROVE LauncherTypeOK'
  BY <1>9 DEF EditHosts
<1>10. ASSUME UNCHANGED launcherVars PROVE LauncherTypeOK'
  BY <1>10 DEF launcherVars
<1>11. QED
  BY <1>1, <1>2, <1>3, <1>4, <1>5, <1>6, <1>7, <1>8, <1>9, <1>10 DEF LauncherNext, DaemonStep

\* Every reachable state is well typed, for any commands and bounds.
THEOREM TypeCorrect == LauncherSpec => []LauncherTypeOK
<1>1. LauncherInit => LauncherTypeOK
  BY InitTypeOK
<1>2. LauncherTypeOK /\ [LauncherNext]_launcherVars => LauncherTypeOK'
  BY NextTypeOK
<1>3. QED
  BY <1>1, <1>2, PTL DEF LauncherSpec

-----------------------------------------------------------------------------
(* The invariant behind PidfileNamesTheDaemon and RestartPicksUpEdits. *)

LEMMA InitInv == LauncherInit => LauncherInv
BY DEF LauncherInit, LauncherInv, OneAtATime, SettledInv, Settled, CommandInv, RestartInv,
       Active, Alive

\* The command that takes a step is under way, and leaves the others alone.
LEMMA OneCommandSteps ==
  ASSUME LauncherTypeOK, OneAtATime, NEW c \in Commands, CommandStep(c)
  PROVE  /\ Active(c)
         /\ kind' = kind /\ since' = since /\ version' = version
         /\ \A d \in Commands \ {c} :
              /\ ~Active(d) /\ ~Active(d)'
              /\ pc'[d] = pc[d] /\ answer'[d] = answer[d] /\ pid'[d] = pid[d]
<1>1. Active(c)
  BY DEF Active, CommandStep,
  CheckPort, ResolveHosts, Spawn, TruncatePidfile, WritePidfile, SeeListener,
  StartTimesOut, ReadPidfile, Signal, SeeClosed, StopTimesOut, RemovePidfile, Report
<1>2. /\ kind' = kind /\ since' = since /\ version' = version
      /\ \A d \in Commands \ {c} :
           pc'[d] = pc[d] /\ answer'[d] = answer[d] /\ pid'[d] = pid[d]
  BY DEF LauncherTypeOK, hosts, history, CommandStep, Continue, Return,
  AfterStop, CheckPort, ResolveHosts, Spawn, TruncatePidfile, WritePidfile, SeeListener,
  StartTimesOut, ReadPidfile, Signal, SeeClosed, StopTimesOut, RemovePidfile, Report
<1>3. QED
  BY <1>1, <1>2 DEF OneAtATime, Active

LEMMA CommandKeepsInv ==
  ASSUME OneOperator, LauncherTypeOK, LauncherInv, NEW c \in Commands, CommandStep(c)
  PROVE  LauncherInv'
<1> USE DEF daemons, hosts, bounds, history
<1>1. /\ Active(c)
      /\ kind' = kind /\ since' = since /\ version' = version
      /\ \A d \in Commands \ {c} :
           /\ ~Active(d) /\ ~Active(d)'
           /\ pc'[d] = pc[d] /\ answer'[d] = answer[d] /\ pid'[d] = pid[d]
  BY OneCommandSteps DEF LauncherInv
<1>2. CommandInv(c) /\ RestartInv(c)
  BY DEF LauncherInv
<1>3. Settled \/ pc[c] \in {"truncate", "write", "await", "awaitClosed"}
  BY <1>1 DEF LauncherInv, SettledInv, Active
<1>4. SUFFICES /\ Settled' \/ pc'[c] \in {"truncate", "write", "await", "awaitClosed"}
               /\ CommandInv(c)'
               /\ \A d \in Commands : RestartInv(d)'
  <2>1. OneAtATime'
    BY <1>1 DEF OneAtATime
  <2>2. ASSUME NEW d \in Commands, d # c PROVE CommandInv(d)'
    BY <1>1, <2>2 DEF LauncherInv, CommandInv, Active
  <2>3. QED
    BY <2>1, <2>2 DEF LauncherInv, SettledInv
<1>5. \A d \in Commands : RestartInv(d)
  BY DEF LauncherInv
<1>6. CASE CheckPort(c)
  <2>1. Settled' \/ pc'[c] \in {"truncate", "write", "await", "awaitClosed"}
    BY <1>2, <1>3, <1>6 DEF OneOperator, LauncherTypeOK, CommandInv, Settled, Alive, CheckPort, Continue, Return, PortTaken
  <2>2. CommandInv(c)'
    BY <1>1, <1>2, <1>3, <1>6 DEF OneOperator, LauncherTypeOK, CommandInv, Settled, Alive, Active, CheckPort, Continue, Return, PortTaken
  <2>3. \A d \in Commands : RestartInv(d)'
    BY <1>1, <1>2, <1>3, <1>5, <1>6 DEF OneOperator, LauncherTypeOK, RestartInv, CommandInv, Alive, CheckPort, Continue, Return, PortTaken
  <2>4. QED
    BY <2>1, <2>2, <2>3
<1>7. CASE ResolveHosts(c)
  <2>1. Settled' \/ pc'[c] \in {"truncate", "write", "await", "awaitClosed"}
    BY <1>2, <1>3, <1>7 DEF OneOperator, LauncherTypeOK, CommandInv, Settled, Alive, ResolveHosts, Continue, Return
  <2>2. CommandInv(c)'
    BY <1>1, <1>2, <1>3, <1>7 DEF OneOperator, LauncherTypeOK, CommandInv, Settled, Alive, Active, ResolveHosts, Continue, Return
  <2>3. \A d \in Commands : RestartInv(d)'
    <3>1. RestartInv(c)'
      BY <1>1, <1>2, <1>3, <1>5, <1>7 DEF OneOperator, LauncherTypeOK, RestartInv, CommandInv, Alive, ResolveHosts, Continue, Return
    <3>2. ASSUME NEW d \in Commands, d # c PROVE RestartInv(d)'
      BY <1>1, <1>2, <1>5, <1>7, <3>2 DEF OneOperator, LauncherTypeOK, RestartInv, Alive, ResolveHosts, Continue, Return
    <3>3. QED
      BY <3>1, <3>2
  <2>4. QED
    BY <2>1, <2>2, <2>3
<1>8. CASE Spawn(c)
  <2>1. Settled' \/ pc'[c] \in {"truncate", "write", "await", "awaitClosed"}
    BY <1>2, <1>3, <1>8 DEF OneOperator, LauncherTypeOK, CommandInv, Settled, Alive, Spawn, Continue, Boot
  <2>2. CommandInv(c)'
    <3>1. PICK p \in Pids : Boot(p) /\ pid' = [pid EXCEPT ![c] = p]
      BY <1>8 DEF Spawn
    <3>2. pc' = [pc EXCEPT ![c] = "truncate"] /\ answer' = answer
      BY <1>8 DEF Spawn, Continue
    <3>3. pc[c] = "spawn" /\ Alive = {}
      BY <1>2, <1>8 DEF Spawn, CommandInv
    <3>4. \A q \in Alive' : q = p /\ proc'[q] = "booting"
      BY <3>1, <3>3 DEF Boot, Alive, LauncherTypeOK
    <3>5. pc'[c] = "truncate" /\ pid'[c] = p
      BY <3>1, <3>2 DEF LauncherTypeOK
    <3>6. answer'[c] = "none"
      BY <1>2, <3>2, <3>3 DEF CommandInv
    <3>7. QED
      BY <3>4, <3>5, <3>6 DEF CommandInv
  <2>3. \A d \in Commands : RestartInv(d)'
    BY <1>1, <1>2, <1>3, <1>5, <1>8 DEF OneOperator, LauncherTypeOK, RestartInv, CommandInv, Alive, Spawn, Continue, Boot
  <2>4. QED
    BY <2>1, <2>2, <2>3
<1>9. CASE TruncatePidfile(c)
  <2>1. Settled' \/ pc'[c] \in {"truncate", "write", "await", "awaitClosed"}
    BY <1>2, <1>3, <1>9 DEF OneOperator, LauncherTypeOK, CommandInv, Settled, Alive, TruncatePidfile, Continue
  <2>2. CommandInv(c)'
    BY <1>1, <1>2, <1>3, <1>9 DEF OneOperator, LauncherTypeOK, CommandInv, Settled, Alive, Active, TruncatePidfile, Continue
  <2>3. \A d \in Commands : RestartInv(d)'
    BY <1>1, <1>2, <1>3, <1>5, <1>9 DEF OneOperator, LauncherTypeOK, RestartInv, CommandInv, Alive, TruncatePidfile, Continue
  <2>4. QED
    BY <2>1, <2>2, <2>3
<1>10. CASE WritePidfile(c)
  <2>1. Settled' \/ pc'[c] \in {"truncate", "write", "await", "awaitClosed"}
    BY <1>2, <1>3, <1>10 DEF OneOperator, LauncherTypeOK, CommandInv, Settled, Alive, WritePidfile, Continue
  <2>2. CommandInv(c)'
    BY <1>1, <1>2, <1>3, <1>10 DEF OneOperator, LauncherTypeOK, CommandInv, Settled, Alive, Active, WritePidfile, Continue
  <2>3. \A d \in Commands : RestartInv(d)'
    BY <1>1, <1>2, <1>3, <1>5, <1>10 DEF OneOperator, LauncherTypeOK, RestartInv, CommandInv, Alive, WritePidfile, Continue
  <2>4. QED
    BY <2>1, <2>2, <2>3
<1>11. CASE SeeListener(c)
  <2>1. Settled' \/ pc'[c] \in {"truncate", "write", "await", "awaitClosed"}
    BY <1>2, <1>3, <1>11 DEF OneOperator, LauncherTypeOK, CommandInv, Settled, Alive, SeeListener, Return, PortTaken
  <2>2. CommandInv(c)'
    BY <1>1, <1>2, <1>3, <1>11 DEF OneOperator, LauncherTypeOK, CommandInv, Settled, Alive, Active, SeeListener, Return, PortTaken
  <2>3. \A d \in Commands : RestartInv(d)'
    BY <1>1, <1>2, <1>3, <1>5, <1>11 DEF OneOperator, LauncherTypeOK, RestartInv, CommandInv, Alive, SeeListener, Return, PortTaken
  <2>4. QED
    BY <2>1, <2>2, <2>3
<1>12. CASE StartTimesOut(c)
  <2>1. Settled' \/ pc'[c] \in {"truncate", "write", "await", "awaitClosed"}
    BY <1>2, <1>3, <1>12 DEF OneOperator, LauncherTypeOK, CommandInv, Settled, Alive, StartTimesOut, Return, PortTaken
  <2>2. CommandInv(c)'
    BY <1>1, <1>2, <1>3, <1>12 DEF OneOperator, LauncherTypeOK, CommandInv, Settled, Alive, Active, StartTimesOut, Return, PortTaken
  <2>3. \A d \in Commands : RestartInv(d)'
    BY <1>1, <1>2, <1>3, <1>5, <1>12 DEF OneOperator, LauncherTypeOK, RestartInv, CommandInv, Alive, StartTimesOut, Return, PortTaken
  <2>4. QED
    BY <2>1, <2>2, <2>3
<1>13. CASE ReadPidfile(c)
  <2>1. Settled' \/ pc'[c] \in {"truncate", "write", "await", "awaitClosed"}
    BY <1>2, <1>3, <1>13 DEF OneOperator, LauncherTypeOK, CommandInv, Settled, Alive, ReadPidfile, Continue, Return, AfterStop
  <2>2. Settled /\ pc[c] = "readPid" /\ proc' = proc /\ pidfile' = pidfile
        /\ pid'[c] = pidfile /\ Alive' = Alive
    BY <1>3, <1>13 DEF ReadPidfile, LauncherTypeOK, Alive
  <2>3. CASE kind[c] = "status" /\ Continue(c, "report")
    <3>1. pc'[c] = "report" /\ answer' = answer
      BY <2>3 DEF Continue, LauncherTypeOK
    <3>2. CommandInv(c)'
      BY <1>1, <1>2, <2>2, <3>1 DEF CommandInv
    <3>3. QED
      BY <1>1, <1>5, <1>13, <2>1, <2>2, <2>3, <3>1, <3>2 DEF RestartInv, ReadPidfile
  <2>4. CASE kind[c] # "status" /\ pidfile = NoPid /\ AfterStop(c, "not-running")
    <3>1. Alive = {}
      BY <2>2, <2>4 DEF Settled, Alive
    <3>2. CASE kind[c] = "restart"
      <4>1. pc'[c] = "check" /\ answer' = answer
        BY <2>4, <3>2 DEF AfterStop, Continue, LauncherTypeOK
      <4>2. CommandInv(c)'
        BY <1>1, <1>2, <2>2, <3>1, <4>1 DEF CommandInv
      <4>3. RestartInv(c)'
        BY <1>1, <1>5, <1>13, <2>2, <3>1 DEF RestartInv, Alive, ReadPidfile
      <4>4. QED
        BY <1>1, <1>5, <1>13, <2>1, <2>2, <4>2, <4>3 DEF RestartInv, ReadPidfile
    <3>3. CASE kind[c] # "restart"
      <4>1. pc'[c] = "done"
        BY <2>4, <3>3 DEF AfterStop, Return, LauncherTypeOK
      <4>2. CommandInv(c)'
        BY <4>1 DEF CommandInv
      <4>3. QED
        BY <1>1, <1>5, <1>13, <2>1, <2>2, <3>3, <4>2 DEF RestartInv, ReadPidfile
    <3>4. QED
      BY <3>2, <3>3
  <2>5. CASE kind[c] # "status" /\ pidfile # NoPid /\ Continue(c, "signal")
    <3>1. pc'[c] = "signal" /\ answer' = answer
      BY <2>5 DEF Continue, LauncherTypeOK
    <3>2. kind[c] # "start"
      BY <1>2, <2>2 DEF CommandInv
    <3>3. CommandInv(c)'
      BY <1>1, <1>2, <2>2, <3>1, <3>2 DEF CommandInv
    <3>4. QED
      BY <1>1, <1>2, <1>5, <1>13, <2>1, <2>2, <3>1, <3>3 DEF RestartInv, CommandInv, ReadPidfile
  <2>6. QED
    BY <1>13, <2>3, <2>4, <2>5 DEF ReadPidfile
<1>14. CASE Signal(c)
  <2>1. Settled' \/ pc'[c] \in {"truncate", "write", "await", "awaitClosed"}
    BY <1>2, <1>3, <1>14 DEF OneOperator, LauncherTypeOK, CommandInv, Settled, Alive, Signal, Continue
  <2>2. CommandInv(c)'
    BY <1>1, <1>2, <1>3, <1>14 DEF OneOperator, LauncherTypeOK, CommandInv, Settled, Alive, Active, Signal, Continue
  <2>3. \A d \in Commands : RestartInv(d)'
    <3>1. loaded' = loaded /\ answer' = answer /\ pc'[c] \in {"awaitClosed", "removeStale"}
      BY <1>14 DEF Signal, Continue, LauncherTypeOK
    <3>2. \A q \in Pids : proc'[q] \in {"read", "listening", "dying"} =>
                            proc[q] \in {"read", "listening", "dying"}
      BY <1>14 DEF Signal, LauncherTypeOK
    <3>3. QED
      BY <1>1, <1>5, <3>1, <3>2 DEF RestartInv
  <2>4. QED
    BY <2>1, <2>2, <2>3
<1>15. CASE SeeClosed(c)
  <2>1. Settled' \/ pc'[c] \in {"truncate", "write", "await", "awaitClosed"}
    BY <1>2, <1>3, <1>15 DEF OneOperator, LauncherTypeOK, CommandInv, Settled, Alive, SeeClosed, Continue, PortTaken
  <2>2. CommandInv(c)'
    BY <1>1, <1>2, <1>3, <1>15 DEF OneOperator, LauncherTypeOK, CommandInv, Settled, Alive, Active, SeeClosed, Continue, PortTaken
  <2>3. \A d \in Commands : RestartInv(d)'
    BY <1>1, <1>2, <1>3, <1>5, <1>15 DEF OneOperator, LauncherTypeOK, RestartInv, CommandInv, Alive, SeeClosed, Continue, PortTaken
  <2>4. QED
    BY <2>1, <2>2, <2>3
<1>16. CASE StopTimesOut(c)
  <2>1. Settled' \/ pc'[c] \in {"truncate", "write", "await", "awaitClosed"}
    BY <1>2, <1>3, <1>16 DEF OneOperator, LauncherTypeOK, CommandInv, Settled, Alive, StopTimesOut, Return, PortTaken
  <2>2. CommandInv(c)'
    BY <1>1, <1>2, <1>3, <1>16 DEF OneOperator, LauncherTypeOK, CommandInv, Settled, Alive, Active, StopTimesOut, Return, PortTaken
  <2>3. \A d \in Commands : RestartInv(d)'
    BY <1>1, <1>2, <1>3, <1>5, <1>16 DEF OneOperator, LauncherTypeOK, RestartInv, CommandInv, Alive, StopTimesOut, Return, PortTaken
  <2>4. QED
    BY <2>1, <2>2, <2>3
<1>17. CASE RemovePidfile(c)
  <2>1. Settled' \/ pc'[c] \in {"truncate", "write", "await", "awaitClosed"}
    BY <1>2, <1>3, <1>17 DEF OneOperator, LauncherTypeOK, CommandInv, Settled, Alive, RemovePidfile, Continue, Return, AfterStop
  <2>2. CommandInv(c)'
    BY <1>1, <1>2, <1>3, <1>17 DEF OneOperator, LauncherTypeOK, CommandInv, Settled, Alive, Active, RemovePidfile, Continue, Return, AfterStop
  <2>3. \A d \in Commands : RestartInv(d)'
    <3>1. UNCHANGED <<proc, loaded>> /\ pc[c] \in {"remove", "removeStale"}
      BY <1>17 DEF RemovePidfile
    <3>2. Alive = {}
      BY <1>2, <3>1 DEF CommandInv
    <3>3. \A q \in Pids : proc'[q] \notin {"read", "listening", "dying"}
      BY <3>1, <3>2 DEF Alive
    <3>4. QED
      BY <1>1, <1>5, <3>1, <3>3 DEF RestartInv
  <2>4. QED
    BY <2>1, <2>2, <2>3
<1>18. CASE Report(c)
  <2>1. Settled' \/ pc'[c] \in {"truncate", "write", "await", "awaitClosed"}
    BY <1>2, <1>3, <1>18 DEF OneOperator, LauncherTypeOK, CommandInv, Settled, Alive, Report, Return
  <2>2. CommandInv(c)'
    BY <1>1, <1>2, <1>3, <1>18 DEF OneOperator, LauncherTypeOK, CommandInv, Settled, Alive, Active, Report, Return
  <2>3. \A d \in Commands : RestartInv(d)'
    BY <1>1, <1>2, <1>3, <1>5, <1>18 DEF OneOperator, LauncherTypeOK, RestartInv, CommandInv, Alive, Report, Return
  <2>4. QED
    BY <2>1, <2>2, <2>3
<1>19. QED
  BY <1>6, <1>7, <1>8, <1>9, <1>10, <1>11, <1>12, <1>13, <1>14, <1>15, <1>16, <1>17, <1>18 DEF CommandStep

\* Daemons only change themselves, and one that does is either the listener or
\* known to the command under way.
LEMMA DaemonsKeepInv ==
  ASSUME OneOperator, LauncherTypeOK, LauncherInv, NEW p \in Pids, DaemonStep(p) \/ Crash(p)
  PROVE  LauncherInv'
<1> USE DEF hosts, history, bounds
<1>1. /\ UNCHANGED <<version, pidfile, pc, kind, pid, answer, since>>
      /\ p \in Alive /\ Alive' \subseteq Alive
      /\ \A q \in Pids \ {p} : proc'[q] = proc[q] /\ loaded'[q] = loaded[q]
  BY DEF LauncherTypeOK, Alive, DaemonStep, LoadHosts, Bind, Exit, Crash
<1>2. OneAtATime'
  BY <1>1 DEF LauncherInv, OneAtATime, Active
<1>3. SettledInv'
  <2>1. CASE \E c \in Commands : pc[c] \in {"truncate", "write", "await", "awaitClosed"}
    BY <1>1, <2>1 DEF SettledInv
  <2>2. CASE Settled
    <3>1. proc[p] = "listening"
      BY <1>1, <2>2 DEF Settled
    <3>2. proc'[p] = "exited"
      BY <3>1 DEF LauncherTypeOK, DaemonStep, LoadHosts, Bind, Exit, Crash
    <3>3. Settled'
      BY <1>1, <2>2, <3>2 DEF Settled, Alive
    <3>4. QED
      BY <3>3 DEF SettledInv
  <2>3. QED
    BY <2>1, <2>2 DEF LauncherInv, SettledInv
<1>4. ASSUME NEW c \in Commands PROVE CommandInv(c)'
  <2>1. CommandInv(c)
    BY DEF LauncherInv
  <2>2. proc[p] # "dying" => proc'[p] # "dying"
    BY DEF LauncherTypeOK, DaemonStep, LoadHosts, Bind, Exit, Crash
  <2>3. proc[p] = "dying" => proc'[p] = "exited"
    BY DEF LauncherTypeOK, DaemonStep, LoadHosts, Bind, Exit, Crash
  <2>4. QED
    BY <1>1, <2>1, <2>2, <2>3 DEF CommandInv, Alive
<1>5. ASSUME NEW c \in Commands PROVE RestartInv(c)'
  <2>1. RestartInv(c) /\ since[c] <= version /\ since[c] \in Nat /\ version \in Nat
    BY DEF LauncherInv, RestartInv, LauncherTypeOK
  <2>2. \/ proc[p] = "booting" /\ loaded'[p] = version
        \/ proc[p] \in {"read", "listening", "dying"} /\ loaded'[p] = loaded[p]
        \/ proc'[p] = "exited"
    BY DEF LauncherTypeOK, DaemonStep, LoadHosts, Bind, Exit, Crash, Alive
  <2>3. QED
    BY <1>1, <2>1, <2>2 DEF RestartInv
<1>6. QED
  BY <1>2, <1>3, <1>4, <1>5 DEF LauncherInv

LEMMA BeginKeepsInv ==
  ASSUME OneOperator, LauncherTypeOK, LauncherInv, NEW c \in Commands, Begin(c)
  PROVE  LauncherInv'
<1>1. PICK k \in Kinds :
        /\ kind' = [kind EXCEPT ![c] = k]
        /\ pc' = [pc EXCEPT ![c] = IF k = "start" THEN "check" ELSE "readPid"]
  BY DEF Begin
<1>2. Quiet /\ pc[c] = "off" /\ answer[c] = "none"
  BY DEF OneOperator, Begin, LauncherInv, CommandInv
<1>3. /\ UNCHANGED <<version, proc, loaded, pidfile, pid, answer>>
      /\ since' = [since EXCEPT ![c] = version]
      /\ Alive' = Alive
  BY DEF Begin, hosts, daemons, Alive
<1>4. pc'[c] = IF k = "start" THEN "check" ELSE "readPid"
  BY <1>1 DEF LauncherTypeOK
<1>5. kind'[c] = k /\ since'[c] = version
  BY <1>1, <1>3 DEF LauncherTypeOK
<1>6. \A d \in Commands \ {c} : pc'[d] = pc[d] /\ kind'[d] = kind[d] /\ since'[d] = since[d]
  BY <1>1, <1>3 DEF LauncherTypeOK
<1>7. OneAtATime'
  BY <1>2, <1>6 DEF OneAtATime, Active, Quiet
<1>8. Settled
  BY <1>2 DEF LauncherInv, SettledInv, Quiet, Active
<1>9. Settled'
  BY <1>3, <1>8 DEF Settled
<1>10. ASSUME NEW d \in Commands PROVE CommandInv(d)'
  <2>1. CASE d = c
    BY <1>2, <1>3, <1>4, <1>5, <2>1 DEF CommandInv
  <2>2. CASE d # c
    BY <1>2, <1>3, <1>6, <2>2 DEF LauncherInv, CommandInv, Quiet, Active
  <2>3. QED
    BY <2>1, <2>2
<1>11. ASSUME NEW d \in Commands PROVE RestartInv(d)'
  <2>1. CASE d = c
    BY <1>2, <1>3, <1>4, <1>5, <2>1 DEF RestartInv, LauncherTypeOK
  <2>2. CASE d # c
    BY <1>3, <1>6, <2>2 DEF LauncherInv, RestartInv
  <2>3. QED
    BY <2>1, <2>2
<1>12. QED
  BY <1>7, <1>9, <1>10, <1>11 DEF LauncherInv, SettledInv

LEMMA NextKeepsInv ==
  ASSUME OneOperator, LauncherTypeOK, LauncherInv, [LauncherNext]_launcherVars
  PROVE  LauncherInv'
<1>1. ASSUME NEW c \in Commands, Begin(c) PROVE LauncherInv'
  BY <1>1, BeginKeepsInv
<1>2. ASSUME NEW c \in Commands, CommandStep(c) PROVE LauncherInv'
  BY <1>2, CommandKeepsInv
<1>3. ASSUME NEW c \in Commands, KillCommand(c) PROVE FALSE
  BY <1>3 DEF KillCommand, OneOperator, LauncherTypeOK
<1>4. ASSUME NEW p \in Pids, DaemonStep(p) \/ Crash(p) PROVE LauncherInv'
  BY <1>4, DaemonsKeepInv
<1>5. ASSUME NEW p \in Pids, StartByHand(p) PROVE FALSE
  BY <1>5 DEF StartByHand, OneOperator, LauncherTypeOK
<1>6. ASSUME EditHosts PROVE LauncherInv'
  BY <1>6 DEF EditHosts, daemons, history, LauncherTypeOK, LauncherInv, OneAtATime, SettledInv,
              Settled, CommandInv, RestartInv, Active, Alive
<1>7. ASSUME UNCHANGED launcherVars PROVE LauncherInv'
  BY <1>7 DEF launcherVars, LauncherInv, OneAtATime, SettledInv, Settled, CommandInv, RestartInv,
              Active, Alive
<1>8. QED
  BY <1>1, <1>2, <1>3, <1>4, <1>5, <1>6, <1>7 DEF LauncherNext

LEMMA AlwaysInv == ASSUME OneOperator PROVE LauncherSpec => [](LauncherTypeOK /\ LauncherInv)
<1>1. LauncherInit => LauncherTypeOK /\ LauncherInv
  BY InitTypeOK, InitInv
<1>2. LauncherTypeOK /\ LauncherInv /\ [LauncherNext]_launcherVars => (LauncherTypeOK /\ LauncherInv)'
  BY NextTypeOK, NextKeepsInv
<1>3. QED
  BY <1>1, <1>2, PTL DEF LauncherSpec

\* The pidfile names the daemon whenever no command is under way, if one operator
\* lets each command finish.
THEOREM PidfileIsRight == ASSUME OneOperator PROVE LauncherSpec => []PidfileNamesTheDaemon
<1>1. LauncherTypeOK /\ LauncherInv => PidfileNamesTheDaemon
  BY DEF LauncherInv, SettledInv, Settled, PidfileNamesTheDaemon, Quiet, Active, Alive
<1>2. QED
  BY <1>1, AlwaysInv, PTL

\* Under the same circumstances a restart picks up edited host files.
THEOREM RestartsPickUpEdits == ASSUME OneOperator PROVE LauncherSpec => []RestartPicksUpEdits
<1>1. LauncherTypeOK /\ LauncherInv => RestartPicksUpEdits
  BY DEF LauncherInv, RestartInv, RestartPicksUpEdits
<1>2. QED
  BY <1>1, AlwaysInv, PTL

\* Only a command that returns answers, and what it says is so.
LEMMA ReturnsAreTrue ==
  ASSUME OneOperator, LauncherTypeOK, LauncherInv, NEW c \in Commands, CommandStep(c)
  PROVE  TruthOf(c)
<1> USE DEF LauncherTypeOK, CommandInv, Settled, Alive, Return, TruthOf
<1>1. Active(c) /\ CommandInv(c) /\ answer[c] = "none"
  BY OneCommandSteps DEF LauncherInv, Active
<1>2. Settled \/ pc[c] \in {"truncate", "write", "await", "awaitClosed"}
  <2>1. \A d \in Commands \ {c} : ~Active(d)
    BY OneCommandSteps DEF LauncherInv
  <2>2. QED
    BY <2>1 DEF LauncherInv, SettledInv, Active
<1>3. CASE answer' = answer
  BY <1>1, <1>3
<1>4. CASE CheckPort(c)
  BY <1>1, <1>2, <1>3, <1>4 DEF CheckPort, Continue
<1>5. CASE ResolveHosts(c)
  BY <1>1, <1>3, <1>5 DEF ResolveHosts, Continue
<1>6. CASE SeeListener(c)
  BY <1>1, <1>6 DEF SeeListener
<1>7. CASE StartTimesOut(c) \/ StopTimesOut(c)
  BY <1>1, <1>7 DEF StartTimesOut, StopTimesOut
<1>8. CASE ReadPidfile(c)
  BY <1>1, <1>2, <1>3, <1>8 DEF ReadPidfile, AfterStop, Continue
<1>9. CASE RemovePidfile(c)
  BY <1>1, <1>3, <1>9 DEF RemovePidfile, AfterStop, Continue
<1>10. CASE Report(c)
  BY <1>1, <1>2, <1>10 DEF Report, PortTaken
<1>11. CASE \/ Spawn(c) \/ TruncatePidfile(c) \/ WritePidfile(c) \/ Signal(c)
            \/ SeeClosed(c)
  BY <1>3, <1>11 DEF Spawn, TruncatePidfile, WritePidfile, Signal, SeeClosed, Continue
<1>12. QED
  BY <1>4, <1>5, <1>6, <1>7, <1>8, <1>9, <1>10, <1>11 DEF CommandStep

\* Under the same circumstances every command's answer is true when it is given.
THEOREM AnswersTrue == ASSUME OneOperator PROVE LauncherSpec => AnswersAreTrue
<1>1. ASSUME LauncherTypeOK, LauncherInv, LauncherNext, NEW c \in Commands, answer'[c] # answer[c]
      PROVE  TruthOf(c)
  <2>1. CASE CommandStep(c)
    BY <1>1, <2>1, ReturnsAreTrue
  <2>2. ASSUME NEW d \in Commands, d # c, CommandStep(d) PROVE FALSE
    BY <1>1, <2>2, OneCommandSteps DEF LauncherInv
  <2>3. ASSUME NEW d \in Commands, KillCommand(d) PROVE FALSE
    BY <1>1, <2>3 DEF KillCommand, OneOperator, LauncherTypeOK
  <2>4. ASSUME NEW d \in Commands, Begin(d) PROVE FALSE
    BY <1>1, <2>4 DEF Begin
  <2>5. ASSUME NEW p \in Pids, DaemonStep(p) \/ Crash(p) \/ StartByHand(p) PROVE FALSE
    BY <1>1, <2>5 DEF DaemonStep, LoadHosts, Bind, Exit, Crash, StartByHand
  <2>6. ASSUME EditHosts PROVE FALSE
    BY <1>1, <2>6 DEF EditHosts
  <2>7. QED
    BY <1>1, <2>1, <2>2, <2>3, <2>4, <2>5, <2>6 DEF LauncherNext
<1>2. LauncherTypeOK /\ LauncherInv /\ [LauncherNext]_launcherVars =>
        [\A c \in Commands : answer'[c] # answer[c] => TruthOf(c)]_launcherVars
  BY <1>1
<1>3. QED
  BY <1>2, AlwaysInv, PTL DEF LauncherSpec, AnswersAreTrue
=============================================================================
