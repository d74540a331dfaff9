-------------------------- MODULE NetworkProcessing --------------------------
(***************************************************************************)
(* networkProcessing.ts of packages/playwright-reporter-llm: what of an    *)
(* event of a trace NetworkBuilder is told.  An event may lack anything;   *)
(* its bodies are resources of the archive, which may be damaged.  Names   *)
(* of headers are in lower case here, and their values within the limit.   *)
(***************************************************************************)
EXTENDS TraceDiagnostics

CONSTANTS
  NoObservation,
  CapOf,          \* per content what is left of it under the limit on bodies
  TraceparentOf,  \* per text of that form its version, trace and span; zeros are 0
  NumberOf,       \* per text of digits its number
  MaxIdentifier   \* the largest identifier of 64 bits

RequestHeaders ==
  {"content-type", "x-datadog-parent-id", "x-datadog-trace-id", "x-request-id",
   "x-correlation-id", "traceparent", "tracestate"}

ResponseHeaders ==
  {"content-type", "location", "x-request-id", "x-correlation-id", "traceparent", "tracestate"}

\* extractAllowlistedHeaders: those that may be told, the last of a name.
ExtractAllowlistedHeaders(headers, allowlist) ==
  LET Add(told, h) ==
        IF h.name \in allowlist /\ h.value # "" THEN (h.name :> h.value) @@ told ELSE told
  IN  FoldLeft(Add, <<>>, headers)

Header(headers, name) == IF name \in DOMAIN headers THEN headers[name] ELSE "none"

-----------------------------------------------------------------------------
(* What is told of a request beside its shape. *)

Phases == {"send", "wait", "receive", "dns", "connect", "ssl"}

\* extractNetworkTimings: a phase that did not take place has a negative time.
ExtractNetworkTimings(e) ==
  [phase \in {p \in Phases \cap DOMAIN e.timings : e.timings[p] >= 0} |-> e.timings[phase]]

\* Securing a connection is part of connecting.
DeriveNetworkDuration(timings) ==
  LET phases == DOMAIN timings \ {"ssl"}
  IN  IF phases = {} THEN NoOffset ELSE MapThenSumSet(LAMBDA p : timings[p], phases)

NoTrace == [trace |-> 0, span |-> 0]

\* A header of another form, of the version that is none, or with zeros, says nothing.
ParseTraceparent(headers) ==
  LET text == Header(headers, "traceparent") IN
  IF /\ text \in DOMAIN TraceparentOf
     /\ TraceparentOf[text].version # "ff"
     /\ 0 \notin {TraceparentOf[text].trace, TraceparentOf[text].span}
  THEN [trace |-> TraceparentOf[text].trace, span |-> TraceparentOf[text].span]
  ELSE NoTrace

ParseDatadogIdentifier(text) ==
  IF text \in DOMAIN NumberOf /\ NumberOf[text] <= MaxIdentifier THEN NumberOf[text] ELSE 0

\* What the server says, or else what its tracer was told, or else what the client says.
ExtractTraceContext(request, response) ==
  LET datadog == [trace |-> ParseDatadogIdentifier(Header(request, "x-datadog-trace-id")),
                  span  |-> ParseDatadogIdentifier(Header(request, "x-datadog-parent-id"))]
  IN  CASE ParseTraceparent(response) # NoTrace -> ParseTraceparent(response)
        [] ParseTraceparent(response) = NoTrace /\ datadog.trace # 0 -> datadog
        [] OTHER -> ParseTraceparent(request)

\* buildInstance, but for the time and the redirect.
BuildContext(e, request, response) ==
  LET timings == ExtractNetworkTimings(e)
      Either(name) == IF name \in DOMAIN request THEN request[name] ELSE Header(response, name)
  IN  [timings |-> timings, duration |-> DeriveNetworkDuration(timings),
       context |-> ExtractTraceContext(request, response),
       requestId |-> Either("x-request-id"), correlationId |-> Either("x-correlation-id")]

-----------------------------------------------------------------------------
(* Its shape and its bodies. *)

\* inferResourceTypeFromContentType: HTML is a document, JSON says nothing.
TypeOfContent ==
  [html |-> "document", json |-> "none", css |-> "stylesheet", javascript |-> "script",
   picture |-> "image", typeface |-> "font", recording |-> "media", none |-> "none"]

\* inferResourceTypeFromUrl: what the extension of its path or its last word looks like.
TypeOfUrl(extension) ==
  CASE extension \in {"js", "mjs", "cjs"} -> "script"
    [] extension = "css"                  -> "stylesheet"
    [] extension \in {"png", "svg"}       -> "image"
    [] extension = "woff2"                -> "font"
    [] extension = "mp4"                  -> "media"
    [] OTHER                              -> "none"

\* What the browser says it is, or else its content, or else its URL.
InferResourceType(e, contentType) ==
  CASE e.declared # "none" -> e.declared
    [] e.declared = "none" /\ TypeOfContent[contentType] # "none" -> TypeOfContent[contentType]
    [] OTHER -> TypeOfUrl(e.extension)

BuildShape(e, contentType) ==
  [url |-> e.url, status |-> e.status, resourceType |-> InferResourceType(e, contentType),
   failure |-> e.failure, wasAborted |-> e.wasAborted]

\* isJsonOrTextContentType.
IsJsonOrText(contentType) == contentType \in {"html", "json", "css", "javascript"}

\* readTraceResourceBody: no body if it is neither, or the archive does not hold it.
ReadTraceResourceBody(body, resources) ==
  IF IsJsonOrText(body.contentType) /\ body.content \in resources THEN CapOf[body.content]
                                                                  ELSE NoBody

\* computeNetworkOffsetMs: by the trace's clock if both are known, or by the date.
ComputeNetworkOffset(e, anchor) ==
  IF e.monotonic # NoOffset /\ anchor # NoAnchor THEN e.monotonic + anchor ELSE e.started

BuildNetworkObservationFromEvent(e, resources, anchor) ==
  IF e.kind # "resource-snapshot" \/ ~e.whole THEN NoObservation
  ELSE LET request  == ExtractAllowlistedHeaders(e.requestHeaders, RequestHeaders)
           response == ExtractAllowlistedHeaders(e.responseHeaders, ResponseHeaders)
  IN   [shape        |-> BuildShape(e, Header(response, "content-type")),
        context      |-> BuildContext(e, request, response),
        offset       |-> ComputeNetworkOffset(e, anchor),
        requestBody  |-> ReadTraceResourceBody(e.request, resources),
        responseBody |-> ReadTraceResourceBody(e.response, resources),
        redirectTo   |-> e.redirectUrl]

ObservationsOf(events, archives, anchors) ==
  {BuildNetworkObservationFromEvent(e, resources, anchor) :
     e \in events, resources \in archives, anchor \in anchors} \ {NoObservation}
=============================================================================
