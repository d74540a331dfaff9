------------------------------ MODULE MCTools ------------------------------
(***************************************************************************)
(* The tools on small instances: the diagnostics of one attempt, the       *)
(* reporter over runs, and embedex.  They share nothing, so that a         *)
(* behaviour is one of a single tool, with the others at rest.             *)
(***************************************************************************)
EXTENDS NetworkProcessing, LlmReporter, Embedex

CONSTANTS u1, u2, b1, b2, t1, t2

-----------------------------------------------------------------------------
(* An attempt: seven snapshots of requests, lifecycle records, damaged traces. *)

Body(type, held) == [contentType |-> type, content |-> held]
Nothing == Body("none", "none")

Field(name, value) == [name |-> name, value |-> value]
ContentType(type) == <<Field("content-type", type)>>

\* An XHR with JSON in both directions; the other snapshots differ from it.
Xhr ==
  [kind |-> "resource-snapshot", whole |-> TRUE, url |-> u2, status |-> 200, declared |-> "xhr",
   extension |-> "none", failure |-> "none", wasAborted |-> FALSE,
   requestHeaders |-> <<Field("cookie", "secret"), Field("x-datadog-trace-id", "2"),
                        Field("x-datadog-parent-id", "9"), Field("x-request-id", "r")>>,
   responseHeaders |-> <<Field("content-type", "json"), Field("x-correlation-id", "")>>,
   timings |-> [send |-> 0, wait |-> 1, receive |-> 1, connect |-> -1, ssl |-> -1],
   monotonic |-> NoOffset, started |-> 0, request |-> Body("json", b1),
   response |-> Body("json", b1), redirectUrl |-> NoUrl]

MCSnapshots ==
  {Xhr,
   [Xhr EXCEPT !.monotonic = 2, !.started = 2, !.response = Body("json", "long"),
               !.requestHeaders = @ \o <<Field("traceparent", "00-3-1-01")>>,
               !.responseHeaders = @ \o <<Field("traceparent", "ff-5-5-01")>>,
               !.timings = [dns |-> 1, connect |-> 1, ssl |-> 1]],
   [Xhr EXCEPT !.url = u1, !.status = 302, !.declared = "none", !.started = 1,
               !.requestHeaders = <<Field("x-datadog-trace-id", "5")>> \o @, !.request = Nothing,
               !.responseHeaders = ContentType("html"), !.redirectUrl = u2],
   [Xhr EXCEPT !.url = u1, !.status = 500, !.started = 2, !.request = Body("picture", b1),
               !.response = Body("html", b1),
               !.requestHeaders = <<Field("x-datadog-trace-id", "5"),
                                    Field("traceparent", "00-3-1-01")>>,
               !.responseHeaders = @ \o <<Field("x-request-id", "s"),
                                            Field("traceparent", "00-4-0-01")>>,
               !.timings = [ssl |-> 1]],
   [Xhr EXCEPT !.declared = "none", !.responseHeaders = ContentType(""), !.extension = "mjs",
               !.started = 1, !.request = Nothing, !.response = Nothing],
   [Xhr EXCEPT !.status = -1, !.failure = "abort", !.wasAborted = TRUE, !.started = NoOffset,
               !.responseHeaders = <<Field("traceparent", "00-3-1-01"),
                                     Field("traceparent", "00-4-2-01")>>,
               !.request = Body("json", "missing"), !.response = Body("json", b2)],
   [Xhr EXCEPT !.whole = FALSE]}

MCOffered == ObservationsOf(MCSnapshots, {{b1, b2, "long"}}, {NoAnchor, 0})
MCContexts == {o.context : o \in MCOffered}
MCShapes == {o.shape : o \in MCOffered}
MCTraceparentOf ==
  [t \in {"00-3-1-01", "00-4-2-01", "00-4-0-01", "ff-5-5-01"} |->
     CASE t = "00-3-1-01" -> [version |-> "00", trace |-> 3, span |-> 1]
       [] t = "00-4-2-01" -> [version |-> "00", trace |-> 4, span |-> 2]
       [] t = "00-4-0-01" -> [version |-> "00", trace |-> 4, span |-> 0]
       [] OTHER           -> [version |-> "ff", trace |-> 5, span |-> 5]]
MCNumberOf == [t \in {"2", "5", "9"} |-> CASE t = "2" -> 2 [] t = "5" -> 5 [] OTHER -> 9]
MCCapOf == [c \in {b1, b2, "long"} |-> IF c = "long" THEN b2 ELSE c]

MCBodies == {b1, b2}
MCOffsets == 0 .. 2
MCUrls == {u1, u2}

MCKeyOf == [u \in MCUrls |-> "api"]
MCPathOf == [u \in MCUrls |-> <<"orders", IF u = u1 THEN "" ELSE "1">>]

LifecycleRecord(named, template, classification, cdp, details) ==
  [named |-> named, key |-> "api", template |-> template, classification |-> classification,
   cdp |-> cdp, playwright |-> 2, details |-> details, bytes |-> 1]

AnyOrder == <<"orders", ":">>

Completed == LifecycleRecord(TRUE, AnyOrder, "completed", 1, {"traceId"})
NoHeaders == LifecycleRecord(TRUE, <<"orders", "1">>, "no_response_headers", NoOffset,
                             {"traceId", "protocol", "badSpanId"})
Failed    == LifecycleRecord(TRUE, <<"orders", "">>, "network_failure", 1, {})
Unnamed   == LifecycleRecord(FALSE, AnyOrder, "completed", 1, {})
Untimed   == [LifecycleRecord(TRUE, AnyOrder, "none", NoOffset, {"pending"})
                EXCEPT !.playwright = NoOffset]

MCMalformed == {"badSpanId"}

RecordLists ==
  {l \in UNION {[1 .. n -> {Completed, NoHeaders, Failed, Unnamed, Untimed}] : n \in 0 .. 3} :
     IsInjective(l)}

Attachment(kind, truncated, records) ==
  [kind |-> kind, truncated |-> truncated, records |-> records]

SomeAttachments ==
  {Attachment("encoded", t, l) : t \in BOOLEAN, l \in RecordLists}
  \cup {Attachment(k, FALSE, l) : k \in {"written", "legacy"},
          l \in {<<Completed, Untimed>>, <<Unnamed>>, <<Failed, Untimed, NoHeaders>>}}
  \cup {Attachment("unreadable", FALSE, <<>>)}

MCAttachments ==
  {<<>>} \cup {<<a>> : a \in SomeAttachments}
  \cup {<<Attachment("encoded", FALSE, <<NoHeaders, Failed>>), a>> : a \in SomeAttachments}

Event(kind, call, text, time) == [kind |-> kind, call |-> call, text |-> text, time |-> time]

Warns   == <<Event("console", "none", "warning", 1), Event("console", "none", "page-closed", 0)>>
Errs    == <<Event("other", "none", "none", 0), Event("console", "none", "error", NoOffset),
             Event("console", "none", "log", 1)>>
Clicks  == <<Event("before", "call1", "clicking", 0), Event("log", "call1", "waiting", 1),
             Event("log", "call1", "retrying", 1), Event("log", "call2", "trying", 1),
             Event("after", "call1", "error", 1)>>
Ends    == <<Event("before", "call2", "none", 1), Event("after", "call2", "none", 1),
             Event("before", "call1", "none", NoOffset), Event("after", "call1", "none", NoOffset)>>

Entry(header, kind, anchor, events) ==
  [header |-> header, kind |-> kind, anchor |-> anchor, events |-> events]

SomeEntries ==
  {Entry(h, "trace", 0, Warns) : h \in {"good", "skipped", "broken"}}
  \cup {Entry("good", "network", 1, Errs), Entry("good", "trace", 1, Clicks),
        Entry("good", "trace", NoAnchor, Ends), Entry("good", "resource", NoAnchor, Warns)}

MCTraces ==
  {[found |-> TRUE, entries |-> l] : l \in UNION {[1 .. n -> SomeEntries] : n \in 0 .. 2}}
  \cup {[found |-> FALSE, entries |-> <<Entry("good", "trace", 0, Warns)>>]}

MCSteps == <<2, 0>>

AttemptInit == BuilderInit /\ LifecycleInit /\ TraceInit

\* Many requests with few traces, or few requests with many traces.
AttemptNext ==
  \/ /\ Len(traces) <= 1 /\ (traces # <<>> => summary.observed < 2)
     /\ BuilderNext /\ UNCHANGED <<lifecycleVars, traceVars>>
  \/ traces = <<>> /\ LifecycleNext /\ UNCHANGED traceVars
  \/ summary.observed <= 1 /\ TraceNext

AttemptIsAtRest ==
  summary = EmptySummary /\ ~finalized /\ ~attached /\ traces = <<>>

-----------------------------------------------------------------------------
(* The reporter: of one test the diagnostics may be lost. *)

MCTests == {t1, t2}
MCExpectedToFail == {t2}

MCReporterNext ==
  /\ ReporterNext
  /\ \A n \in DOMAIN entries[t2].attempts' : entries[t2].attempts[n].network' = "joined"

ReporterIsAtRest == phase = "loaded" /\ runNumber = 1

-----------------------------------------------------------------------------
(* Embedex: a chain, a diamond, a source that is not referenced, a cycle, a loop. *)

MCFiles == {"a", "b", "c", "d"}
MCIsMarkdown == [f \in MCFiles |-> f # "a"]

Empty(s) == <<Tag(s, <<>>)>>
Own(f) == <<Text(f, 0)>>
Per(a, b, c, d) ==
  [f \in MCFiles |-> CASE f = "a" -> a [] f = "b" -> b [] f = "c" -> c [] f = "d" -> d]

MCLayouts ==
  {[marker |-> [a |-> <<"b">>, b |-> <<"c">>, c |-> <<"d">>],
    pieces |-> Per(Own("a"), Empty("a") \o Own("b"), Own("c") \o Empty("b"), Empty("c"))],
   [marker |-> [a |-> <<"b", "c">>, b |-> <<"d">>, c |-> <<"d">>],
    pieces |-> Per(Own("a"), Empty("a") \o Own("b"), Own("c") \o Empty("a"),
                      Empty("b") \o Empty("c"))],
   [marker |-> [a |-> <<"b">>, b |-> <<"c">>, c |-> <<"b", "d">>],
    pieces |-> Per(Own("a"), Empty("a") \o Empty("c"), Empty("b"), Empty("c"))],
   [marker |-> [a |-> <<"b", "c">>, b |-> <<"d", "c">>],
    pieces |-> Per(Own("a"), Empty("a") \o Own("b"), Empty("b") \o Own("c"),
                      Empty("b") \o Empty("a"))],
   [marker |-> [a |-> <<"a", "c">>], pieces |-> Per(Own("a"), Own("b"), Own("c"), Empty("b"))]}

RestingLayout == CHOOSE l \in MCLayouts : TRUE

EmbedexIsAtRest ==
  outcome = NoOutcome /\ marker = RestingLayout.marker /\ content = RestingLayout.pieces

-----------------------------------------------------------------------------
MCInit == AttemptInit /\ ReporterInit /\ EmbedexInit

MCNext ==
  \/ /\ ReporterIsAtRest /\ EmbedexIsAtRest /\ AttemptNext
     /\ UNCHANGED <<reporterVars, embedexVars>>
  \/ /\ AttemptIsAtRest /\ EmbedexIsAtRest /\ MCReporterNext
     /\ UNCHANGED <<builderVars, lifecycleVars, traceVars, embedexVars>>
  \/ /\ AttemptIsAtRest /\ ReporterIsAtRest /\ EmbedexNext
     /\ UNCHANGED <<builderVars, lifecycleVars, traceVars, reporterVars>>

toolsVars == <<builderVars, lifecycleVars, traceVars, reporterVars, embedexVars>>

MCSpec == MCInit /\ [][MCNext]_toolsVars
=============================================================================
