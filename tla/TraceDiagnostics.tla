-------------------------- MODULE TraceDiagnostics --------------------------
(***************************************************************************)
(* What the reporter of packages/playwright-reporter-llm reads from the    *)
(* traces of an attempt besides its network: console messages under a      *)
(* limit, and the action that failed with its log.  Traces are archives    *)
(* that may be damaged anywhere.  Texts, their caps and the fields of an   *)
(* action other than its error, its log and whether it ended are left out; *)
(* the snapshots of requests go to NetworkBuilder, one step each.          *)
(***************************************************************************)
EXTENDS ClientLifecycle

CONSTANTS
  OfferedTraces,  \* [found, entries: sequence of [header, kind, anchor, events]]
  Steps,          \* offsets of the attempt's steps, as flattenSteps lists them
  NoAnchor,
  ConsoleCap, LogCap, LogHead,
  MaxTraces       \* bound: traces of an attempt

VARIABLES
  traces,           \* those that were parsed
  consoleMessages,  \* [type, offset]
  actions           \* ActionBuilder's records, in the order their calls were first named

traceVars == <<traces, consoleMessages, actions>>

ConsoleTypes == {"warning", "error", "pageerror", "page-closed", "page-crashed"}

ASSUME TraceAssumption ==
  /\ MaxTraces \in Nat /\ ConsoleCap \in Nat /\ Steps \in Seq(Offsets)
  /\ LogHead \in Nat /\ LogCap \in Nat /\ LogCap > LogHead + 1
  /\ \A a \in OfferedTraces :
       /\ a.found \in BOOLEAN /\ a.entries \in Seq(ToSet(a.entries))
       /\ \A e \in ToSet(a.entries) :
            /\ e.header \in {"good", "skipped", "broken"}
            /\ e.kind \in {"trace", "network", "resource"}
            /\ e.anchor \in Nat \cup {NoAnchor}
            /\ e.events \in Seq(ToSet(e.events))
            /\ \A v \in ToSet(e.events) :
                 DOMAIN v = {"kind", "call", "text", "time"} /\ v.time \in Nat \cup {NoOffset}

TraceInit == traces = <<>> /\ consoleMessages = <<>> /\ actions = <<>>

-----------------------------------------------------------------------------
\* readZipArchiveEntries: an archive has a central directory or nothing; a header of it
\* that is broken ends it, an entry that cannot be located or inflated is skipped.
IsEntryRead(a, n) ==
  a.found /\ a.entries[n].header = "good" /\ \A k \in 1 .. n : a.entries[k].header # "broken"

ReadZipArchiveEntries(a) ==
  Chained([n \in DOMAIN a.entries |-> IF IsEntryRead(a, n) THEN <<a.entries[n]>> ELSE <<>>])

\* The clock of a trace: the first of its .trace entries that begins with one.
Anchor(entries) ==
  LET anchored == Among(entries, {e \in ToSet(entries) : e.kind = "trace" /\ e.anchor # NoAnchor})
  IN  IF anchored = <<>> THEN NoAnchor ELSE anchored[1].anchor

\* A line that is not JSON is no event.
LinesOf(entry) == IF entry.kind = "resource" THEN <<>> ELSE entry.events

\* The events of a trace, one line after the other.
Events(a) ==
  LET entries == ReadZipArchiveEntries(a)
  IN  Chained([n \in DOMAIN entries |-> LinesOf(entries[n])])

-----------------------------------------------------------------------------
\* buildConsoleEntryFromEvent: what is worth an entry, by its type.
IsConsoleEvent(e) == e.kind = "console" /\ e.text \in ConsoleTypes

\* Its time is one of the attempt where the trace says how the two clocks differ.
ConsoleEntry(e, clock) ==
  [type   |-> e.text,
   offset |-> IF e.time = NoOffset \/ clock = NoAnchor THEN NoOffset ELSE e.time + clock]

ConsoleEntries(events, clock) ==
  LET kept == Among(events, {e \in ToSet(events) : IsConsoleEvent(e)})
  IN  [n \in DOMAIN kept |-> ConsoleEntry(kept[n], clock)]

IsHighSignalConsoleEntry(entry) == entry.type \in {"warning", "error", "pageerror"}

\* Mutant: the entry takes the place of the first one, whatever that is.
AppendEvictingFirst(messages, entry) ==
  IF Len(messages) < ConsoleCap THEN Append(messages, entry)
  ELSE IF ~IsHighSignalConsoleEntry(entry) THEN messages
  ELSE Append(Tail(messages), entry)

\* Beyond the limit, an entry takes the place of the first one of low signal.
AppendConsoleEntryWithPriority(messages, entry) ==
  LET low   == {n \in DOMAIN messages : ~IsHighSignalConsoleEntry(messages[n])}
      first == CHOOSE n \in low : \A k \in low : n <= k
  IN  CASE Len(messages) < ConsoleCap -> Append(messages, entry)
        [] Len(messages) >= ConsoleCap /\ (~IsHighSignalConsoleEntry(entry) \/ low = {}) -> messages
        [] OTHER -> Append(SubSeq(messages, 1, first - 1)
                             \o SubSeq(messages, first + 1, Len(messages)), entry)

AppendConsoleEntries(messages, entries) ==
  LET kept[n \in 0 .. Len(entries)] ==
        IF n = 0 THEN messages ELSE AppendConsoleEntryWithPriority(kept[n - 1], entries[n])
  IN  kept[Len(entries)]

\* ActionBuilder.getOrCreateRecord.
WithRecord(records, call) ==
  IF \E n \in DOMAIN records : records[n].call = call THEN records
  ELSE Append(records, [call |-> call, error |-> "none", ended |-> FALSE, log |-> <<>>])

\* ActionBuilder.admit: an event of any kind makes a record for a call that is new.
AdmitAction(records, e) ==
  LET all == WithRecord(records, e.call)
      n   == CHOOSE k \in DOMAIN all : all[k].call = e.call
  IN  CASE e.kind = "before" -> [all EXCEPT ![n].log = IF e.text # "none" THEN Append(@, e.text)
                                                                        ELSE @]
        [] e.kind = "log"    -> [all EXCEPT ![n].log = Append(@, e.text)]
        [] e.kind = "after"  ->
             [all EXCEPT ![n].error = IF e.text # "none" THEN e.text ELSE @,
                         ![n].ended = @ \/ e.time # NoOffset]

ActionEvents(events) == Among(events, {e \in ToSet(events) : e.kind \in {"before", "log", "after"}})

AdmitActions(records, events) ==
  LET admitted[n \in 0 .. Len(events)] ==
        IF n = 0 THEN records ELSE AdmitAction(admitted[n - 1], events[n])
  IN  admitted[Len(events)]

\* compactActionLog: the first messages and the last ones, and how many were between.
CompactActionLog(log) ==
  LET tail == LogCap - LogHead - 1
  IN  IF Len(log) <= LogCap THEN log
      ELSE SubSeq(log, 1, LogHead) \o <<"omitted">> \o SubSeq(log, Len(log) - tail + 1, Len(log))

NoAction == [call |-> "none", error |-> "none", ended |-> FALSE, log |-> <<>>]

\* The last action with an error, or else the last one that ended.
FindFailingAction ==
  LET failed == Among(actions, {r \in ToSet(actions) : r.error # "none"})
      ended  == Among(actions, {r \in ToSet(actions) : r.ended})
      found  == CASE failed # <<>>                  -> failed[Len(failed)]
                  [] failed = <<>> /\ ended # <<>> -> ended[Len(ended)]
                  [] OTHER                          -> NoAction
  IN  [found EXCEPT !.log = CompactActionLog(@)]

\* parseTraceIntoBuilder.
ParseTrace(a) ==
  /\ ~finalized /\ Len(traces) < MaxTraces
  /\ traces' = Append(traces, a)
  /\ consoleMessages' = AppendConsoleEntries(consoleMessages,
                          ConsoleEntries(Events(a), Anchor(ReadZipArchiveEntries(a))))
  /\ actions' = AdmitActions(actions, ActionEvents(Events(a)))

TraceNext == \E a \in OfferedTraces : ParseTrace(a) /\ UNCHANGED <<builderVars, lifecycleVars>>

\* An attempt: its network, the lifecycles of its requests, and its traces.
TraceSpec ==
  /\ BuilderInit /\ LifecycleInit /\ TraceInit
  /\ [][\/ BuilderNext /\ UNCHANGED <<lifecycleVars, traceVars>>
        \/ LifecycleNext /\ UNCHANGED traceVars
        \/ TraceNext]_<<builderVars, lifecycleVars, traceVars>>

-----------------------------------------------------------------------------
(* buildTimeline. *)

\* The instances as sortInstances lists them: each time the first of those that are left.
ListedInstances ==
  LET First(left) == CHOOSE i \in left : \A j \in left \ {i} : Before(i, j)
      list[n \in 0 .. Cardinality(instances)] ==
        IF n = 0 THEN <<>> ELSE Append(list[n - 1], First(instances \ ToSet(list[n - 1])))
  IN  list[Cardinality(instances)]

TimelineEntry(kind, offset, of) == [kind |-> kind, offset |-> offset, of |-> of]

\* toSorted, which is stable: an entry comes behind those of its time.
InsertByTime(list, e) ==
  Among(list, {x \in ToSet(list) : x.offset <= e.offset}) \o <<e>>
    \o Among(list, {x \in ToSet(list) : x.offset > e.offset})

SortedByTime(list) ==
  LET sorted[n \in 0 .. Len(list)] == IF n = 0 THEN <<>> ELSE InsertByTime(sorted[n - 1], list[n])
  IN  sorted[Len(list)]

\* Steps, then requests, then messages, those with a time, by time.
Timeline ==
  LET listed  == ListedInstances
      entries == [n \in DOMAIN Steps |-> TimelineEntry("step", Steps[n], n)]
                 \o [n \in DOMAIN listed |->
                       TimelineEntry("network", listed[n].offset, listed[n].number)]
                 \o [n \in DOMAIN consoleMessages |->
                       TimelineEntry("console", consoleMessages[n].offset, n)]
  IN  SortedByTime(Among(entries, {e \in ToSet(entries) : e.offset # NoOffset}))

-----------------------------------------------------------------------------
\* All that could be read of an archive, whatever else of it is damaged.
Readable(a) ==
  Chained([n \in DOMAIN a.entries |-> IF IsEntryRead(a, n) THEN LinesOf(a.entries[n]) ELSE <<>>])

WhatCouldBeRead == Chained([n \in DOMAIN traces |-> Readable(traces[n])])

\* A damaged trace costs only what is damaged, and the limit on messages never costs a
\* warning or an error while there is anything else to drop: the first of them are kept,
\* in their order.  The failing action is one that failed if any did, and nothing that is
\* retained and timed is missing from the timeline, which runs forward.
SignalSurvives ==
  LET IsSignal(e) == e.kind = "console" /\ e.text \in {"warning", "error", "pageerror"}
      all == WhatCouldBeRead
      could == Among(all, {e \in ToSet(all) : IsSignal(e)})
      kept == Among(consoleMessages, {m \in ToSet(consoleMessages) : IsHighSignalConsoleEntry(m)})
      timeline == Timeline
  IN  /\ Len(consoleMessages) <= ConsoleCap
      /\ Len(kept) = (IF Len(could) < ConsoleCap THEN Len(could) ELSE ConsoleCap)
      /\ \A n \in DOMAIN kept : kept[n].type = could[n].text
      /\ (\E e \in ToSet(all) : e.kind = "after" /\ e.text # "none")
         => FindFailingAction.error # "none"
      /\ Len(FindFailingAction.log) <= LogCap
      /\ \A m, n \in DOMAIN timeline : m < n => timeline[m].offset <= timeline[n].offset
      /\ {e \in ToSet(timeline) : e.kind = "network"} =
           {TimelineEntry("network", i.offset, i.number) :
              i \in {j \in instances : j.offset # NoOffset}}
=============================================================================
