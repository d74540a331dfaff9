--------------------------- MODULE ClientLifecycle ---------------------------
(***************************************************************************)
(* Client lifecycles of packages/playwright-reporter-llm: a fixture in the *)
(* test encodes what the browser observed of its requests into a bounded   *)
(* attachment, and the reporter joins the records to the instances of the  *)
(* attempt's network.  Records are lost at six places on the way.          *)
(*                                                                         *)
(* The optional fields of a record are its details, whatever they say.     *)
(***************************************************************************)
EXTENDS NetworkBuilder, Lists

CONSTANTS
  OfferedAttachments,  \* the lists of attachments that results may have
  KeyOf,               \* per URL its method and origin, or NoKey
  NoKey,               \* of a URL that cannot be parsed
  PathOf,              \* per URL the segments of its path
  Malformed,           \* the details whose values no sanitizer lets pass
  MaximumRecords, MaximumBytes,
  EmptyBytes,          \* size of an attachment without records, at most
  MaxJoined            \* bound: requests of an attempt whose lifecycles are joined

VARIABLES
  attachments,  \* those of the result, once attached
  lifecycles,   \* per instance with a clientLifecycle, that
  attached

lifecycleVars == <<attachments, lifecycles, attached>>

\* CLIENT_LIFECYCLE_CLASSIFICATION_PRIORITY.
ClassificationPriority ==
  <<"no_response_headers", "headers_without_body_completion", "network_failure", "completed">>

ASSUME LifecycleAssumption ==
  /\ MaximumRecords \in Nat \ {0} /\ MaximumBytes \in Nat /\ EmptyBytes \in 0 .. MaximumBytes
  /\ MaxJoined \in Nat
  /\ \A list \in OfferedAttachments : list \in Seq(ToSet(list)) /\ \A a \in ToSet(list) :
       /\ a.kind \in {"encoded", "written", "legacy", "unreadable"}
       /\ a.truncated \in BOOLEAN
       /\ a.records \in Seq(ToSet(a.records))
       /\ \A r \in ToSet(a.records) :
            /\ DOMAIN r = {"named", "key", "template", "classification", "cdp", "playwright",
                           "details", "bytes"}
            /\ r.named \in BOOLEAN /\ r.bytes \in Nat \ {0}
            /\ r.classification \in ToSet(ClassificationPriority) \cup {"none"}
            /\ {r.cdp, r.playwright} \subseteq Offsets \cup {NoOffset}
            /\ IsFiniteSet(r.details)

LifecycleInit == attachments = <<>> /\ lifecycles = [i \in {} |-> {}] /\ attached = FALSE

-----------------------------------------------------------------------------
(* The contract: what is written, and what is read of it. *)

\* sanitizeLifecycleIdentifier and the like: a malformed value counts as none.
Sanitized(details) == details \ Malformed

\* The same of the method, the origin and the path, which a record needs,
IsNamed(r) == r.named

\* and of its classification, which the second version needs too.
IsClassified(r) == r.classification \in ToSet(ClassificationPriority)

\* copyEvent and the like: a detail that is malformed is left out, alone.
CopyRecordFields(r) == [r EXCEPT !.details = Sanitized(@)]

\* It has a method, an origin and a path, a classification, and a start by some clock.
IsRecord(r) ==
  IsNamed(r) /\ IsClassified(r) /\ (r.cdp # NoOffset \/ r.playwright # NoOffset)

\* sanitizeRecord, for each of them.
SanitizeRecords(records) ==
  LET usable == Among(records, {r \in ToSet(records) : IsRecord(r)})
  IN  [n \in DOMAIN usable |-> CopyRecordFields(usable[n])]

PrioritizeRecords(records) ==
  LET Of(n) == Among(records, {r \in ToSet(records) :
                                 r.classification = ClassificationPriority[n]})
  IN  Of(1) \o Of(2) \o Of(3) \o Of(4)

SizeOf(r) == r.bytes + Cardinality(r.details)

\* The size of an attachment, its records with a separator between them.
ByteLength(records) ==
  LET size[n \in 0 .. Len(records)] == IF n = 0 THEN EmptyBytes
                                       ELSE size[n - 1] + SizeOf(records[n])
  IN  size[Len(records)] + (IF records = <<>> THEN 0 ELSE Len(records) - 1)

\* Mutant: the separator before a record is not counted.
FitsWithoutSeparator(included, r) == ByteLength(included) + SizeOf(r) <= MaximumBytes

Fits(included, r) ==
  ByteLength(included) + (IF included = <<>> THEN 0 ELSE 1) + SizeOf(r) <= MaximumBytes

\* Each record that still fits, the most telling ones first.
Include(included, r) ==
  IF Len(included) < MaximumRecords /\ Fits(included, r) THEN Append(included, r) ELSE included

IncludedRecords(records) ==
  LET offered == PrioritizeRecords(SanitizeRecords(records))
      included[n \in 0 .. Len(offered)] ==
        IF n = 0 THEN <<>> ELSE Include(included[n - 1], offered[n])
  IN  included[Len(offered)]

Content(version, records, truncated) ==
  [version |-> version, records |-> records, truncated |-> truncated]

EncodeBrowserLifecycleAttachment(records, truncated) ==
  LET included == IncludedRecords(records)
  IN  Content(2, included, truncated \/ Len(included) < Len(records))

NothingParsed == [records |-> <<>>, truncated |-> FALSE]

AtMost(records) == SubSeq(records, 1, IF Len(records) < MaximumRecords THEN Len(records)
                                                                      ELSE MaximumRecords)

\* parseSharedLifecycleRecord: a request started when the browser said so, or else when
\* Playwright did, and was pending if its classification says so.
ParseSharedLifecycleRecord(r) ==
  [key |-> r.key, template |-> r.template, classification |-> r.classification,
   started |-> IF r.cdp # NoOffset THEN r.cdp ELSE r.playwright,
   pending |-> r.classification \in {"no_response_headers", "headers_without_body_completion"},
   details |-> r.details]

\* copyLifecycleEventFields and the like, for the first version.
CopyLifecycleFields(details) == Sanitized(details)

\* parseLifecycleRecord: the first version has one start, and says itself what is pending.
ParseLifecycleRecord(r) ==
  [key |-> r.key, template |-> r.template, classification |-> r.classification,
   started |-> r.cdp, pending |-> "pending" \in r.details,
   details |-> CopyLifecycleFields(r.details)]

\* A content too large is refused, and one without a single record that can be used.
ParseBrowserLifecycleAttachment(content) ==
  LET records == SanitizeRecords(AtMost(content.records))
  IN  IF content.records # <<>> /\ records = <<>> THEN NothingParsed
      ELSE [records |-> [n \in DOMAIN records |-> ParseSharedLifecycleRecord(records[n])],
            truncated |-> content.truncated \/ Len(records) < Len(content.records)]

\* The first version: a record needs no classification and no start, and one that is
\* malformed is left out without a word.
ParseLegacyAttachment(content) ==
  LET named == Among(AtMost(content.records), {r \in ToSet(content.records) : IsNamed(r)})
  IN  [records |-> [n \in DOMAIN named |-> ParseLifecycleRecord(named[n])],
       truncated |-> content.truncated \/ Len(content.records) > MaximumRecords]

\* What is in an attachment: "written" is the second version by another writer, which
\* need not keep to the limits, "unreadable" has another name, no content, or no JSON.
ContentOf(a) ==
  CASE a.kind = "encoded" -> EncodeBrowserLifecycleAttachment(a.records, a.truncated)
    [] a.kind = "written" -> Content(2, a.records, a.truncated)
    [] a.kind = "legacy"  -> Content(1, a.records, a.truncated)
    [] OTHER              -> Content(0, <<>>, FALSE)

\* readBoundedAttachment.
IsRead(content) == ByteLength(content.records) <= MaximumBytes

ParseAttachment(a) ==
  LET content == ContentOf(a) IN
  IF ~IsRead(content) THEN NothingParsed
  ELSE CASE content.version = 2 -> ParseBrowserLifecycleAttachment(content)
         [] content.version = 1 -> ParseLegacyAttachment(content)
         [] OTHER               -> NothingParsed

\* Mutant: a record too many ends the list and is not mentioned.
AddSilently(all, parsed) ==
  [records |-> AtMost(all.records \o parsed.records),
   truncated |-> all.truncated \/ parsed.truncated]

\* The limit is one for all attachments together.
AddParsed(all, parsed) ==
  [records |-> AtMost(all.records \o parsed.records),
   truncated |-> \/ all.truncated \/ parsed.truncated
                 \/ Len(all.records \o parsed.records) > MaximumRecords]

ParseAttachments(list) ==
  LET parsed[n \in 0 .. Len(list)] ==
        IF n = 0 THEN NothingParsed ELSE AddParsed(parsed[n - 1], ParseAttachment(list[n]))
  IN  parsed[Len(list)]

-----------------------------------------------------------------------------
(* The join. *)

\* matchesPathTemplate: a parameter stands for one segment that is not empty.
MatchesPathTemplate(template, path) ==
  /\ Len(template) = Len(path)
  /\ \A n \in DOMAIN template :
       IF template[n] = ":" THEN path[n] # "" ELSE template[n] = path[n]

\* The key may be looked up, for an instance whose URL could be parsed, and the path fits.
IsJoinCandidate(r, i) ==
  /\ KeyOf[i.shape.url] # NoKey /\ KeyOf[i.shape.url] = r.key
  /\ MatchesPathTemplate(r.template, PathOf[i.shape.url])

Distance(r, i) == IF r.started < i.offset THEN i.offset - r.started ELSE r.started - i.offset

\* The first, if one of the times is unknown; an instance with a time before one without.
IsCloser(r, i, j) ==
  IF r.started = NoOffset THEN Before(i, j)
  ELSE \/ i.offset # NoOffset /\ j.offset = NoOffset
       \/ i.offset = NoOffset /\ j.offset = NoOffset /\ Before(i, j)
       \/ /\ i.offset # NoOffset /\ j.offset # NoOffset
          /\ \/ Distance(r, i) < Distance(r, j)
             \/ Distance(r, i) = Distance(r, j) /\ Before(i, j)

PickClosestInstance(r, candidates) ==
  {i \in candidates : \A j \in candidates \ {i} : IsCloser(r, i, j)}

Candidates(joined, r) == {i \in instances \ DOMAIN joined : IsJoinCandidate(r, i)}

\* A record goes to the closest instance that has none yet, if there is one.
Join(joined, parsed, n) ==
  LET r == parsed.records[n]
      closest == PickClosestInstance(r, Candidates(joined, r))
  IN  [i \in DOMAIN joined \cup closest |->
         IF i \in closest THEN [source |-> n, record |-> r, truncated |-> parsed.truncated]
         ELSE joined[i]]

\* One record after the other.
JoinClientLifecycles(parsed) ==
  LET joined[n \in 0 .. Len(parsed.records)] ==
        IF n = 0 THEN [i \in {} |-> {}] ELSE Join(joined[n - 1], parsed, n)
  IN  joined[Len(parsed.records)]

AttachClientLifecycles(list) ==
  /\ finalized /\ ~attached /\ summary.observed <= MaxJoined
  /\ attachments' = list
  /\ lifecycles' = JoinClientLifecycles(ParseAttachments(list))
  /\ attached' = TRUE

LifecycleNext ==
  \E list \in OfferedAttachments : AttachClientLifecycles(list) /\ UNCHANGED builderVars

\* The network of an attempt, and its lifecycles.
LifecycleSpec ==
  /\ BuilderInit /\ LifecycleInit
  /\ [][(BuilderNext /\ UNCHANGED lifecycleVars) \/ LifecycleNext]_<<builderVars, lifecycleVars>>

-----------------------------------------------------------------------------
\* The records of encoded attachments that the result does not hold.
IsLost(list, parsed) ==
  \E n \in DOMAIN list :
    list[n].kind = "encoded" /\ \E k \in DOMAIN list[n].records :
      LET r == list[n].records[k] IN
      \/ ~IsRecord(r)
      \/ ParseSharedLifecycleRecord(CopyRecordFields(r)) \notin ToSet(parsed.records)

\* What the fixture saw and the report does not tell, whether it was malformed, did not
\* fit in the attachment or in the limit of all attachments, is not lost without a word:
\* each lifecycle of the attempt says so.  What was dropped is never more telling than
\* what took its place.
NothingLostSilently ==
  LET parsed == ParseAttachments(attachments) IN
  /\ IsLost(attachments, parsed) => \A i \in DOMAIN lifecycles : lifecycles[i].truncated
  /\ \A n \in DOMAIN attachments : attachments[n].kind = "encoded" =>
       LET a == attachments[n]
           content == EncodeBrowserLifecycleAttachment(a.records, a.truncated)
           rank(r) == CHOOSE k \in 1 .. 4 : ClassificationPriority[k] = r.classification
       IN  /\ ParseAttachment(a).records =
                [k \in DOMAIN content.records |-> ParseSharedLifecycleRecord(content.records[k])]
           /\ \A r \in ToSet(SanitizeRecords(a.records)) \ ToSet(content.records) :
                LET above == Among(content.records, {q \in ToSet(content.records) :
                                                       rank(q) <= rank(r)}) IN
                \/ Len(above) = MaximumRecords
                \/ ByteLength(Append(above, r)) > MaximumBytes

\* Records and instances are joined one to one, and as the records come: an instance that
\* would fit a record better than its own, or one that would fit a record without one,
\* belongs to a record before it.
JoinsAreStable ==
  LET parsed == ParseAttachments(attachments) IN
  /\ DOMAIN lifecycles \subseteq instances
  /\ \A i, j \in DOMAIN lifecycles : lifecycles[i].source = lifecycles[j].source => i = j
  /\ \A i \in DOMAIN lifecycles : /\ IsJoinCandidate(lifecycles[i].record, i)
                                  /\ lifecycles[i].record = parsed.records[lifecycles[i].source]
  /\ attached => \A n \in DOMAIN parsed.records : \A j \in instances :
       LET r == parsed.records[n] IN
       IsJoinCandidate(r, j) =>
         \/ j \in DOMAIN lifecycles /\ lifecycles[j].source <= n
         \/ \E i \in DOMAIN lifecycles : lifecycles[i].source = n /\ IsCloser(r, i, j)

\* What the report tells of the browser's side: whatever limits and malformed records cost
\* is admitted, and what is left is said of the request it belongs to.
LifecyclesAreTrue == NothingLostSilently /\ JoinsAreStable
=============================================================================
