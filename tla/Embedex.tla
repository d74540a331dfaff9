------------------------------- MODULE Embedex -------------------------------
(***************************************************************************)
(* packages/embedex: sources name the files that embed them, and these     *)
(* hold tags whose content is replaced by that of the source.  A file can  *)
(* be both, so that contents travel along chains in one run.               *)
(*                                                                         *)
(* A file is its pieces: texts, and tags with the texts in them.           *)
(* Prefixes, code fences, blank lines and line endings are left out; a tag *)
(* has a line of its own and is closed.  The code replaces one tag's text  *)
(* after the other, wherever it occurs; all at once here, as no tag's text *)
(* is taken to be within another's.  A run reads and writes in one step,   *)
(* the files being left alone meanwhile.                                   *)
(***************************************************************************)
EXTENDS Lists, FiniteSets

CONSTANTS
  Files,
  Layouts,     \* [marker: per source its destinations, pieces: per file its pieces]
  IsMarkdown,  \* per file whether its extension is md or mdx
  MaxVersion   \* bound: edits of a text

VARIABLES
  marker,   \* per source the destinations its first line names
  content,  \* per file its pieces
  outcome   \* of the last run, unless a file was changed since

embedexVars == <<marker, content, outcome>>

Text(f, version) == [kind |-> "text", of |-> f, version |-> version]
Tag(s, body) == [kind |-> "tag", of |-> s, body |-> body]

Texts == [kind : {"text"}, of : Files, version : Nat]
Pieces == Texts \cup [kind : {"tag"}, of : Files, body : Seq(Texts)]

\* A source that holds tags itself is markdown: only there nested tags are stripped.
OnlyMarkdownNests(sources, files) == \A s \in sources : ~IsMarkdown[s] => files[s] \in Seq(Texts)

ASSUME EmbedexAssumption ==
  /\ MaxVersion \in Nat /\ IsFiniteSet(Files)
  /\ \A l \in Layouts :
       /\ DOMAIN l.marker \subseteq Files
       /\ \A s \in DOMAIN l.marker : l.marker[s] \in Seq(Files)
       /\ l.pieces \in [Files -> Seq(Pieces)] /\ OnlyMarkdownNests(DOMAIN l.marker, l.pieces)

NoOutcome == [done |-> FALSE, write |-> FALSE, codes |-> <<>>, cycle |-> <<>>, exit |-> 0]

EmbedexInit ==
  \E l \in Layouts : marker = l.marker /\ content = l.pieces /\ outcome = NoOutcome

-----------------------------------------------------------------------------
(* The graph.  Sources are read at the same time and listed as they arrive. *)

Orders ==
  {order \in [1 .. Cardinality(DOMAIN marker) -> DOMAIN marker] : ToSet(order) = DOMAIN marker}

SourcesOf(d) == {s \in DOMAIN marker : d \in ToSet(marker[s])}

Destinations == UNION {ToSet(marker[s]) : s \in DOMAIN marker}

WithNew(list, d) == IF d \in ToSet(list) THEN list ELSE Append(list, d)

\* createDestinationMap: destinations in the order in which sources name them.
DestinationList(order) ==
  LET named == Chained([n \in DOMAIN order |-> marker[order[n]]])
      list[n \in 0 .. Len(named)] ==
        IF n = 0 THEN <<>> ELSE WithNew(list[n - 1], named[n])
  IN  list[Len(named)]

\* buildDependencyGraph: the sources of a destination that are destinations themselves.
Dependencies(d) == SourcesOf(d) \cap Destinations

\* Where the search may go on to, in order: what is not done yet of what the last of the
\* path depends on, and of all destinations when there is no path.
NextNodes(search, order) ==
  LET path == search.path
  IN  Among(IF path = <<>> THEN DestinationList(order)
            ELSE Among(order, Dependencies(path[Len(path)])),
            Files \ search.visited)

\* The cycle that a node on the path closes.
Closes(path, node) ==
  Append(SubSeq(path, CHOOSE n \in DOMAIN path : path[n] = node, Len(path)), node)

\* hasCycle, a step of the depth-first search at a time: go on to the first node, which
\* closes a cycle if it is on the path; with no such node, the last of the path is done.
HasCycle(search, order) ==
  LET path == search.path
      next == NextNodes(search, order)
  IN  CASE search.cycle # <<>> \/ (path = <<>> /\ next = <<>>) -> search
        [] search.cycle = <<>> /\ path # <<>> /\ next = <<>> ->
             [search EXCEPT !.path = Front(path), !.visited = @ \cup {path[Len(path)]}]
        [] search.cycle = <<>> /\ next # <<>> /\ next[1] \in ToSet(path) ->
             [search EXCEPT !.cycle = Closes(path, next[1])]
        [] OTHER -> [search EXCEPT !.path = Append(path, next[1])]

\* Each node is entered once and left once.
Search(order) ==
  LET search[n \in 0 .. 2 * Cardinality(Destinations)] ==
        IF n = 0 THEN [path |-> <<>>, visited |-> {}, cycle |-> <<>>]
        ELSE HasCycle(search[n - 1], order)
  IN  search[2 * Cardinality(Destinations)]

DetectCircularDependency(order) == Search(order).cycle

\* Mutant: destinations are processed as they were listed.
UnsortedDestinations(order) == DestinationList(order)

Ready(done) == {d \in Destinations : Dependencies(d) \subseteq done}

\* The n-th destination is taken off the queue, and puts those behind it whose last
\* dependency it was.
TakeOff(queue, n, list) ==
  LET Off(k) == {queue[j] : j \in 1 .. k}
  IN  IF n > Len(queue) THEN queue
      ELSE queue \o Among(list, Ready(Off(n)) \ Ready(Off(n - 1)))

\* topologicalSort: as many turns as there are destinations, those taken off included.
TopologicalSort(order) ==
  LET list == DestinationList(order)
      queue[n \in 0 .. Cardinality(Destinations)] ==
        IF n = 0 THEN Among(list, Ready({})) ELSE TakeOff(queue[n - 1], n, list)
  IN  queue[Cardinality(Destinations)]

-----------------------------------------------------------------------------
(* processDestination. *)

WithoutTags(pieces) ==
  Chained([n \in DOMAIN pieces |->
             IF pieces[n].kind = "tag" THEN pieces[n].body ELSE <<pieces[n]>>])

\* createReplacement: the source's content, without the tags in it.
Replacement(files, s) == IF IsMarkdown[s] THEN WithoutTags(files[s]) ELSE files[s]

Replaced(files, d) ==
  [n \in DOMAIN files[d] |->
     LET piece == files[d][n]
     IN  IF piece.kind = "tag" THEN Tag(piece.of, Replacement(files, piece.of)) ELSE piece]

ReferencedSources(files, d) == {p.of : p \in {q \in ToSet(files[d]) : q.kind = "tag"}}

ProcessDestination(files, d) ==
  CASE ~(ReferencedSources(files, d) \subseteq SourcesOf(d)) -> "INVALID_SOURCE"
    [] ReferencedSources(files, d) \subseteq SourcesOf(d)
         /\ ReferencedSources(files, d) # SourcesOf(d)       -> "UNREFERENCED_SOURCE"
    [] OTHER -> IF Replaced(files, d) = files[d] THEN "NO_CHANGE" ELSE "UPDATE"

\* Each destination in turn, with what has become of those before it.
ProcessNext(run, d) ==
  LET code == ProcessDestination(run.files, d)
  IN  [codes |-> Append(run.codes, code),
       files |-> IF code = "UPDATE" THEN [run.files EXCEPT ![d] = Replaced(run.files, d)]
                 ELSE run.files]

ProcessDestinations(list) ==
  LET run[n \in 0 .. Len(list)] ==
        IF n = 0 THEN [codes |-> <<>>, files |-> content] ELSE ProcessNext(run[n - 1], list[n])
  IN  run[Len(list)]

\* processResult: what makes the command fail.
IsError(code, write) ==
  code \in {"INVALID_SOURCE", "UNREFERENCED_SOURCE", "NO_MATCH", "CIRCULAR_DEPENDENCY"}
  \/ (code = "UPDATE" /\ ~write)

Outcome(run, write) ==
  [done |-> TRUE, write |-> write, codes |-> run.codes, cycle |-> run.cycle,
   exit |-> IF run.cycle # <<>> \/ \E n \in DOMAIN run.codes : IsError(run.codes[n], write)
            THEN 1 ELSE 0]

\* What embed comes to when the sources arrive in an order; with a cycle, nothing is done.
RunOf(order) ==
  LET cycle == DetectCircularDependency(order)
      run   == IF cycle # <<>> THEN [codes |-> <<>>, files |-> content]
               ELSE ProcessDestinations(TopologicalSort(order))
  IN  [cycle |-> cycle, codes |-> run.codes, files |-> run.files]

Runs == {RunOf(order) : order \in Orders}

\* embed, to the end.
Embed(run, write) ==
  /\ outcome' = Outcome(run, write)
  /\ content' = IF write THEN run.files ELSE content
  /\ UNCHANGED marker

\* Some files could not be written, or the process died while it wrote them.
EmbedFails(run, written) ==
  /\ run.files # content
  /\ content' = [f \in Files |-> IF f \in written THEN run.files[f] ELSE content[f]]
  /\ outcome' = NoOutcome
  /\ UNCHANGED marker

-----------------------------------------------------------------------------
\* A piece after an edit of a text in it.
Edits(piece) ==
  IF piece.kind = "text" THEN {[piece EXCEPT !.version = @ + 1]}
  ELSE {[piece EXCEPT !.body[n].version = @ + 1] : n \in DOMAIN piece.body}

\* A text is edited where it is from, or in a tag that holds a copy of it.
Edit(f, n) ==
  /\ \E piece \in Edits(content[f][n]) :
       /\ \A t \in ToSet(IF piece.kind = "text" THEN <<piece>> ELSE piece.body) :
            t.version <= MaxVersion
       /\ content' = [content EXCEPT ![f][n] = piece]
  /\ outcome' = NoOutcome
  /\ UNCHANGED marker

EmbedexNext ==
  \/ \E run \in Runs :
       \/ \E write \in BOOLEAN : Embed(run, write)
       \/ \E written \in SUBSET Destinations : EmbedFails(run, written)
  \/ \E f \in Files : \E n \in DOMAIN content[f] : Edit(f, n)

EmbedexSpec == EmbedexInit /\ [][EmbedexNext]_embedexVars

-----------------------------------------------------------------------------
\* Each tag holds what its source holds, and tags and sources name each other.
InSync(files) ==
  \A d \in Destinations :
    /\ ReferencedSources(files, d) = SourcesOf(d)
    /\ \A p \in ToSet(files[d]) : p.kind = "tag" => p.body = Replacement(files, p.of)

IsCycle(path) ==
  /\ Len(path) > 1 /\ path[1] = path[Len(path)]
  /\ \A n \in 1 .. Len(path) - 1 : path[n + 1] \in Dependencies(path[n])

HasDependencyCycle ==
  \E path \in UNION {[1 .. n -> Destinations] : n \in 2 .. Cardinality(Destinations) + 1} :
    IsCycle(path)

\* The command succeeds only when all tags, along chains of any length, hold their
\* sources, so that a check in CI may be believed; a check that fails has found something
\* that is not so, and a cycle is reported exactly when there is one.
SuccessMeansInSync ==
  outcome.done =>
    /\ outcome.exit = 0 => InSync(content)
    /\ ~outcome.write /\ outcome.exit = 1 => ~InSync(content) \/ HasDependencyCycle
    /\ outcome.cycle # <<>> => IsCycle(outcome.cycle)
    /\ outcome.cycle = <<>> => ~HasDependencyCycle
=============================================================================
