--------------------------- MODULE Embedex_proofs ---------------------------
(***************************************************************************)
(* SuccessMeansInSync, for any files, any sources of them and any order in *)
(* which these are read.  What a run of the command comes to is shown loop *)
(* by loop: the search for a cycle is over after as many turns, and has    *)
(* found one or put what is done in an order (Grounded); the sort puts     *)
(* each destination behind what it depends on (NoneBehind); so that a      *)
(* destination is processed when its sources no longer change (RunInv).    *)
(***************************************************************************)
EXTENDS Embedex, Lists_proofs

-----------------------------------------------------------------------------
(* The graph. *)

MarkerTyped ==
  /\ DOMAIN marker \subseteq Files
  /\ \A s \in DOMAIN marker : marker[s] \in Seq(Files)

LEMMA DestinationsFinite ==
  ASSUME MarkerTyped
  PROVE  /\ Destinations \subseteq Files
         /\ IsFiniteSet(Destinations) /\ Cardinality(Destinations) \in Nat
         /\ \A s \in DOMAIN marker : marker[s] \in Seq(Destinations)
         /\ \A d \in Destinations : SourcesOf(d) \subseteq DOMAIN marker /\ SourcesOf(d) # {}
<1>1. \A s \in DOMAIN marker :
        ToSet(marker[s]) \subseteq Files /\ marker[s] \in Seq(ToSet(marker[s]))
  BY ListOfItsOwn DEF MarkerTyped
<1>2. Destinations \subseteq Files
  BY <1>1 DEF Destinations
<1>3. IsFiniteSet(Destinations) /\ Cardinality(Destinations) \in Nat
  BY <1>2, EmbedexAssumption, FS_Subset, FS_CardinalityType
<1>4. ASSUME NEW s \in DOMAIN marker
      PROVE  marker[s] \in Seq(Destinations)
  <2>1. ToSet(marker[s]) \subseteq Destinations
    BY DEF Destinations
  <2> QED BY <1>1, <2>1, ListOfMore
<1>5. \A d \in Destinations : SourcesOf(d) \subseteq DOMAIN marker /\ SourcesOf(d) # {}
  BY DEF Destinations, SourcesOf
<1> QED BY <1>2, <1>3, <1>4, <1>5

LEMMA OrderIsList ==
  ASSUME MarkerTyped, NEW order \in Orders
  PROVE  order \in Seq(DOMAIN marker) /\ ToSet(order) = DOMAIN marker
<1>1. IsFiniteSet(DOMAIN marker)
  BY EmbedexAssumption, FS_Subset DEF MarkerTyped
<1>2. Cardinality(DOMAIN marker) \in Nat
  BY <1>1, FS_CardinalityType
<1>3. order \in [1 .. Cardinality(DOMAIN marker) -> DOMAIN marker] /\ ToSet(order) = DOMAIN marker
  BY DEF Orders
<1> QED BY <1>2, <1>3

\* What the sources name, in their order.
Named(order) == Chained([n \in DOMAIN order |-> marker[order[n]]])

LEMMA NamedWhat ==
  ASSUME MarkerTyped, NEW order \in Orders
  PROVE  Named(order) \in Seq(Destinations) /\ ToSet(Named(order)) = Destinations
<1>1. order \in Seq(DOMAIN marker) /\ ToSet(order) = DOMAIN marker
  BY OrderIsList
<1>2. PICK lists : lists = Each(marker, order)
  OBVIOUS
<1>3. lists \in Seq(Seq(Destinations))
  <2>1. \A s \in DOMAIN marker : marker[s] \in Seq(Destinations)
    BY DestinationsFinite
  <2> QED BY <1>1, <1>2, <2>1, EachType
<1>4. Named(order) = Chained(lists)
  BY <1>2 DEF Named, Each
<1>5. ToSet(lists) = {marker[s] : s \in DOMAIN marker}
  <2>1. DOMAIN lists = DOMAIN order /\ \A n \in DOMAIN order : lists[n] = marker[order[n]]
    BY <1>2 DEF Each
  <2>2. {order[n] : n \in DOMAIN order} = DOMAIN marker
    BY <1>1 DEF ToSet
  <2>3. ToSet(lists) = {marker[order[n]] : n \in DOMAIN order}
    BY <2>1 DEF ToSet
  <2> QED BY <2>2, <2>3
<1>6. UNION {ToSet(l) : l \in ToSet(lists)} = Destinations
  BY <1>5 DEF Destinations
<1>7. PICK T : T = Destinations
  OBVIOUS
<1>8. lists \in Seq(Seq(T))
  BY <1>3, <1>7
<1>9. Chained(lists) \in Seq(T) /\ ToSet(Chained(lists)) = UNION {ToSet(l) : l \in ToSet(lists)}
  BY <1>8, ChainedWhat
<1> QED BY <1>4, <1>6, <1>7, <1>9

LEMMA WithNewType ==
  ASSUME NEW T, NEW list \in Seq(T), NEW d \in T
  PROVE  /\ WithNew(list, d) \in Seq(T) /\ ToSet(WithNew(list, d)) = ToSet(list) \cup {d}
         /\ NoneTwice(list) => NoneTwice(WithNew(list, d))
<1>1. CASE d \in ToSet(list)
  BY <1>1 DEF WithNew
<1>2. CASE d \notin ToSet(list)
  <2>1. PICK m : m = Append(list, d)
    OBVIOUS
  <2>2. m \in Seq(T) /\ ToSet(m) = ToSet(list) \cup {d}
    BY <2>1, OneMore
  <2>3. NoneTwice(list) => NoneTwice(m)
    BY <1>2, <2>1, DistinctMore
  <2> QED BY <1>2, <2>1, <2>2, <2>3 DEF WithNew
<1> QED BY <1>1, <1>2

\* The loop that lists what is named, without repetition.
ListsNew(f, named, order) ==
  /\ f[0] = <<>>
  /\ \A n \in 1 .. Len(named) : f[n] = WithNew(f[n - 1], named[n])
  /\ DestinationList(order) = f[Len(named)]

\* DestinationList is the last of the lists that the loop comes to.
LEMMA ListsNewExist ==
  ASSUME MarkerTyped, NEW order \in Orders, NEW named, named = Named(order)
  PROVE  \E f \in [0 .. Len(named) -> Seq(Destinations)] : ListsNew(f, named, order)
<1>1. PICK N, S : N = Len(named) /\ S = Seq(Destinations)
  OBVIOUS
<1>2. named \in Seq(Destinations) /\ N \in Nat /\ <<>> \in S
  BY <1>1, NamedWhat
<1>3. \A n \in 1 .. N : \A v \in S : WithNew(v, named[n]) \in S
  <2>1. \A n \in 1 .. N : named[n] \in Destinations
    BY <1>1, <1>2
  <2> QED BY <1>1, <2>1, WithNewType
<1>4. PICK step : step = [n \in 1 .. N |-> [v \in S |-> WithNew(v, named[n])]]
  OBVIOUS
<1>5. /\ step \in [1 .. N -> [S -> S]]
      /\ \A n \in 1 .. N : \A v \in S : step[n][v] = WithNew(v, named[n])
  BY <1>3, <1>4
<1> DEFINE Turns(f) ==
             f = [n \in 0 .. N |-> IF n = 0 THEN <<>> ELSE WithNew(f[n - 1], named[n])]
<1>6. \A n \in 0 .. N : n # 0 => n \in 1 .. N /\ n - 1 \in 0 .. N
  BY <1>2
<1>7. \E f : Turns(f)
  <2>1. PICK f \in [0 .. N -> S] : Loops(f, N, <<>>, step)
    BY <1>2, <1>5, LoopExists
  <2>2. f[0] = <<>> /\ f = [n \in 0 .. N |-> f[n]]
    BY <2>1 DEF Loops
  <2>3. \A n \in 1 .. N : f[n] = WithNew(f[n - 1], named[n])
    <3> TAKE n \in 1 .. N
    <3>1. n - 1 \in 0 .. N
      BY <1>2
    <3>2. f[n - 1] \in S /\ f[n] = step[n][f[n - 1]]
      BY <2>1, <3>1 DEF Loops
    <3> QED BY <1>5, <3>2
  <2>4. \A n \in 0 .. N : f[n] = IF n = 0 THEN <<>> ELSE WithNew(f[n - 1], named[n])
    BY <1>6, <2>2, <2>3
  <2>5. f = [n \in 0 .. N |-> IF n = 0 THEN <<>> ELSE WithNew(f[n - 1], named[n])]
    BY <2>2, <2>4, Zenon
  <2> QED BY <2>5
<1>8. PICK f : f = (CHOOSE g : Turns(g)) /\ Turns(f)
  <2> HIDE DEF Turns
  <2> QED BY <1>7
<1>9. DestinationList(order) = f[N]
  BY <1>1, <1>8 DEF DestinationList, Named
<1>10. /\ f = [n \in 0 .. N |-> f[n]]
       /\ \A n \in 0 .. N : f[n] = IF n = 0 THEN <<>> ELSE WithNew(f[n - 1], named[n])
  BY <1>8
<1> HIDE DEF Turns
<1>11. f[0] = <<>>
  <2>1. 0 \in 0 .. N
    BY <1>2
  <2> QED BY <1>10, <2>1
<1>12. \A n \in 1 .. N : f[n] = WithNew(f[n - 1], named[n])
  <2> TAKE n \in 1 .. N
  <2>1. n \in 0 .. N /\ n # 0
    BY <1>2
  <2> QED BY <1>10, <2>1
<1>13. LoopsIn(f, N, S, <<>>, step)
  BY <1>5, <1>11, <1>12 DEF LoopsIn
<1>14. \A n \in 0 .. N : f[n] \in S
  BY <1>2, <1>5, <1>13, LoopStays
<1>15. f \in [0 .. N -> S]
  BY <1>10, <1>14
<1> QED BY <1>1, <1>9, <1>11, <1>12, <1>15 DEF ListsNew

LEMMA DestinationListWhat ==
  ASSUME MarkerTyped, NEW order \in Orders
  PROVE  /\ DestinationList(order) \in Seq(Destinations)
         /\ ToSet(DestinationList(order)) = Destinations
         /\ NoneTwice(DestinationList(order))
<1>1. PICK named, N : named = Named(order) /\ N = Len(named)
  OBVIOUS
<1>2. named \in Seq(Destinations) /\ ToSet(named) = Destinations /\ N \in Nat
  BY <1>1, NamedWhat
<1>3. PICK f \in [0 .. Len(named) -> Seq(Destinations)] : ListsNew(f, named, order)
  BY <1>1, ListsNewExist
<1>4. PICK P : P = {n \in 0 .. N : NoneTwice(f[n]) /\ ToSet(f[n]) = {named[k] : k \in 1 .. n}}
  OBVIOUS
<1>5. 0 \in P
  <2>1. PICK none : none = <<>>
    OBVIOUS
  <2>2. NoneTwice(none) /\ ToSet(none) = {} /\ f[0] = none
    BY <1>3, <2>1, DistinctNone DEF ListsNew, ToSet
  <2> QED BY <1>2, <1>4, <2>2
<1>6. ASSUME NEW n \in 1 .. N, n - 1 \in P
      PROVE  n \in P
  <2>1. PICK before, d : before = f[n - 1] /\ d = named[n]
    OBVIOUS
  <2>2. before \in Seq(Destinations) /\ d \in Destinations
    BY <1>1, <1>2, <1>3, <1>6, <2>1
  <2>3. NoneTwice(before) /\ ToSet(before) = {named[k] : k \in 1 .. n - 1}
    BY <1>4, <1>6, <2>1
  <2>4. f[n] = WithNew(before, d)
    BY <1>1, <1>3, <2>1 DEF ListsNew
  <2>5. ToSet(f[n]) = ToSet(before) \cup {d} /\ NoneTwice(f[n])
    BY <2>2, <2>3, <2>4, WithNewType
  <2>6. {named[k] : k \in 1 .. n} = {named[k] : k \in 1 .. n - 1} \cup {d}
    <3>1. 1 .. n = (1 .. n - 1) \cup {n}
      BY <1>2
    <3> QED BY <2>1, <3>1
  <2> QED BY <1>2, <1>4, <2>3, <2>5, <2>6
<1>7. N \in P
  <2>1. \A n \in 0 .. N : n \in P
    BY <1>2, <1>5, <1>6, UpTo
  <2> QED BY <1>2, <2>1
<1>8. ToSet(named) = {named[k] : k \in 1 .. N}
  BY <1>1, <1>2 DEF ToSet
<1>9. DestinationList(order) = f[N] /\ f[N] \in Seq(Destinations)
  BY <1>1, <1>2, <1>3 DEF ListsNew
<1> QED BY <1>2, <1>4, <1>7, <1>8, <1>9

-----------------------------------------------------------------------------
(* The depth-first search. *)

\* A set of destinations that can be put in an order in which none is before one it depends on.
Grounded(set) ==
  \A R \in SUBSET set : R # {} => \E v \in R : Dependencies(v) \cap R = {}

Searches == [path : Seq(Destinations), visited : SUBSET Destinations, cycle : Seq(Destinations)]

\* The path follows dependencies and has nothing twice, what is done is closed under them and
\* has no cycle, and the cycle is one.
SearchInv(search) ==
  /\ search \in Searches
  /\ NoneTwice(search.path) /\ ToSet(search.path) \cap search.visited = {}
  /\ \A n \in 1 .. Len(search.path) - 1 :
       search.path[n + 1] \in Dependencies(search.path[n])
  /\ \A d \in search.visited : Dependencies(d) \subseteq search.visited
  /\ Grounded(search.visited)
  /\ search.cycle # <<>> =>
       IsCycle(search.cycle) /\ Len(search.cycle) <= Cardinality(Destinations) + 1

LEMMA NextNodesWhat ==
  ASSUME MarkerTyped, NEW order \in Orders, NEW search, SearchInv(search),
         NEW path, path = search.path
  PROVE  /\ NextNodes(search, order) \in Seq(Destinations)
         /\ path = <<>> => ToSet(NextNodes(search, order)) = Destinations \ search.visited
         /\ path # <<>> => /\ path[Len(path)] \in Destinations
                           /\ ToSet(NextNodes(search, order)) =
                                Dependencies(path[Len(path)]) \ search.visited
<1>1. PICK next, nodes :
        /\ next = NextNodes(search, order)
        /\ nodes = IF path = <<>> THEN DestinationList(order)
                   ELSE Among(order, Dependencies(path[Len(path)]))
  OBVIOUS
<1>2. next = Among(nodes, Files \ search.visited)
  BY <1>1 DEF NextNodes
<1>3. Destinations \subseteq Files
  BY DestinationsFinite
<1>4. path \in Seq(Destinations)
  BY DEF SearchInv, Searches
<1>5. CASE path = <<>>
  <2>1. nodes \in Seq(Destinations) /\ ToSet(nodes) = Destinations
    BY <1>1, <1>5, DestinationListWhat
  <2>2. next \in Seq(Destinations)
    BY <1>2, <2>1, AmongType
  <2>3. ToSet(next) = ToSet(nodes) \cap (Files \ search.visited)
    BY <1>2, <2>1, AmongWhat
  <2> QED BY <1>1, <1>3, <1>5, <2>1, <2>2, <2>3
<1>6. CASE path # <<>>
  <2>1. PICK d : d = path[Len(path)]
    OBVIOUS
  <2>2. d \in Destinations
    BY <1>4, <1>6, <2>1
  <2>3. order \in Seq(DOMAIN marker) /\ ToSet(order) = DOMAIN marker
    BY OrderIsList
  <2>4. nodes = Among(order, Dependencies(d))
    BY <1>1, <1>6, <2>1
  <2>5. nodes \in Seq(DOMAIN marker)
    BY <2>3, <2>4, AmongType
  <2>6. ToSet(nodes) = DOMAIN marker \cap Dependencies(d)
    BY <2>3, <2>4, AmongWhat
  <2>7. Dependencies(d) \subseteq DOMAIN marker /\ Dependencies(d) \subseteq Destinations
    BY DEF Dependencies, SourcesOf
  <2>8. nodes \in Seq(Destinations)
    <3>1. nodes \in Seq(ToSet(nodes))
      BY <2>5, ListOfItsOwn
    <3> QED BY <2>6, <2>7, <3>1, ListOfMore
  <2>9. next \in Seq(Destinations)
    BY <1>2, <2>8, AmongType
  <2>10. ToSet(next) = ToSet(nodes) \cap (Files \ search.visited)
    BY <1>2, <2>8, AmongWhat
  <2> QED BY <1>1, <1>3, <1>6, <2>1, <2>2, <2>6, <2>7, <2>9, <2>10
<1> QED BY <1>5, <1>6

\* With one more whose dependencies are all in it.
LEMMA GroundedMore ==
  ASSUME NEW set, Grounded(set), \A d \in set : Dependencies(d) \subseteq set,
         NEW last, last \notin set, Dependencies(last) \subseteq set
  PROVE  Grounded(set \cup {last})
<1> SUFFICES ASSUME NEW R \in SUBSET (set \cup {last}), R # {}
             PROVE  \E v \in R : Dependencies(v) \cap R = {}
  BY DEF Grounded
<1>1. CASE R \cap set = {}
  <2>1. R = {last}
    BY <1>1
  <2> QED BY <2>1
<1>2. CASE R \cap set # {}
  <2>1. PICK v \in R \cap set : Dependencies(v) \cap (R \cap set) = {}
    BY <1>2 DEF Grounded
  <2>2. Dependencies(v) \subseteq set
    BY <2>1
  <2> QED BY <2>1, <2>2
<1> QED BY <1>1, <1>2

\* A list without repetition of destinations is no longer than there are destinations.
LEMMA DistinctAtMost ==
  ASSUME NEW T, IsFiniteSet(T), NEW s \in Seq(T), NoneTwice(s), NEW A \in SUBSET T,
         ToSet(s) \cap A = {}
  PROVE  /\ Len(s) \in Nat /\ Cardinality(A) \in Nat /\ Cardinality(T) \in Nat
         /\ Len(s) + Cardinality(A) <= Cardinality(T)
<1>1. IsFiniteSet(ToSet(s)) /\ Cardinality(ToSet(s)) = Len(s) /\ Len(s) \in Nat
  BY DistinctLength
<1>2. ToSet(s) \subseteq T
  BY ListOfItsOwn
<1>3. IsFiniteSet(A) /\ Cardinality(A) \in Nat /\ Cardinality(T) \in Nat
  BY FS_Subset, FS_CardinalityType
<1>4. Cardinality(ToSet(s) \cup A) = Cardinality(ToSet(s)) + Cardinality(A)
  <2>1. Cardinality(ToSet(s) \cup A) =
          Cardinality(ToSet(s)) + Cardinality(A) - Cardinality(ToSet(s) \cap A)
    BY <1>1, <1>3, FS_Union
  <2>2. Cardinality(ToSet(s) \cap A) = 0
    BY FS_EmptySet
  <2> QED BY <1>1, <1>3, <2>1, <2>2
<1>5. Cardinality(ToSet(s) \cup A) <= Cardinality(T)
  BY <1>2, FS_Subset
<1> QED BY <1>1, <1>3, <1>4, <1>5

\* The search is over with a cycle, or when all destinations are done.
IsOver(search) == search.cycle # <<>> \/ (search.path = <<>> /\ search.visited = Destinations)

\* What has been entered, and what has been left.
Progress(search) == 2 * Cardinality(search.visited) + Len(search.path)

\* A destination is left: what it depends on has been done.
LEMMA SearchLeaves ==
  ASSUME MarkerTyped, NEW search, SearchInv(search),
         NEW path, path = search.path, path # <<>>, search.cycle = <<>>,
         Dependencies(path[Len(path)]) \subseteq search.visited,
         NEW new,
         new = [search EXCEPT !.path = Front(path), !.visited = @ \cup {path[Len(path)]}]
  PROVE  SearchInv(new) /\ Progress(new) = Progress(search) + 1
<1>1. PICK last, front, N, T :
        last = path[Len(path)] /\ front = Front(path) /\ N = Len(path) /\ T = Destinations
  OBVIOUS
<1>2. path \in Seq(T) /\ search.visited \in SUBSET T /\ search.cycle \in Seq(T)
  BY <1>1 DEF SearchInv, Searches
<1>3. NoneTwice(path) /\ ToSet(path) \cap search.visited = {}
  BY DEF SearchInv
<1>4. /\ N \in Nat \ {0} /\ last \in ToSet(path) /\ front \in Seq(T) /\ Len(front) = N - 1
      /\ \A k \in 1 .. N - 1 : front[k] = path[k]
      /\ ToSet(path) = ToSet(front) \cup {last}
      /\ NoneTwice(front) /\ last \notin ToSet(front)
  BY <1>1, <1>2, <1>3, FrontWhat
<1>5. last \in T /\ last \notin search.visited
  BY <1>2, <1>3, <1>4, ListOfItsOwn
<1>6. /\ new.path = front /\ new.visited = search.visited \cup {last} /\ new.cycle = <<>>
      /\ new \in Searches
  BY <1>1, <1>2, <1>4, <1>5 DEF SearchInv, Searches
<1>7. NoneTwice(new.path) /\ ToSet(new.path) \cap new.visited = {}
  BY <1>3, <1>4, <1>6
<1>8. \A n \in 1 .. Len(new.path) - 1 : new.path[n + 1] \in Dependencies(new.path[n])
  <2> TAKE n \in 1 .. Len(new.path) - 1
  <2>1. n \in 1 .. N - 1 /\ n + 1 \in 1 .. N - 1
    BY <1>4, <1>6
  <2>2. path[n + 1] \in Dependencies(path[n])
    BY <1>1, <2>1 DEF SearchInv
  <2> QED BY <1>4, <1>6, <2>1, <2>2
<1>9. \A d \in search.visited : Dependencies(d) \subseteq search.visited
  BY DEF SearchInv
<1>10. \A d \in new.visited : Dependencies(d) \subseteq new.visited
  BY <1>1, <1>6, <1>9
<1>11. Grounded(new.visited)
  <2>1. Grounded(search.visited) /\ Dependencies(last) \subseteq search.visited
    BY <1>1 DEF SearchInv
  <2> QED BY <1>5, <1>6, <1>9, <2>1, GroundedMore
<1>12. /\ Cardinality(search.visited) \in Nat
       /\ Cardinality(new.visited) = Cardinality(search.visited) + 1
  <2>1. PICK V : V = search.visited
    OBVIOUS
  <2>2. IsFiniteSet(V)
    BY <1>1, <1>2, <2>1, DestinationsFinite, FS_Subset
  <2>3. Cardinality(V) \in Nat
    BY <2>2, FS_CardinalityType
  <2>4. last \notin V
    BY <1>5, <2>1
  <2>5. Cardinality(V \cup {last}) = Cardinality(V) + 1
    BY <2>2, <2>4, FS_AddElement
  <2> QED BY <1>6, <2>1, <2>3, <2>5
<1>13. Progress(new) = Progress(search) + 1
  BY <1>1, <1>4, <1>6, <1>12 DEF Progress
<1> QED BY <1>6, <1>7, <1>8, <1>10, <1>11, <1>13 DEF SearchInv

\* A destination is entered: the last of the path, if there is one, depends on it.
LEMMA SearchEnters ==
  ASSUME MarkerTyped, NEW search, SearchInv(search),
         NEW path, path = search.path, search.cycle = <<>>,
         NEW d \in Destinations, d \notin search.visited, d \notin ToSet(path),
         path # <<>> => d \in Dependencies(path[Len(path)]),
         NEW new, new = [search EXCEPT !.path = Append(path, d)]
  PROVE  SearchInv(new) /\ Progress(new) = Progress(search) + 1
<1>1. PICK more, N, T : more = Append(path, d) /\ N = Len(path) /\ T = Destinations
  OBVIOUS
<1>2. path \in Seq(T) /\ search.visited \in SUBSET T /\ search.cycle \in Seq(T)
  BY <1>1 DEF SearchInv, Searches
<1>3. /\ more \in Seq(T) /\ N \in Nat /\ Len(more) = N + 1 /\ ToSet(more) = ToSet(path) \cup {d}
      /\ \A k \in 1 .. N : more[k] = path[k]
      /\ more[N + 1] = d
  BY <1>1, <1>2, OneMore
<1>4. /\ new.path = more /\ new.visited = search.visited /\ new.cycle = <<>>
      /\ new \in Searches
  BY <1>1, <1>2, <1>3 DEF SearchInv, Searches
<1>5. NoneTwice(new.path) /\ ToSet(new.path) \cap new.visited = {}
  <2>1. NoneTwice(path) /\ ToSet(path) \cap search.visited = {}
    BY DEF SearchInv
  <2>2. NoneTwice(more)
    BY <1>1, <1>2, <2>1, DistinctMore
  <2> QED BY <1>3, <1>4, <2>1, <2>2
<1>6. \A n \in 1 .. Len(new.path) - 1 : new.path[n + 1] \in Dependencies(new.path[n])
  <2> TAKE n \in 1 .. Len(new.path) - 1
  <2>1. n \in 1 .. N
    BY <1>3, <1>4
  <2>2. CASE n = N
    <3>1. path # <<>>
      BY <1>1, <1>2, <2>1, <2>2
    <3> QED BY <1>1, <1>3, <1>4, <2>1, <2>2, <3>1
  <2>3. CASE n # N
    <3>1. n \in 1 .. N - 1 /\ n + 1 \in 1 .. N
      BY <1>3, <2>1, <2>3
    <3>2. path[n + 1] \in Dependencies(path[n])
      BY <1>1, <3>1 DEF SearchInv
    <3> QED BY <1>3, <1>4, <2>1, <3>1, <3>2
  <2> QED BY <2>2, <2>3
<1>7. /\ \A e \in new.visited : Dependencies(e) \subseteq new.visited
      /\ Grounded(new.visited)
  BY <1>4 DEF SearchInv
<1>8. Cardinality(search.visited) \in Nat
  BY <1>1, <1>2, DestinationsFinite, FS_Subset, FS_CardinalityType
<1>9. Progress(new) = Progress(search) + 1
  BY <1>1, <1>3, <1>4, <1>8 DEF Progress
<1> QED BY <1>4, <1>5, <1>6, <1>7, <1>9 DEF SearchInv

\* The last of the path depends on one that is on the path.
LEMMA SearchCloses ==
  ASSUME MarkerTyped, NEW search, SearchInv(search),
         NEW path, path = search.path, path # <<>>,
         NEW d \in ToSet(path), d \in Dependencies(path[Len(path)]),
         NEW new, new = [search EXCEPT !.cycle = Closes(path, d)]
  PROVE  SearchInv(new) /\ new.cycle # <<>>
<1>1. PICK N, T, start : /\ N = Len(path) /\ T = Destinations
                         /\ start = (CHOOSE n \in DOMAIN path : path[n] = d)
  OBVIOUS
<1>2. path \in Seq(T) /\ search.visited \in SUBSET T /\ search.cycle \in Seq(T)
  BY <1>1 DEF SearchInv, Searches
<1>3. N \in Nat \ {0} /\ DOMAIN path = 1 .. N
  BY <1>1, <1>2
<1>4. start \in 1 .. N /\ path[start] = d
  <2>1. \E n \in DOMAIN path : path[n] = d
    BY DEF ToSet
  <2> QED BY <1>1, <1>3, <2>1
<1>5. d \in T
  BY <1>2, <1>3, <1>4
<1>6. PICK M : M = N - start + 1
  OBVIOUS
<1>7. /\ M \in Nat \ {0} /\ M = N - start + 1 /\ M <= N /\ start \in Nat \ {0} /\ N \in Nat
      /\ start <= N
  BY <1>3, <1>4, <1>6
<1>8. PICK part :
        /\ part = SubSeq(path, start, N) /\ part \in Seq(T) /\ Len(part) = M
        /\ \A k \in 1 .. M : part[k] = path[start + k - 1]
  <2>1. \A i \in start .. N : path[i] \in T
    BY <1>2, <1>3, <1>7
  <2>2. start \in Int /\ N \in Int /\ start <= N
    BY <1>7
  <2>3. /\ SubSeq(path, start, N) \in Seq(T)
        /\ Len(SubSeq(path, start, N)) = IF start <= N THEN N - start + 1 ELSE 0
        /\ \A k \in 1 .. N - start + 1 : SubSeq(path, start, N)[k] = path[start + k - 1]
    BY <2>1, <2>2, SubSeqProperties
  <2>4. PICK p : p = SubSeq(path, start, N)
    OBVIOUS
  <2>5. p \in Seq(T) /\ Len(p) = M /\ \A k \in 1 .. M : p[k] = path[start + k - 1]
    BY <1>6, <2>2, <2>3, <2>4
  <2> QED BY <2>4, <2>5
<1>9. PICK c : c = Append(part, d)
  OBVIOUS
<1>10. /\ c \in Seq(T) /\ c # <<>> /\ Len(c) = M + 1 /\ c[M + 1] = d
       /\ \A k \in 1 .. M : c[k] = path[start + k - 1]
  <2>1. part \in Seq(T) /\ Len(part) = M
    BY <1>8
  <2>2. /\ c \in Seq(T) /\ Len(c) = M + 1 /\ c[M + 1] = d
        /\ \A k \in 1 .. M : c[k] = part[k]
    BY <1>5, <1>9, <2>1, OneMore
  <2>3. c # <<>>
    BY <1>7, <2>2
  <2> QED BY <1>8, <2>2, <2>3
<1>11. Closes(path, d) = c
  BY <1>1, <1>8, <1>9 DEF Closes
<1>12. ASSUME NEW n \in 1 .. M
       PROVE  c[n + 1] \in Dependencies(c[n])
  <2>1. PICK k : k = start + n - 1
    OBVIOUS
  <2>2. c[n] = path[k]
    BY <1>10, <2>1
  <2>3. CASE n = M
    <3>1. k = N
      BY <1>7, <2>1, <2>3
    <3>2. c[n + 1] = d
      BY <1>10, <2>3
    <3> QED BY <1>1, <2>2, <3>1, <3>2
  <2>4. CASE n # M
    <3>1. n + 1 \in 1 .. M /\ start + (n + 1) - 1 = k + 1
      BY <1>7, <2>1, <2>4
    <3>2. k \in 1 .. N - 1
      BY <1>7, <2>1, <3>1
    <3>3. path[k + 1] \in Dependencies(path[k])
      BY <1>1, <3>2 DEF SearchInv
    <3> QED BY <1>10, <2>2, <3>1, <3>3
  <2> QED BY <2>3, <2>4
<1>13. c[1] = d
  <2>1. 1 \in 1 .. M /\ start + 1 - 1 = start
    BY <1>7
  <2> QED BY <1>4, <1>10, <2>1
<1>14. IsCycle(c)
  <2>1. Len(c) > 1 /\ Len(c) - 1 = M /\ c[Len(c)] = d
    BY <1>7, <1>10
  <2> QED BY <1>12, <1>13, <2>1 DEF IsCycle
<1>15. Len(c) <= Cardinality(Destinations) + 1
  <2>1. PICK none : none = {}
    OBVIOUS
  <2>2. /\ IsFiniteSet(T) /\ NoneTwice(path) /\ none \in SUBSET T
        /\ ToSet(path) \cap none = {}
    BY <1>1, <2>1, DestinationsFinite DEF SearchInv
  <2>3. N + Cardinality(none) <= Cardinality(T) /\ Cardinality(T) \in Nat
    BY <1>1, <1>2, <2>2, DistinctAtMost
  <2>4. Cardinality(none) = 0
    BY <2>1, FS_EmptySet
  <2>5. M <= Cardinality(T)
    BY <1>7, <2>3, <2>4
  <2> QED BY <1>1, <1>7, <1>10, <2>3, <2>5
<1>16. /\ new.path = path /\ new.visited = search.visited /\ new.cycle = c
       /\ new \in Searches
  BY <1>1, <1>2, <1>10, <1>11 DEF SearchInv, Searches
<1> QED BY <1>10, <1>14, <1>15, <1>16 DEF SearchInv

\* A turn of the search: it stays as it is once it is over, and gets on until then.
LEMMA SearchTurn ==
  ASSUME MarkerTyped, NEW order \in Orders, NEW search, SearchInv(search)
  PROVE  /\ SearchInv(HasCycle(search, order))
         /\ IsOver(search) => HasCycle(search, order) = search
         /\ ~IsOver(search) => \/ IsOver(HasCycle(search, order))
                              \/ Progress(HasCycle(search, order)) = Progress(search) + 1
<1>1. PICK path, next, new :
        path = search.path /\ next = NextNodes(search, order) /\ new = HasCycle(search, order)
  OBVIOUS
<1>2. new = IF search.cycle # <<>> \/ (path = <<>> /\ next = <<>>) THEN search
           ELSE IF next = <<>>
           THEN [search EXCEPT !.path = Front(path), !.visited = @ \cup {path[Len(path)]}]
           ELSE IF next[1] \in ToSet(path) THEN [search EXCEPT !.cycle = Closes(path, next[1])]
           ELSE [search EXCEPT !.path = Append(path, next[1])]
  BY <1>1 DEF HasCycle
<1>3. next \in Seq(Destinations)
  BY <1>1, NextNodesWhat
<1>4. path = <<>> => ToSet(next) = Destinations \ search.visited
  BY <1>1, NextNodesWhat
<1>5. path # <<>> => ToSet(next) = Dependencies(path[Len(path)]) \ search.visited
  BY <1>1, NextNodesWhat
<1>6. \/ next = <<>> /\ ToSet(next) = {}
      \/ next # <<>> /\ next[1] \in ToSet(next) \cap Destinations
  BY <1>3 DEF ToSet
<1>7. search.visited \in SUBSET Destinations
  BY DEF SearchInv, Searches
<1>8. CASE IsOver(search)
  <2>1. search.cycle # <<>> \/ (path = <<>> /\ next = <<>>)
    BY <1>1, <1>4, <1>6, <1>8 DEF IsOver
  <2> QED BY <1>1, <1>2, <1>8, <2>1
<1>9. CASE ~IsOver(search)
  <2>1. search.cycle = <<>> /\ (path = <<>> => search.visited # Destinations)
    BY <1>1, <1>9 DEF IsOver
  <2>2. CASE next = <<>>
    <3>1. path # <<>>
      BY <1>4, <1>6, <1>7, <2>1, <2>2
    <3>2. Dependencies(path[Len(path)]) \subseteq search.visited
      BY <1>5, <1>6, <2>2, <3>1
    <3>3. new = [search EXCEPT !.path = Front(path), !.visited = @ \cup {path[Len(path)]}]
      BY <1>2, <2>1, <2>2, <3>1
    <3>4. SearchInv(new) /\ Progress(new) = Progress(search) + 1
      BY <1>1, <2>1, <3>1, <3>2, <3>3, SearchLeaves
    <3> QED BY <1>1, <1>9, <3>4
  <2>3. CASE next # <<>>
    <3>1. PICK d : d = next[1]
      OBVIOUS
    <3>2. /\ d \in Destinations /\ d \notin search.visited
          /\ path # <<>> => d \in Dependencies(path[Len(path)])
      BY <1>4, <1>5, <1>6, <2>3, <3>1
    <3>3. CASE d \in ToSet(path)
      <4>1. path # <<>>
        BY <3>3 DEF ToSet
      <4>2. new = [search EXCEPT !.cycle = Closes(path, d)]
        BY <1>2, <2>1, <2>3, <3>1, <3>3
      <4>3. SearchInv(new) /\ new.cycle # <<>>
        BY <1>1, <3>2, <3>3, <4>1, <4>2, SearchCloses
      <4> QED BY <1>1, <1>9, <4>3 DEF IsOver
    <3>4. CASE d \notin ToSet(path)
      <4>1. new = [search EXCEPT !.path = Append(path, d)]
        BY <1>2, <2>1, <2>3, <3>1, <3>4
      <4>2. SearchInv(new) /\ Progress(new) = Progress(search) + 1
        BY <1>1, <2>1, <3>2, <3>4, <4>1, SearchEnters
      <4> QED BY <1>1, <1>9, <4>2
    <3> QED BY <3>3, <3>4
  <2> QED BY <2>2, <2>3
<1> QED BY <1>8, <1>9

\* Where the search starts from.
NoSearch == [path |-> <<>>, visited |-> {}, cycle |-> <<>>]

LEMMA NoSearchInv == SearchInv(NoSearch) /\ NoSearch \in Searches /\ Progress(NoSearch) = 0
<1>1. PICK none : none = <<>>
  OBVIOUS
<1>2. none \in Seq(Destinations) /\ Len(none) = 0 /\ ToSet(none) = {} /\ NoneTwice(none)
  BY <1>1, DistinctNone DEF ToSet
<1>3. /\ NoSearch.path = none /\ NoSearch.cycle = none /\ NoSearch.visited = {}
      /\ NoSearch \in Searches
  BY <1>1, <1>2 DEF NoSearch, Searches
<1>4. Grounded({})
  BY DEF Grounded
<1>5. Progress(NoSearch) = 0
  BY <1>2, <1>3, FS_EmptySet DEF Progress
<1>6. \A n \in 1 .. Len(none) - 1 : none[n + 1] \in Dependencies(none[n])
  BY <1>2
<1> QED BY <1>1, <1>2, <1>3, <1>4, <1>5, <1>6 DEF SearchInv

\* The turns of the search.
TurnsOf(f, order) ==
  /\ f[0] = NoSearch
  /\ \A n \in 1 .. 2 * Cardinality(Destinations) : f[n] = HasCycle(f[n - 1], order)
  /\ Search(order) = f[2 * Cardinality(Destinations)]

\* Search is what they come to.
LEMMA TurnsOfExist ==
  ASSUME MarkerTyped, NEW order \in Orders
  PROVE  \E f \in [0 .. 2 * Cardinality(Destinations) -> {v \in Searches : SearchInv(v)}] :
            TurnsOf(f, order)
<1>1. PICK N, S : N = 2 * Cardinality(Destinations) /\ S = {v \in Searches : SearchInv(v)}
  OBVIOUS
<1>2. N \in Nat /\ NoSearch \in S
  <2>1. Cardinality(Destinations) \in Nat
    BY DestinationsFinite
  <2> QED BY <1>1, <2>1, NoSearchInv
<1>3. \A n \in 1 .. N : \A v \in S : HasCycle(v, order) \in S
  <2>1. \A v \in S : SearchInv(v)
    BY <1>1
  <2>2. \A v \in S : SearchInv(HasCycle(v, order))
    BY <2>1, SearchTurn
  <2>3. \A v \in S : HasCycle(v, order) \in Searches
    BY <2>2 DEF SearchInv
  <2> QED BY <1>1, <2>2, <2>3
<1>4. PICK step : step = [n \in 1 .. N |-> [v \in S |-> HasCycle(v, order)]]
  OBVIOUS
<1>5. /\ step \in [1 .. N -> [S -> S]]
      /\ \A n \in 1 .. N : \A v \in S : step[n][v] = HasCycle(v, order)
  BY <1>3, <1>4
<1> DEFINE Turns(f) ==
             f = [n \in 0 .. N |-> IF n = 0 THEN NoSearch ELSE HasCycle(f[n - 1], order)]
<1>6. \A n \in 0 .. N : n # 0 => n \in 1 .. N /\ n - 1 \in 0 .. N
  BY <1>2
<1>7. \E f : Turns(f)
  <2>1. PICK f \in [0 .. N -> S] : Loops(f, N, NoSearch, step)
    BY <1>2, <1>5, LoopExists
  <2>2. f[0] = NoSearch /\ f = [n \in 0 .. N |-> f[n]]
    BY <2>1 DEF Loops
  <2>3. \A n \in 1 .. N : f[n] = HasCycle(f[n - 1], order)
    <3> TAKE n \in 1 .. N
    <3>1. n - 1 \in 0 .. N
      BY <1>2
    <3>2. f[n - 1] \in S /\ f[n] = step[n][f[n - 1]]
      BY <2>1, <3>1 DEF Loops
    <3> QED BY <1>5, <3>2
  <2>4. \A n \in 0 .. N : f[n] = IF n = 0 THEN NoSearch ELSE HasCycle(f[n - 1], order)
    BY <1>6, <2>2, <2>3
  <2>5. f = [n \in 0 .. N |-> IF n = 0 THEN NoSearch ELSE HasCycle(f[n - 1], order)]
    BY <2>2, <2>4, Zenon
  <2> QED BY <2>5
<1>8. PICK f : f = (CHOOSE g : Turns(g)) /\ Turns(f)
  <2> HIDE DEF Turns
  <2> QED BY <1>7
<1>9. Search(order) = f[N]
  BY <1>1, <1>8 DEF Search, NoSearch
<1>10. /\ f = [n \in 0 .. N |-> f[n]]
       /\ \A n \in 0 .. N : f[n] = IF n = 0 THEN NoSearch ELSE HasCycle(f[n - 1], order)
  BY <1>8
<1> HIDE DEF Turns
<1>11. f[0] = NoSearch
  <2>1. 0 \in 0 .. N
    BY <1>2
  <2> QED BY <1>10, <2>1
<1>12. \A n \in 1 .. N : f[n] = HasCycle(f[n - 1], order)
  <2> TAKE n \in 1 .. N
  <2>1. n \in 0 .. N /\ n # 0
    BY <1>2
  <2> QED BY <1>10, <2>1
<1>13. LoopsIn(f, N, S, NoSearch, step)
  BY <1>5, <1>11, <1>12 DEF LoopsIn
<1>14. \A n \in 0 .. N : f[n] \in S
  BY <1>2, <1>5, <1>13, LoopStays
<1>15. f \in [0 .. N -> S]
  BY <1>10, <1>14
<1> QED BY <1>1, <1>9, <1>11, <1>12, <1>15 DEF TurnsOf

\* After as many turns, the search is over.
LEMMA SearchWhat ==
  ASSUME MarkerTyped, NEW order \in Orders
  PROVE  SearchInv(Search(order)) /\ IsOver(Search(order))
<1>1. PICK S, N, T : /\ S = {v \in Searches : SearchInv(v)}
                     /\ N = 2 * Cardinality(Destinations) /\ T = Destinations
  OBVIOUS
<1>2. N \in Nat /\ IsFiniteSet(T) /\ Cardinality(T) \in Nat
  BY <1>1, DestinationsFinite
<1>3. PICK f \in [0 .. 2 * Cardinality(Destinations) -> {v \in Searches : SearchInv(v)}] :
        TurnsOf(f, order)
  BY TurnsOfExist
<1>4. f[0] = NoSearch /\ Search(order) = f[N]
  BY <1>1, <1>3 DEF TurnsOf
<1>5. \A n \in 1 .. N : f[n] = HasCycle(f[n - 1], order)
  BY <1>1, <1>3 DEF TurnsOf
<1>6. \A n \in 0 .. N : SearchInv(f[n])
  BY <1>1, <1>3
<1>7. PICK P : P = {n \in 0 .. N : IsOver(f[n]) \/ Progress(f[n]) = n}
  OBVIOUS
<1>8. 0 \in P
  BY <1>2, <1>4, <1>7, NoSearchInv
<1>9. ASSUME NEW n \in 1 .. N, n - 1 \in P
      PROVE  n \in P
  <2>1. PICK before : before = f[n - 1]
    OBVIOUS
  <2>2. n - 1 \in 0 .. N /\ n \in 0 .. N /\ n = (n - 1) + 1
    BY <1>2
  <2>3. SearchInv(before) /\ f[n] = HasCycle(before, order)
    BY <1>5, <1>6, <2>1, <2>2
  <2>4. IsOver(before) \/ Progress(before) = n - 1
    BY <1>7, <1>9, <2>1
  <2>5. IsOver(before) => f[n] = before
    BY <2>3, SearchTurn
  <2>6. ~IsOver(before) => IsOver(f[n]) \/ Progress(f[n]) = Progress(before) + 1
    BY <2>3, SearchTurn
  <2> QED BY <1>7, <2>2, <2>4, <2>5, <2>6
<1>10. N \in P
  <2>1. \A n \in 0 .. N : n \in P
    BY <1>2, <1>8, <1>9, UpTo
  <2> QED BY <1>2, <2>1
<1>11. PICK search : search = f[N] /\ SearchInv(search) /\ (IsOver(search) \/ Progress(search) = N)
  BY <1>2, <1>6, <1>7, <1>10
<1>12. ASSUME Progress(search) = N
       PROVE  IsOver(search)
  <2>1. PICK path, visited : path = search.path /\ visited = search.visited
    OBVIOUS
  <2>2. /\ path \in Seq(T) /\ visited \in SUBSET T /\ NoneTwice(path)
        /\ ToSet(path) \cap visited = {}
    BY <1>1, <1>11, <2>1 DEF SearchInv, Searches
  <2>3. /\ Len(path) \in Nat /\ Cardinality(visited) \in Nat
        /\ Len(path) + Cardinality(visited) <= Cardinality(T)
    BY <1>2, <2>2, DistinctAtMost
  <2>4. 2 * Cardinality(visited) + Len(path) = 2 * Cardinality(T)
    BY <1>1, <1>12, <2>1 DEF Progress
  <2>5. Len(path) = 0 /\ Cardinality(visited) = Cardinality(T)
    BY <1>2, <2>3, <2>4
  <2>6. path = <<>> /\ visited = T
    BY <1>2, <2>2, <2>5, FS_Subset
  <2> QED BY <1>1, <2>1, <2>6 DEF IsOver
<1> QED BY <1>4, <1>11, <1>12

\* What the detection says is so: it reports a cycle that is one, or there is none, and the
\* destinations can be put in order.
LEMMA DetectionWhat ==
  ASSUME MarkerTyped, NEW order \in Orders, NEW cycle, cycle = DetectCircularDependency(order)
  PROVE  /\ cycle # <<>> => IsCycle(cycle) /\ HasDependencyCycle
         /\ cycle = <<>> => ~HasDependencyCycle /\ Grounded(Destinations)
<1>1. PICK search, M, T :
        search = Search(order) /\ M = Cardinality(Destinations) /\ T = Destinations
  OBVIOUS
<1>2. SearchInv(search) /\ IsOver(search) /\ cycle = search.cycle
  BY <1>1, SearchWhat DEF DetectCircularDependency
<1>3. M \in Nat
  BY <1>1, DestinationsFinite
<1>4. ASSUME cycle # <<>>
      PROVE  IsCycle(cycle) /\ HasDependencyCycle
  <2>1. cycle \in Seq(T) /\ IsCycle(cycle) /\ Len(cycle) <= M + 1
    BY <1>1, <1>2, <1>4 DEF SearchInv, Searches
  <2>2. PICK n : n = Len(cycle)
    OBVIOUS
  <2>3. n \in 2 .. M + 1
    BY <1>3, <2>1, <2>2 DEF IsCycle
  <2>4. cycle \in [1 .. n -> T]
    BY <2>1, <2>2
  <2> QED BY <1>1, <2>1, <2>3, <2>4 DEF HasDependencyCycle
<1>5. ASSUME cycle = <<>>
      PROVE  Grounded(Destinations)
  BY <1>2, <1>5 DEF IsOver, SearchInv
<1>6. ASSUME Grounded(Destinations), HasDependencyCycle
      PROVE  FALSE
  <2>1. PICK n \in 2 .. M + 1 : \E path \in [1 .. n -> Destinations] : IsCycle(path)
    BY <1>1, <1>6 DEF HasDependencyCycle
  <2>2. PICK path \in [1 .. n -> Destinations] : IsCycle(path)
    BY <2>1
  <2>3. Len(path) = n /\ n \in Nat /\ n > 1
    BY <1>3
  <2>4. path[1] = path[n] /\ \A k \in 1 .. n - 1 : path[k + 1] \in Dependencies(path[k])
    BY <2>2, <2>3 DEF IsCycle
  <2>5. PICK R : R = {path[k] : k \in 1 .. n}
    OBVIOUS
  <2>6. R \in SUBSET Destinations /\ R # {}
    BY <2>2, <2>3, <2>5
  <2>7. PICK v \in R : Dependencies(v) \cap R = {}
    BY <1>6, <2>6 DEF Grounded
  <2>8. PICK k \in 1 .. n - 1 : v = path[k]
    <3>1. PICK j \in 1 .. n : v = path[j]
      BY <2>5, <2>7
    <3>2. CASE j = n
      BY <2>3, <2>4, <3>1, <3>2
    <3>3. CASE j # n
      BY <2>3, <3>1, <3>3
    <3> QED BY <3>2, <3>3
  <2>9. path[k + 1] \in Dependencies(v) /\ path[k + 1] \in R
    BY <2>3, <2>4, <2>5, <2>8
  <2> QED BY <2>7, <2>9
<1> QED BY <1>4, <1>5, <1>6

-----------------------------------------------------------------------------
(* The topological sort. *)

\* Those taken off the queue after n turns.
Taken(queue, n) == {queue[j] : j \in {i \in 1 .. n : i <= Len(queue)}}

\* No destination is before one it depends on.
NoneBehind(queue) ==
  \A k \in 1 .. Len(queue) : Dependencies(queue[k]) \subseteq {queue[j] : j \in 1 .. k - 1}

\* In the queue are those whose dependencies have been taken off, once, and none too early.
QueueInv(queue, n) ==
  /\ queue \in Seq(Destinations) /\ NoneTwice(queue)
  /\ ToSet(queue) = Ready(Taken(queue, n))
  /\ NoneBehind(queue)

LEMMA TakeOffType ==
  ASSUME NEW queue \in Seq(Destinations), NEW list \in Seq(Destinations), NEW n
  PROVE  TakeOff(queue, n, list) \in Seq(Destinations)
<1>1. PICK T : T = Destinations
  OBVIOUS
<1>2. \A set : Among(list, set) \in Seq(T)
  BY <1>1, AmongType
<1>3. ASSUME NEW part \in Seq(T)
      PROVE  queue \o part \in Seq(T)
  BY <1>1, Joined
<1> QED BY <1>1, <1>2, <1>3 DEF TakeOff

LEMMA FirstQueue ==
  ASSUME NEW list \in Seq(Destinations), ToSet(list) = Destinations, NoneTwice(list)
  PROVE  QueueInv(Among(list, Ready({})), 0)
<1>1. PICK q, T : q = Among(list, Ready({})) /\ T = Destinations
  OBVIOUS
<1>2. q \in Seq(T) /\ ToSet(q) = T \cap Ready({}) /\ NoneTwice(q)
  BY <1>1, AmongType, AmongWhat, DistinctAmong
<1>3. ToSet(q) = Ready({})
  BY <1>1, <1>2 DEF Ready
<1>4. Taken(q, 0) = {}
  BY DEF Taken
<1>5. NoneBehind(q)
  <2> SUFFICES ASSUME NEW k \in 1 .. Len(q)
               PROVE  Dependencies(q[k]) \subseteq {q[j] : j \in 1 .. k - 1}
    BY DEF NoneBehind
  <2>1. q[k] \in ToSet(q)
    BY <1>2 DEF ToSet
  <2>2. Dependencies(q[k]) = {}
    BY <1>3, <2>1 DEF Ready
  <2> QED BY <2>2
<1> QED BY <1>1, <1>2, <1>3, <1>4, <1>5 DEF QueueInv

LEMMA QueueTurn ==
  ASSUME NEW list \in Seq(Destinations), ToSet(list) = Destinations, NoneTwice(list),
         NEW n \in Nat \ {0}, NEW queue, QueueInv(queue, n - 1)
  PROVE  QueueInv(TakeOff(queue, n, list), n)
<1>1. PICK T, M, new : T = Destinations /\ M = Len(queue) /\ new = TakeOff(queue, n, list)
  OBVIOUS
<1>2. queue \in Seq(T) /\ M \in Nat /\ DOMAIN queue = 1 .. M /\ NoneTwice(queue)
  BY <1>1 DEF QueueInv
<1>3. CASE n > M
  <2>1. new = queue
    BY <1>1, <1>3 DEF TakeOff
  <2>2. {i \in 1 .. n : i <= M} = {i \in 1 .. n - 1 : i <= M}
    BY <1>2, <1>3
  <2>3. Taken(queue, n) = Taken(queue, n - 1)
    BY <1>1, <2>2 DEF Taken
  <2> QED BY <1>1, <2>1, <2>3 DEF QueueInv
<1>4. CASE ~(n > M)
  <2>1. PICK first, before, part :
          /\ first = {queue[j] : j \in 1 .. n} /\ before = {queue[j] : j \in 1 .. n - 1}
          /\ part = Among(list, Ready(first) \ Ready(before))
    OBVIOUS
  <2>2. new = queue \o part
    BY <1>1, <1>4, <2>1 DEF TakeOff
  <2>3. part \in Seq(T) /\ NoneTwice(part)
    BY <1>1, <2>1, AmongType, DistinctAmong
  <2>4. ToSet(part) = T \cap (Ready(first) \ Ready(before))
    BY <1>1, <2>1, AmongWhat
  <2>5. Taken(queue, n - 1) = before
    <3>1. {i \in 1 .. n - 1 : i <= M} = 1 .. n - 1
      BY <1>2, <1>4
    <3> QED BY <1>1, <2>1, <3>1 DEF Taken
  <2>6. ToSet(queue) = Ready(before)
    BY <2>5 DEF QueueInv
  <2>7. Ready(before) \subseteq Ready(first) /\ Ready(first) \subseteq T
    <3>1. 1 .. n - 1 \subseteq 1 .. n
      OBVIOUS
    <3>2. before \subseteq first
      BY <2>1, <3>1
    <3> QED BY <1>1, <3>2 DEF Ready
  <2>8. /\ new \in Seq(T) /\ Len(new) = M + Len(part) /\ Len(part) \in Nat
        /\ \A k \in 1 .. M : new[k] = queue[k]
        /\ \A k \in 1 .. Len(part) : new[M + k] = part[k]
        /\ ToSet(new) = ToSet(queue) \cup ToSet(part)
    BY <1>1, <1>2, <2>2, <2>3, Joined
  <2>9. NoneTwice(new)
    <3>1. ToSet(queue) \cap ToSet(part) = {}
      BY <2>4, <2>6
    <3> QED BY <1>2, <2>2, <2>3, <3>1, DistinctBoth
  <2>10. ToSet(new) = Ready(first)
    BY <2>4, <2>6, <2>7, <2>8
  <2>11. Taken(new, n) = first
    <3>1. {i \in 1 .. n : i <= Len(new)} = 1 .. n
      BY <1>2, <1>4, <2>8
    <3>2. \A j \in 1 .. n : new[j] = queue[j]
      BY <1>2, <1>4, <2>8
    <3>3. Taken(new, n) = {new[j] : j \in 1 .. n}
      BY <3>1 DEF Taken
    <3> QED BY <2>1, <3>2, <3>3
  <2>12. NoneBehind(new)
    <3> SUFFICES ASSUME NEW k \in 1 .. Len(new), NEW e \in Dependencies(new[k])
                 PROVE  \E j \in 1 .. k - 1 : e = new[j]
      BY DEF NoneBehind
    <3>1. CASE k <= M
      <4>1. k \in 1 .. M /\ new[k] = queue[k]
        BY <1>2, <2>8, <3>1
      <4>2. e \in {queue[j] : j \in 1 .. k - 1}
        BY <1>1, <4>1 DEF QueueInv, NoneBehind
      <4>3. PICK j \in 1 .. k - 1 : e = queue[j]
        BY <4>2
      <4>4. j \in 1 .. M
        BY <1>2, <4>1
      <4> QED BY <2>8, <4>3, <4>4
    <3>2. CASE k > M
      <4>1. PICK i : i = k - M
        OBVIOUS
      <4>2. i \in 1 .. Len(part) /\ k = M + i
        BY <1>2, <2>8, <3>2, <4>1
      <4>3. new[k] \in ToSet(part)
        BY <2>3, <2>8, <4>2 DEF ToSet
      <4>4. e \in first
        BY <2>4, <4>3 DEF Ready
      <4>5. PICK j \in 1 .. n : e = queue[j]
        BY <2>1, <4>4
      <4>6. j \in 1 .. M /\ j \in 1 .. k - 1
        BY <1>2, <1>4, <3>2
      <4> QED BY <2>8, <4>5, <4>6
    <3> QED BY <1>2, <2>8, <3>1, <3>2
  <2> QED BY <1>1, <2>8, <2>9, <2>10, <2>11, <2>12 DEF QueueInv
<1> QED BY <1>3, <1>4

\* The turns of the queue.
Queues(f, order, list) ==
  /\ f[0] = Among(list, Ready({}))
  /\ \A n \in 1 .. Cardinality(Destinations) : f[n] = TakeOff(f[n - 1], n, list)
  /\ TopologicalSort(order) = f[Cardinality(Destinations)]

\* TopologicalSort is what they come to.
LEMMA QueuesExist ==
  ASSUME MarkerTyped, NEW order \in Orders, NEW list, list = DestinationList(order)
  PROVE  \E f \in [0 .. Cardinality(Destinations) -> Seq(Destinations)] : Queues(f, order, list)
<1>1. PICK N, S : N = Cardinality(Destinations) /\ S = Seq(Destinations)
  OBVIOUS
<1>2. list \in Seq(Destinations) /\ N \in Nat /\ Among(list, Ready({})) \in S
  <2>1. list \in Seq(Destinations) /\ Cardinality(Destinations) \in Nat
    BY DestinationListWhat, DestinationsFinite
  <2> QED BY <1>1, <2>1, AmongType
<1>3. \A n \in 1 .. N : \A v \in S : TakeOff(v, n, list) \in S
  BY <1>1, <1>2, TakeOffType
<1>4. PICK step : step = [n \in 1 .. N |-> [v \in S |-> TakeOff(v, n, list)]]
  OBVIOUS
<1>5. /\ step \in [1 .. N -> [S -> S]]
      /\ \A n \in 1 .. N : \A v \in S : step[n][v] = TakeOff(v, n, list)
  BY <1>3, <1>4
<1> DEFINE Turns(f) ==
             f = [n \in 0 .. N |->
                    IF n = 0 THEN Among(list, Ready({})) ELSE TakeOff(f[n - 1], n, list)]
<1>6. \A n \in 0 .. N : n # 0 => n \in 1 .. N /\ n - 1 \in 0 .. N
  BY <1>2
<1>7. \E f : Turns(f)
  <2>1. PICK f \in [0 .. N -> S] : Loops(f, N, Among(list, Ready({})), step)
    BY <1>2, <1>5, LoopExists
  <2>2. f[0] = Among(list, Ready({})) /\ f = [n \in 0 .. N |-> f[n]]
    BY <2>1 DEF Loops
  <2>3. \A n \in 1 .. N : f[n] = TakeOff(f[n - 1], n, list)
    <3> TAKE n \in 1 .. N
    <3>1. n - 1 \in 0 .. N
      BY <1>2
    <3>2. f[n - 1] \in S /\ f[n] = step[n][f[n - 1]]
      BY <2>1, <3>1 DEF Loops
    <3> QED BY <1>5, <3>2
  <2>4. \A n \in 0 .. N :
          f[n] = IF n = 0 THEN Among(list, Ready({})) ELSE TakeOff(f[n - 1], n, list)
    BY <1>6, <2>2, <2>3
  <2>5. f = [n \in 0 .. N |->
                    IF n = 0 THEN Among(list, Ready({})) ELSE TakeOff(f[n - 1], n, list)]
    BY <2>2, <2>4, Zenon
  <2> QED BY <2>5
<1>8. PICK f : f = (CHOOSE g : Turns(g)) /\ Turns(f)
  <2> HIDE DEF Turns
  <2> QED BY <1>7
<1>9. TopologicalSort(order) = f[N]
  BY <1>1, <1>8 DEF TopologicalSort
<1>10. /\ f = [n \in 0 .. N |-> f[n]]
       /\ \A n \in 0 .. N :
          f[n] = IF n = 0 THEN Among(list, Ready({})) ELSE TakeOff(f[n - 1], n, list)
  BY <1>8
<1> HIDE DEF Turns
<1>11. f[0] = Among(list, Ready({}))
  <2>1. 0 \in 0 .. N
    BY <1>2
  <2> QED BY <1>10, <2>1
<1>12. \A n \in 1 .. N : f[n] = TakeOff(f[n - 1], n, list)
  <2> TAKE n \in 1 .. N
  <2>1. n \in 0 .. N /\ n # 0
    BY <1>2
  <2> QED BY <1>10, <2>1
<1>13. LoopsIn(f, N, S, Among(list, Ready({})), step)
  BY <1>5, <1>11, <1>12 DEF LoopsIn
<1>14. \A n \in 0 .. N : f[n] \in S
  BY <1>2, <1>5, <1>13, LoopStays
<1>15. f \in [0 .. N -> S]
  BY <1>10, <1>14
<1> QED BY <1>1, <1>9, <1>11, <1>12, <1>15 DEF Queues

\* Destinations that can be put in order are: each is there once, behind all it depends on.
LEMMA SortWhat ==
  ASSUME MarkerTyped, NEW order \in Orders, Grounded(Destinations),
         NEW sorted, sorted = TopologicalSort(order)
  PROVE  /\ sorted \in Seq(Destinations) /\ NoneTwice(sorted)
         /\ ToSet(sorted) = Destinations /\ NoneBehind(sorted)
<1>1. PICK list, N, T :
        list = DestinationList(order) /\ N = Cardinality(Destinations) /\ T = Destinations
  OBVIOUS
<1>2. list \in Seq(Destinations) /\ ToSet(list) = Destinations /\ NoneTwice(list)
  BY <1>1, DestinationListWhat
<1>3. N \in Nat /\ IsFiniteSet(T)
  BY <1>1, DestinationsFinite
<1>4. PICK f \in [0 .. Cardinality(Destinations) -> Seq(Destinations)] : Queues(f, order, list)
  BY <1>1, QueuesExist
<1>5. /\ f[0] = Among(list, Ready({})) /\ sorted = f[N]
      /\ \A n \in 1 .. N : f[n] = TakeOff(f[n - 1], n, list)
  BY <1>1, <1>4 DEF Queues
<1>6. PICK P : P = {n \in 0 .. N : QueueInv(f[n], n)}
  OBVIOUS
<1>7. 0 \in P
  BY <1>2, <1>3, <1>5, <1>6, FirstQueue
<1>8. ASSUME NEW n \in 1 .. N, n - 1 \in P
      PROVE  n \in P
  <2>1. PICK before : before = f[n - 1]
    OBVIOUS
  <2>2. n \in Nat \ {0} /\ n \in 0 .. N
    BY <1>3
  <2>3. QueueInv(before, n - 1)
    BY <1>6, <1>8, <2>1
  <2>4. QueueInv(TakeOff(before, n, list), n)
    BY <1>2, <2>2, <2>3, QueueTurn
  <2> QED BY <1>5, <1>6, <2>1, <2>2, <2>4
<1>9. QueueInv(sorted, N)
  <2>1. \A n \in 0 .. N : n \in P
    BY <1>3, <1>7, <1>8, UpTo
  <2>2. N \in P
    BY <1>3, <2>1
  <2> QED BY <1>5, <1>6, <2>2
<1>10. sorted \in Seq(T) /\ NoneTwice(sorted) /\ NoneBehind(sorted)
  BY <1>1, <1>9 DEF QueueInv
<1>11. Len(sorted) \in Nat /\ Len(sorted) <= N
  <2>1. /\ Len(sorted) \in Nat /\ Cardinality({}) \in Nat /\ Cardinality(T) \in Nat
        /\ Len(sorted) + Cardinality({}) <= Cardinality(T)
    BY <1>3, <1>10, DistinctAtMost
  <2>2. Cardinality({}) = 0
    BY FS_EmptySet
  <2> QED BY <1>1, <2>1, <2>2
<1>12. Taken(sorted, N) = ToSet(sorted)
  <2>1. {i \in 1 .. N : i <= Len(sorted)} = DOMAIN sorted
    <3>1. DOMAIN sorted = 1 .. Len(sorted)
      BY <1>10
    <3>2. {i \in 1 .. N : i <= Len(sorted)} = 1 .. Len(sorted)
      BY <1>3, <1>11
    <3> QED BY <3>1, <3>2
  <2> QED BY <2>1 DEF Taken, ToSet
<1>13. ToSet(sorted) = Ready(ToSet(sorted))
  BY <1>9, <1>12 DEF QueueInv
<1>14. ToSet(sorted) = T
  <2>1. PICK rest : rest = T \ ToSet(sorted)
    OBVIOUS
  <2>2. ToSet(sorted) \subseteq T
    BY <1>10, ListOfItsOwn
  <2>3. ASSUME rest # {}
        PROVE  FALSE
    <3>1. PICK v \in rest : Dependencies(v) \cap rest = {}
      BY <1>1, <2>1, <2>3 DEF Grounded
    <3>2. Dependencies(v) \subseteq T
      BY <1>1 DEF Dependencies
    <3>3. v \in Ready(ToSet(sorted))
      BY <1>1, <2>1, <3>1, <3>2 DEF Ready
    <3> QED BY <1>13, <2>1, <3>1, <3>3
  <2> QED BY <2>1, <2>2, <2>3
<1> QED BY <1>1, <1>10, <1>14

-----------------------------------------------------------------------------
(* A run over the files. *)

SoundFiles(files) ==
  files \in [Files -> Seq(Pieces)] /\ OnlyMarkdownNests(DOMAIN marker, files)

LEMMA PieceWhat ==
  ASSUME NEW p \in Pieces
  PROVE  \/ p.kind = "text" /\ p \in Texts
         \/ /\ p.kind = "tag" /\ p.of \in Files /\ p.body \in Seq(Texts)
            /\ p = Tag(p.of, p.body)
<1>1. CASE p \in Texts
  BY <1>1 DEF Texts
<1>2. CASE p \in [kind : {"tag"}, of : Files, body : Seq(Texts)]
  BY <1>2 DEF Tag
<1> QED BY <1>1, <1>2 DEF Pieces

LEMMA TagIsPiece ==
  ASSUME NEW s \in Files, NEW body \in Seq(Texts)
  PROVE  /\ Tag(s, body) \in Pieces /\ Tag(s, body).kind = "tag"
         /\ Tag(s, body).of = s /\ Tag(s, body).body = body
BY DEF Tag, Pieces

\* What a source puts into tags is without tags.
LEMMA ReplacementType ==
  ASSUME NEW files, SoundFiles(files), NEW s \in DOMAIN marker, s \in Files
  PROVE  Replacement(files, s) \in Seq(Texts)
<1>1. PICK pieces, T : pieces = files[s] /\ T = Texts
  OBVIOUS
<1>2. pieces \in Seq(Pieces)
  BY <1>1 DEF SoundFiles
<1>3. CASE ~IsMarkdown[s]
  BY <1>3 DEF SoundFiles, OnlyMarkdownNests, Replacement
<1>4. CASE IsMarkdown[s]
  <2>1. PICK lists :
          lists = [n \in DOMAIN pieces |->
                     IF pieces[n].kind = "tag" THEN pieces[n].body ELSE <<pieces[n]>>]
    OBVIOUS
  <2>2. \A n \in 1 .. Len(pieces) : lists[n] \in Seq(T)
    <3> TAKE n \in 1 .. Len(pieces)
    <3>1. PICK p : p = pieces[n] /\ p \in Pieces
      BY <1>2
    <3>2. \/ p.kind = "text" /\ p \in T
          \/ p.kind = "tag" /\ p.body \in Seq(T)
      BY <1>1, <3>1, PieceWhat
    <3>3. lists[n] = IF p.kind = "tag" THEN p.body ELSE <<p>>
      BY <1>2, <2>1, <3>1
    <3> QED BY <3>2, <3>3
  <2>3. lists \in Seq(Seq(T))
    <3>1. PICK S, M : S = Seq(T) /\ M = Len(pieces)
      OBVIOUS
    <3>2. M \in Nat /\ DOMAIN pieces = 1 .. M
      BY <1>2, <3>1
    <3>3. lists = [n \in 1 .. M |-> lists[n]] /\ \A n \in 1 .. M : lists[n] \in S
      BY <2>1, <2>2, <3>1, <3>2
    <3>4. lists \in [1 .. M -> S]
      BY <3>3
    <3>5. lists \in Seq(S)
      BY <3>2, <3>4
    <3> QED BY <3>1, <3>5
  <2>4. Chained(lists) \in Seq(T)
    BY <2>3, ChainedWhat
  <2> QED BY <1>1, <1>4, <2>1, <2>4 DEF Replacement, WithoutTags
<1> QED BY <1>3, <1>4

IsReplaced(new, files, d) ==
  /\ SoundFiles(new) /\ new[d] = Replaced(files, d)
  /\ \A f \in Files : f # d => new[f] = files[f]
  /\ ReferencedSources(new, d) = ReferencedSources(files, d)
  /\ \A p \in ToSet(new[d]) :
       p.kind = "tag" => p.of \in SourcesOf(d) /\ p.body = Replacement(files, p.of)

\* A destination whose tags name its sources only, once their content is in the tags.
LEMMA ReplacedWhat ==
  ASSUME MarkerTyped, NEW files, SoundFiles(files), NEW d \in Destinations,
         ReferencedSources(files, d) \subseteq SourcesOf(d),
         NEW new, new = [files EXCEPT ![d] = Replaced(files, d)]
  PROVE  IsReplaced(new, files, d)
<1>1. PICK old, rep, N : old = files[d] /\ rep = Replaced(files, d) /\ N = Len(old)
  OBVIOUS
<1>2. d \in Files /\ \A s \in SourcesOf(d) : s \in DOMAIN marker /\ s \in Files
  BY DestinationsFinite DEF MarkerTyped
<1>3. old \in Seq(Pieces) /\ N \in Nat /\ DOMAIN old = 1 .. N
  BY <1>1, <1>2 DEF SoundFiles
<1>4. /\ DOMAIN rep = 1 .. N
      /\ \A n \in 1 .. N : rep[n] = IF old[n].kind = "tag"
                                   THEN Tag(old[n].of, Replacement(files, old[n].of))
                                   ELSE old[n]
  BY <1>1, <1>3 DEF Replaced
<1>5. ASSUME NEW n \in 1 .. N
      PROVE  \/ rep[n] = old[n] /\ old[n].kind = "text" /\ old[n] \in Texts
             \/ /\ rep[n] \in Pieces /\ rep[n].kind = "tag" /\ old[n].kind = "tag"
                /\ rep[n].of = old[n].of /\ old[n].of \in SourcesOf(d)
                /\ rep[n].body = Replacement(files, old[n].of)
  <2>1. PICK p : p = old[n] /\ p \in Pieces
    BY <1>3
  <2>2. CASE p.kind = "text" /\ p \in Texts
    BY <1>4, <2>1, <2>2
  <2>3. CASE p.kind = "tag"
    <3>1. p \in ToSet(old)
      BY <1>3, <2>1 DEF ToSet
    <3>2. p.of \in ReferencedSources(files, d)
      BY <1>1, <2>3, <3>1 DEF ReferencedSources
    <3>3. p.of \in SourcesOf(d) /\ p.of \in DOMAIN marker /\ p.of \in Files
      BY <1>2, <3>2
    <3>4. PICK body : body = Replacement(files, p.of) /\ body \in Seq(Texts)
      BY <3>3, ReplacementType
    <3>5. rep[n] = Tag(p.of, body)
      BY <1>4, <2>1, <2>3, <3>4
    <3>6. /\ rep[n] \in Pieces /\ rep[n].kind = "tag" /\ rep[n].of = p.of
          /\ rep[n].body = body
      BY <3>3, <3>4, <3>5, TagIsPiece
    <3> QED BY <2>1, <2>3, <3>3, <3>4, <3>6
  <2> QED BY <2>1, <2>2, <2>3, PieceWhat
<1>6. rep \in Seq(Pieces)
  <2>1. \A n \in 1 .. N : rep[n] \in Pieces
    BY <1>5 DEF Pieces
  <2>2. rep = [n \in 1 .. N |-> rep[n]]
    BY <1>1, <1>3 DEF Replaced
  <2> QED BY <1>3, <2>1, <2>2
<1>7. /\ new \in [Files -> Seq(Pieces)] /\ new[d] = rep
      /\ \A f \in Files : f # d => new[f] = files[f]
  BY <1>1, <1>2, <1>6 DEF SoundFiles
<1>8. SoundFiles(new)
  <2>1. ASSUME NEW s \in DOMAIN marker, ~IsMarkdown[s]
        PROVE  new[s] \in Seq(Texts)
    <3>1. files[s] \in Seq(Texts) /\ s \in Files
      BY <2>1 DEF SoundFiles, OnlyMarkdownNests, MarkerTyped
    <3>2. CASE s = d
      <4>1. \A n \in 1 .. N : old[n] \in Texts
        BY <1>1, <1>3, <3>1, <3>2
      <4>2. \A n \in 1 .. N : rep[n] \in Texts
        <5> TAKE n \in 1 .. N
        <5>1. old[n] \in Texts /\ old[n].kind = "text"
          BY <4>1 DEF Texts
        <5> QED BY <1>4, <5>1
      <4>3. Len(rep) = N
        BY <1>3, <1>4, <1>6
      <4> QED BY <1>6, <1>7, <3>2, <4>2, <4>3
    <3> QED BY <1>7, <3>1, <3>2
  <2> QED BY <1>7, <2>1 DEF SoundFiles, OnlyMarkdownNests
<1>9. ReferencedSources(new, d) = ReferencedSources(files, d)
  <2> PICK was, is : was = ReferencedSources(files, d) /\ is = ReferencedSources(new, d)
    OBVIOUS
  <2>1. \A s : s \in was <=> \E n \in 1 .. N : old[n].kind = "tag" /\ s = old[n].of
    BY <1>1, <1>3 DEF ReferencedSources, ToSet
  <2>2. \A s : s \in is <=> \E n \in 1 .. N : rep[n].kind = "tag" /\ s = rep[n].of
    BY <1>4, <1>7 DEF ReferencedSources, ToSet
  <2>3. ASSUME NEW n \in 1 .. N
        PROVE  /\ old[n].kind = "tag" => rep[n].kind = "tag" /\ rep[n].of = old[n].of
               /\ rep[n].kind = "tag" => old[n].kind = "tag" /\ rep[n].of = old[n].of
    BY <1>5
  <2>4. \A s : s \in was => s \in is
    <3> SUFFICES ASSUME NEW s \in was PROVE s \in is
      OBVIOUS
    <3>1. PICK n \in 1 .. N : old[n].kind = "tag" /\ s = old[n].of
      BY <2>1, <2>2
    <3>2. rep[n].kind = "tag" /\ s = rep[n].of
      BY <2>3, <3>1
    <3> QED BY <2>1, <2>2, <3>2
  <2>5. \A s : s \in is => s \in was
    <3> SUFFICES ASSUME NEW s \in is PROVE s \in was
      OBVIOUS
    <3>1. PICK n \in 1 .. N : rep[n].kind = "tag" /\ s = rep[n].of
      BY <2>1, <2>2
    <3>2. old[n].kind = "tag" /\ s = old[n].of
      BY <2>3, <3>1
    <3> QED BY <2>1, <2>2, <3>2
  <2> QED BY <2>4, <2>5
<1>10. ASSUME NEW p \in ToSet(new[d]), p.kind = "tag"
       PROVE  p.of \in SourcesOf(d) /\ p.body = Replacement(files, p.of)
  <2>1. PICK n \in 1 .. N : p = rep[n]
    BY <1>4, <1>7 DEF ToSet
  <2> QED BY <1>5, <1>10, <2>1
<1> QED BY <1>1, <1>7, <1>8, <1>9, <1>10 DEF IsReplaced

\* Its tags name its sources, all of them, and hold what these hold.
Holds(files, d) ==
  /\ ReferencedSources(files, d) = SourcesOf(d)
  /\ \A p \in ToSet(files[d]) : p.kind = "tag" => p.body = Replacement(files, p.of)

LEMMA InSyncHolds ==
  ASSUME NEW files
  PROVE  InSync(files) <=> \A d \in Destinations : Holds(files, d)
BY DEF InSync, Holds

\* Whether it holds them is decided by it and its sources.
LEMMA HoldsSame ==
  ASSUME NEW files, NEW new, NEW d, Holds(files, d), new[d] = files[d],
         \A s \in SourcesOf(d) : new[s] = files[s]
  PROVE  Holds(new, d)
<1>1. ReferencedSources(new, d) = ReferencedSources(files, d)
  BY DEF ReferencedSources
<1>2. ASSUME NEW p \in ToSet(new[d]), p.kind = "tag"
      PROVE  p.body = Replacement(new, p.of)
  <2>1. p \in ToSet(files[d])
    OBVIOUS
  <2>2. p.of \in ReferencedSources(files, d)
    BY <1>2, <2>1 DEF ReferencedSources
  <2>3. p.of \in SourcesOf(d)
    BY <2>2 DEF Holds
  <2>4. PICK s : s = p.of
    OBVIOUS
  <2>5. new[s] = files[s]
    BY <2>3, <2>4
  <2>6. Replacement(new, s) = Replacement(files, s)
    BY <2>5 DEF Replacement
  <2>7. p.body = Replacement(files, s)
    BY <1>2, <2>1, <2>4 DEF Holds
  <2> QED BY <2>4, <2>6, <2>7
<1> QED BY <1>1, <1>2 DEF Holds

\* Nothing is to be replaced where the tags hold what the sources hold.
LEMMA HoldsReplaced ==
  ASSUME NEW files, SoundFiles(files), NEW d \in Files, Holds(files, d)
  PROVE  Replaced(files, d) = files[d]
<1>1. PICK old, rep, N : old = files[d] /\ rep = Replaced(files, d) /\ N = Len(old)
  OBVIOUS
<1>2. old \in Seq(Pieces) /\ N \in Nat /\ DOMAIN old = 1 .. N
  BY <1>1 DEF SoundFiles
<1>3. /\ rep = [n \in 1 .. N |-> rep[n]]
      /\ \A n \in 1 .. N : rep[n] = IF old[n].kind = "tag"
                                   THEN Tag(old[n].of, Replacement(files, old[n].of))
                                   ELSE old[n]
  BY <1>1, <1>2 DEF Replaced
<1>4. ASSUME NEW n \in 1 .. N
      PROVE  rep[n] = old[n]
  <2>1. PICK p : p = old[n] /\ p \in Pieces
    BY <1>2
  <2>2. CASE p.kind = "tag"
    <3>1. p \in ToSet(old)
      BY <1>2, <2>1 DEF ToSet
    <3>2. p.body = Replacement(files, p.of)
      BY <1>1, <2>2, <3>1 DEF Holds
    <3>3. p = Tag(p.of, p.body)
      BY <2>1, <2>2, PieceWhat
    <3> QED BY <1>3, <2>1, <2>2, <3>2, <3>3
  <2>3. CASE p.kind # "tag"
    BY <1>3, <2>1, <2>3
  <2> QED BY <2>2, <2>3
<1>5. old = [n \in 1 .. N |-> old[n]]
  BY <1>2
<1> QED BY <1>1, <1>3, <1>4, <1>5

Codes == {"INVALID_SOURCE", "UNREFERENCED_SOURCE", "NO_CHANGE", "UPDATE"}

LEMMA CodeWhat ==
  ASSUME NEW files, NEW d, NEW code, code = ProcessDestination(files, d)
  PROVE  /\ code \in Codes
         /\ code \in {"UPDATE", "NO_CHANGE"} <=> ReferencedSources(files, d) = SourcesOf(d)
         /\ ReferencedSources(files, d) = SourcesOf(d) =>
              (code = "NO_CHANGE" <=> Replaced(files, d) = files[d])
<1>1. PICK named, sources, same :
        /\ named = ReferencedSources(files, d) /\ sources = SourcesOf(d)
        /\ same = (Replaced(files, d) = files[d])
  OBVIOUS
<1>2. code = CASE ~(named \subseteq sources)                        -> "INVALID_SOURCE"
                [] named \subseteq sources /\ named # sources        -> "UNREFERENCED_SOURCE"
                [] OTHER -> IF same THEN "NO_CHANGE" ELSE "UPDATE"
  BY <1>1 DEF ProcessDestination
<1>3. ~(named \subseteq sources) => code = "INVALID_SOURCE" /\ named # sources
  BY <1>2
<1>4. named \subseteq sources /\ named # sources => code = "UNREFERENCED_SOURCE"
  BY <1>2
<1>5. named = sources => code = IF same THEN "NO_CHANGE" ELSE "UPDATE"
  BY <1>2
<1> QED BY <1>1, <1>3, <1>4, <1>5 DEF Codes

\* What a destination comes to in a run, and the files after it.
LEMMA ProcessNextWhat ==
  ASSUME MarkerTyped, NEW run, SoundFiles(run.files), run.codes \in Seq(Codes),
         NEW d \in Destinations,
         NEW next, next = ProcessNext(run, d), NEW code, code = ProcessDestination(run.files, d)
  PROVE  /\ code \in Codes /\ next.codes = Append(run.codes, code)
         /\ SoundFiles(next.files)
         /\ \A f \in Files : f # d => next.files[f] = run.files[f]
         /\ code = "NO_CHANGE" => next.files = run.files
         /\ code \in {"UPDATE", "NO_CHANGE"} =>
              /\ ReferencedSources(next.files, d) = SourcesOf(d)
              /\ \A p \in ToSet(next.files[d]) :
                   p.kind = "tag" => /\ p.of \in SourcesOf(d)
                                     /\ p.body = Replacement(run.files, p.of)
         /\ Holds(run.files, d) => code = "NO_CHANGE"
<1>1. PICK files, new : files = run.files /\ new = next.files
  OBVIOUS
<1>2. d \in Files
  BY DestinationsFinite
<1>3. /\ next.codes = Append(run.codes, code)
      /\ new = IF code = "UPDATE" THEN [files EXCEPT ![d] = Replaced(files, d)] ELSE files
  BY <1>1 DEF ProcessNext
<1>4. /\ code \in Codes
      /\ code \in {"UPDATE", "NO_CHANGE"} <=> ReferencedSources(files, d) = SourcesOf(d)
      /\ ReferencedSources(files, d) = SourcesOf(d) =>
           (code = "NO_CHANGE" <=> Replaced(files, d) = files[d])
  BY <1>1, CodeWhat
<1>5. CASE code \notin {"UPDATE", "NO_CHANGE"}
  <2>1. new = files
    BY <1>3, <1>5
  <2>2. ~Holds(files, d)
    BY <1>4, <1>5 DEF Holds
  <2> QED BY <1>1, <1>3, <1>4, <1>5, <2>1, <2>2
<1>6. CASE code \in {"UPDATE", "NO_CHANGE"}
  <2>1. PICK all : all = [files EXCEPT ![d] = Replaced(files, d)]
    OBVIOUS
  <2>2. /\ SoundFiles(all) /\ all[d] = Replaced(files, d)
        /\ \A f \in Files : f # d => all[f] = files[f]
        /\ ReferencedSources(all, d) = ReferencedSources(files, d)
        /\ \A p \in ToSet(all[d]) :
             p.kind = "tag" => p.of \in SourcesOf(d) /\ p.body = Replacement(files, p.of)
    <3>1. ReferencedSources(files, d) \subseteq SourcesOf(d)
      BY <1>4, <1>6
    <3>2. SoundFiles(files)
      BY <1>1
    <3>3. IsReplaced(all, files, d)
      BY <2>1, <3>1, <3>2, ReplacedWhat
    <3> QED BY <3>3 DEF IsReplaced
  <2>3. new = all
    <3>1. CASE code = "UPDATE"
      BY <1>3, <2>1, <3>1
    <3>2. CASE code = "NO_CHANGE"
      <4>1. Replaced(files, d) = files[d] /\ new = files
        BY <1>3, <1>4, <1>6, <3>2
      <4>2. files \in [Files -> Seq(Pieces)]
        BY <1>1 DEF SoundFiles
      <4> QED BY <1>2, <2>1, <4>1, <4>2
    <3> QED BY <1>6, <3>1, <3>2
  <2>4. ASSUME Holds(files, d)
        PROVE  code = "NO_CHANGE"
    <3>1. Replaced(files, d) = files[d]
      BY <1>1, <1>2, <2>4, HoldsReplaced
    <3> QED BY <1>4, <2>4, <3>1 DEF Holds
  <2>5. code = "NO_CHANGE" => new = files
    BY <1>3
  <2> QED BY <1>1, <1>3, <1>4, <1>6, <2>2, <2>3, <2>4, <2>5
<1> QED BY <1>5, <1>6

\* What a run comes to.
SoundRuns == {r \in [codes : Seq(Codes), files : [Files -> Seq(Pieces)]] : SoundFiles(r.files)}

NoRun == [codes |-> <<>>, files |-> content]

LEMMA SoundRunsNext ==
  ASSUME MarkerTyped, NEW run \in SoundRuns, NEW d \in Destinations
  PROVE  ProcessNext(run, d) \in SoundRuns
<1>1. PICK next, code : next = ProcessNext(run, d) /\ code = ProcessDestination(run.files, d)
  OBVIOUS
<1>2. SoundFiles(run.files) /\ run.codes \in Seq(Codes)
  BY DEF SoundRuns
<1>3. code \in Codes /\ next.codes = Append(run.codes, code) /\ SoundFiles(next.files)
  BY <1>1, <1>2, ProcessNextWhat
<1>4. next.codes \in Seq(Codes)
  BY <1>2, <1>3, OneMore
<1>5. next.files \in [Files -> Seq(Pieces)]
  BY <1>3 DEF SoundFiles
<1>6. next = [codes |-> next.codes, files |-> next.files]
  BY <1>1 DEF ProcessNext
<1> QED BY <1>1, <1>3, <1>4, <1>5, <1>6 DEF SoundRuns

\* The turns of the run.
Processes(f, list) ==
  /\ f[0] = NoRun
  /\ \A n \in 1 .. Len(list) : f[n] = ProcessNext(f[n - 1], list[n])
  /\ ProcessDestinations(list) = f[Len(list)]

\* ProcessDestinations is what they come to.
LEMMA ProcessesExist ==
  ASSUME MarkerTyped, SoundFiles(content), NEW list \in Seq(Destinations)
  PROVE  \E f \in [0 .. Len(list) -> SoundRuns] : Processes(f, list)
<1>1. PICK N, S : N = Len(list) /\ S = SoundRuns
  OBVIOUS
<1>2. N \in Nat /\ NoRun \in S
  <2>1. <<>> \in Seq(Codes) /\ content \in [Files -> Seq(Pieces)]
    BY DEF SoundFiles
  <2>2. NoRun \in SoundRuns
    BY <2>1 DEF NoRun, SoundRuns
  <2> QED BY <1>1, <2>2
<1>3. \A n \in 1 .. N : \A v \in S : ProcessNext(v, list[n]) \in S
  <2>1. \A n \in 1 .. N : list[n] \in Destinations
    BY <1>1
  <2> QED BY <1>1, <2>1, SoundRunsNext
<1>4. PICK step : step = [n \in 1 .. N |-> [v \in S |-> ProcessNext(v, list[n])]]
  OBVIOUS
<1>5. /\ step \in [1 .. N -> [S -> S]]
      /\ \A n \in 1 .. N : \A v \in S : step[n][v] = ProcessNext(v, list[n])
  BY <1>3, <1>4
<1> DEFINE Turns(f) ==
             f = [n \in 0 .. N |-> IF n = 0 THEN NoRun ELSE ProcessNext(f[n - 1], list[n])]
<1>6. \A n \in 0 .. N : n # 0 => n \in 1 .. N /\ n - 1 \in 0 .. N
  BY <1>2
<1>7. \E f : Turns(f)
  <2>1. PICK f \in [0 .. N -> S] : Loops(f, N, NoRun, step)
    BY <1>2, <1>5, LoopExists
  <2>2. f[0] = NoRun /\ f = [n \in 0 .. N |-> f[n]]
    BY <2>1 DEF Loops
  <2>3. \A n \in 1 .. N : f[n] = ProcessNext(f[n - 1], list[n])
    <3> TAKE n \in 1 .. N
    <3>1. n - 1 \in 0 .. N
      BY <1>2
    <3>2. f[n - 1] \in S /\ f[n] = step[n][f[n - 1]]
      BY <2>1, <3>1 DEF Loops
    <3> QED BY <1>5, <3>2
  <2>4. \A n \in 0 .. N : f[n] = IF n = 0 THEN NoRun ELSE ProcessNext(f[n - 1], list[n])
    BY <1>6, <2>2, <2>3
  <2>5. f = [n \in 0 .. N |-> IF n = 0 THEN NoRun ELSE ProcessNext(f[n - 1], list[n])]
    BY <2>2, <2>4, Zenon
  <2> QED BY <2>5
<1>8. PICK f : f = (CHOOSE g : Turns(g)) /\ Turns(f)
  <2> HIDE DEF Turns
  <2> QED BY <1>7
<1>9. ProcessDestinations(list) = f[N]
  BY <1>1, <1>8 DEF ProcessDestinations, NoRun
<1>10. /\ f = [n \in 0 .. N |-> f[n]]
       /\ \A n \in 0 .. N : f[n] = IF n = 0 THEN NoRun ELSE ProcessNext(f[n - 1], list[n])
  BY <1>8
<1> HIDE DEF Turns
<1>11. f[0] = NoRun
  <2>1. 0 \in 0 .. N
    BY <1>2
  <2> QED BY <1>10, <2>1
<1>12. \A n \in 1 .. N : f[n] = ProcessNext(f[n - 1], list[n])
  <2> TAKE n \in 1 .. N
  <2>1. n \in 0 .. N /\ n # 0
    BY <1>2
  <2> QED BY <1>10, <2>1
<1>13. LoopsIn(f, N, S, NoRun, step)
  BY <1>5, <1>11, <1>12 DEF LoopsIn
<1>14. \A n \in 0 .. N : f[n] \in S
  BY <1>2, <1>5, <1>13, LoopStays
<1>15. f \in [0 .. N -> S]
  BY <1>10, <1>14
<1> QED BY <1>1, <1>9, <1>11, <1>12, <1>15 DEF Processes

\* After n destinations: those that were well hold what their sources hold by now, and what
\* was in sync is as it was.
RunInv(run, list, n) ==
  /\ run \in SoundRuns /\ Len(run.codes) = n
  /\ (\A k \in 1 .. n : run.codes[k] \in {"UPDATE", "NO_CHANGE"}) =>
       \A k \in 1 .. n : Holds(run.files, list[k])
  /\ (\A k \in 1 .. n : run.codes[k] = "NO_CHANGE") => run.files = content
  /\ InSync(content) => \A k \in 1 .. n : run.codes[k] = "NO_CHANGE"

LEMMA RunTurn ==
  ASSUME MarkerTyped, NEW list \in Seq(Destinations), NoneTwice(list), NoneBehind(list),
         NEW n \in 1 .. Len(list), NEW run, RunInv(run, list, n - 1)
  PROVE  RunInv(ProcessNext(run, list[n]), list, n)
<1>1. PICK d, next, code, files, new :
        /\ d = list[n] /\ next = ProcessNext(run, d) /\ code = ProcessDestination(run.files, d)
        /\ files = run.files /\ new = next.files
  OBVIOUS
<1>2. d \in Destinations /\ n \in Nat /\ run \in SoundRuns /\ Len(list) \in Nat
  BY <1>1 DEF RunInv
<1>3. SoundFiles(files) /\ run.codes \in Seq(Codes) /\ Len(run.codes) = n - 1
  BY <1>1 DEF RunInv, SoundRuns
<1>4. /\ code \in Codes /\ next.codes = Append(run.codes, code)
      /\ \A f \in Files : f # d => new[f] = files[f]
      /\ code = "NO_CHANGE" => new = files
      /\ code \in {"UPDATE", "NO_CHANGE"} =>
           /\ ReferencedSources(new, d) = SourcesOf(d)
           /\ \A p \in ToSet(new[d]) :
                p.kind = "tag" => p.of \in SourcesOf(d) /\ p.body = Replacement(files, p.of)
      /\ Holds(files, d) => code = "NO_CHANGE"
  BY <1>1, <1>2, <1>3, ProcessNextWhat
<1>5. /\ Len(next.codes) = n /\ next.codes[n] = code
      /\ \A k \in 1 .. n - 1 : next.codes[k] = run.codes[k]
  BY <1>2, <1>3, <1>4, OneMore
<1>6. next \in SoundRuns
  BY <1>1, <1>2, SoundRunsNext
<1>7. \A j \in 1 .. Len(list) : list[j] = d => j = n
  BY <1>1 DEF NoneTwice
<1>8. ASSUME NEW k \in 1 .. n
      PROVE  d \notin SourcesOf(list[k])
  <2> SUFFICES ASSUME d \in SourcesOf(list[k]) PROVE FALSE
    OBVIOUS
  <2>1. d \in Dependencies(list[k])
    BY <1>2 DEF Dependencies
  <2>2. k \in 1 .. Len(list)
    BY <1>2
  <2>3. d \in {list[j] : j \in 1 .. k - 1}
    BY <2>1, <2>2 DEF NoneBehind
  <2>4. PICK j \in 1 .. k - 1 : d = list[j]
    BY <2>3
  <2>5. j \in 1 .. Len(list) /\ j # n
    BY <1>2, <2>2
  <2> QED BY <1>7, <2>4, <2>5
<1>9. ASSUME NEW k \in 1 .. n, NEW s \in SourcesOf(list[k])
      PROVE  new[s] = files[s]
  <2>1. s \in Files /\ s # d
    BY <1>8, <1>9 DEF SourcesOf, MarkerTyped
  <2> QED BY <1>4, <2>1
<1>10. ASSUME \A k \in 1 .. n : next.codes[k] \in {"UPDATE", "NO_CHANGE"}
       PROVE  \A k \in 1 .. n : Holds(new, list[k])
  <2>1. code \in {"UPDATE", "NO_CHANGE"}
    BY <1>5, <1>10
  <2>2. \A k \in 1 .. n - 1 : k \in 1 .. n
    BY <1>2
  <2>3. \A k \in 1 .. n - 1 : run.codes[k] \in {"UPDATE", "NO_CHANGE"}
    BY <1>5, <1>10, <2>2
  <2>4. \A k \in 1 .. n - 1 : Holds(files, list[k])
    BY <1>1, <2>3 DEF RunInv
  <2> TAKE k \in 1 .. n
  <2>5. CASE k = n
    <3>1. ReferencedSources(new, d) = SourcesOf(d)
      BY <1>4, <2>1
    <3>2. ASSUME NEW p \in ToSet(new[d]), p.kind = "tag"
          PROVE  p.body = Replacement(new, p.of)
      <4>1. PICK s : s = p.of /\ s \in SourcesOf(d) /\ p.body = Replacement(files, s)
        BY <1>4, <2>1, <3>2
      <4>2. new[s] = files[s]
        BY <1>1, <1>9, <2>5, <4>1
      <4>3. Replacement(new, s) = Replacement(files, s)
        BY <4>2 DEF Replacement
      <4> QED BY <4>1, <4>3
    <3> QED BY <1>1, <2>5, <3>1, <3>2 DEF Holds
  <2>6. CASE k # n
    <3>1. PICK e : e = list[k]
      OBVIOUS
    <3>2. k \in 1 .. n - 1 /\ k \in 1 .. Len(list)
      BY <1>2, <2>6
    <3>3. Holds(files, e)
      BY <2>4, <3>1, <3>2
    <3>4. e \in Files /\ e # d
      BY <1>7, <2>6, <3>1, <3>2, DestinationsFinite
    <3>5. new[e] = files[e]
      BY <1>4, <3>4
    <3>6. \A s \in SourcesOf(e) : new[s] = files[s]
      BY <1>9, <3>1
    <3> QED BY <3>1, <3>3, <3>5, <3>6, HoldsSame
  <2> QED BY <2>5, <2>6
<1>11. ASSUME \A k \in 1 .. n : next.codes[k] = "NO_CHANGE"
       PROVE  new = content
  <2>1. \A k \in 1 .. n - 1 : k \in 1 .. n
    BY <1>2
  <2>2. code = "NO_CHANGE" /\ \A k \in 1 .. n - 1 : run.codes[k] = "NO_CHANGE"
    BY <1>5, <1>11, <2>1
  <2>3. files = content
    BY <1>1, <2>2 DEF RunInv
  <2> QED BY <1>4, <2>2, <2>3
<1>12. ASSUME InSync(content)
       PROVE  \A k \in 1 .. n : next.codes[k] = "NO_CHANGE"
  <2>1. \A k \in 1 .. n - 1 : run.codes[k] = "NO_CHANGE"
    BY <1>12 DEF RunInv
  <2>2. files = content
    BY <1>1, <2>1 DEF RunInv
  <2>3. Holds(files, d)
    BY <1>2, <1>12, <2>2, InSyncHolds
  <2>4. code = "NO_CHANGE"
    BY <1>4, <2>3
  <2> TAKE k \in 1 .. n
  <2>5. k = n \/ k \in 1 .. n - 1
    BY <1>2
  <2> QED BY <1>5, <2>1, <2>4, <2>5
<1> QED BY <1>1, <1>5, <1>6, <1>10, <1>11, <1>12 DEF RunInv

\* A run over the destinations in such an order: if none failed all hold what their sources
\* hold, if nothing was to be changed that was so before, and if it was so nothing is.
LEMMA ProcessWhat ==
  ASSUME MarkerTyped, SoundFiles(content),
         NEW list \in Seq(Destinations), NoneTwice(list), NoneBehind(list),
         ToSet(list) = Destinations, NEW run, run = ProcessDestinations(list)
  PROVE  /\ SoundFiles(run.files)
         /\ \A n \in DOMAIN run.codes : run.codes[n] \in Codes
         /\ (\A n \in DOMAIN run.codes : run.codes[n] \in {"UPDATE", "NO_CHANGE"}) =>
              InSync(run.files)
         /\ (\A n \in DOMAIN run.codes : run.codes[n] = "NO_CHANGE") => run.files = content
         /\ InSync(content) => \A n \in DOMAIN run.codes : run.codes[n] = "NO_CHANGE"
<1>1. PICK N : N = Len(list) /\ N \in Nat
  OBVIOUS
<1>2. PICK f \in [0 .. Len(list) -> SoundRuns] : Processes(f, list)
  BY ProcessesExist
<1>3. /\ f[0] = NoRun /\ run = f[N]
      /\ \A n \in 1 .. N : f[n] = ProcessNext(f[n - 1], list[n])
  BY <1>1, <1>2 DEF Processes
<1>4. PICK P : P = {n \in 0 .. N : RunInv(f[n], list, n)}
  OBVIOUS
<1>5. 0 \in P
  <2>1. f[0] \in SoundRuns
    BY <1>1, <1>2
  <2>2. Len(f[0].codes) = 0 /\ f[0].files = content
    BY <1>3 DEF NoRun
  <2>3. RunInv(f[0], list, 0)
    BY <2>1, <2>2 DEF RunInv
  <2> QED BY <1>1, <1>4, <2>3
<1>6. ASSUME NEW n \in 1 .. N, n - 1 \in P
      PROVE  n \in P
  <2>1. PICK before : before = f[n - 1]
    OBVIOUS
  <2>2. RunInv(before, list, n - 1) /\ n \in 0 .. N
    BY <1>1, <1>4, <1>6, <2>1
  <2>3. RunInv(ProcessNext(before, list[n]), list, n)
    BY <1>1, <2>2, RunTurn
  <2> QED BY <1>3, <1>4, <2>1, <2>2, <2>3
<1>7. RunInv(run, list, N)
  <2>1. \A n \in 0 .. N : n \in P
    BY <1>1, <1>5, <1>6, UpTo
  <2>2. N \in P
    BY <1>1, <2>1
  <2> QED BY <1>3, <1>4, <2>2
<1>8. run \in SoundRuns /\ run.codes \in Seq(Codes) /\ DOMAIN run.codes = 1 .. N
  BY <1>7 DEF RunInv, SoundRuns
<1>9. \A n \in DOMAIN run.codes : run.codes[n] \in Codes
  BY <1>8
<1>10. ASSUME \A n \in 1 .. N : run.codes[n] \in {"UPDATE", "NO_CHANGE"}
       PROVE  InSync(run.files)
  <2>1. \A n \in 1 .. N : Holds(run.files, list[n])
    BY <1>7, <1>10 DEF RunInv
  <2>2. \A d \in Destinations : \E n \in 1 .. N : d = list[n]
    BY <1>1 DEF ToSet
  <2>3. \A d \in Destinations : Holds(run.files, d)
    BY <2>1, <2>2
  <2> QED BY <2>3, InSyncHolds
<1>11. /\ (\A n \in 1 .. N : run.codes[n] = "NO_CHANGE") => run.files = content
       /\ InSync(content) => \A n \in 1 .. N : run.codes[n] = "NO_CHANGE"
  BY <1>7 DEF RunInv
<1>12. SoundFiles(run.files)
  BY <1>8 DEF SoundRuns
<1> QED BY <1>8, <1>9, <1>10, <1>11, <1>12

-----------------------------------------------------------------------------
(* The command. *)

LEMMA OutcomeWhat ==
  ASSUME MarkerTyped, SoundFiles(content), NEW order \in Orders, NEW run, run = RunOf(order),
         NEW write \in BOOLEAN, NEW result, result = Outcome(run, write),
         NEW files, files = IF write THEN run.files ELSE content
  PROVE  /\ SoundFiles(run.files)
         /\ result.exit = 0 => InSync(files)
         /\ ~write /\ result.exit = 1 => ~InSync(files) \/ HasDependencyCycle
         /\ result.cycle # <<>> => IsCycle(result.cycle)
         /\ result.cycle = <<>> => ~HasDependencyCycle
<1>1. PICK cycle, list, all :
        /\ cycle = DetectCircularDependency(order) /\ list = TopologicalSort(order)
        /\ all = ProcessDestinations(list)
  OBVIOUS
<1>2. /\ cycle # <<>> => IsCycle(cycle) /\ HasDependencyCycle
      /\ cycle = <<>> => ~HasDependencyCycle /\ Grounded(Destinations)
  BY <1>1, DetectionWhat
<1>3. /\ run.cycle = cycle
      /\ cycle # <<>> => run.files = content
      /\ cycle = <<>> => run.codes = all.codes /\ run.files = all.files
  BY <1>1 DEF RunOf
<1>4. /\ result.cycle = cycle /\ result.exit \in {0, 1}
      /\ result.exit = 0 <=>
           cycle = <<>> /\ \A n \in DOMAIN run.codes : ~IsError(run.codes[n], write)
  BY <1>3 DEF Outcome
<1>5. CASE cycle # <<>>
  BY <1>2, <1>3, <1>4, <1>5
<1>6. CASE cycle = <<>>
  <2>1. /\ SoundFiles(all.files)
        /\ \A n \in DOMAIN all.codes : all.codes[n] \in Codes
        /\ (\A n \in DOMAIN all.codes : all.codes[n] \in {"UPDATE", "NO_CHANGE"}) =>
             InSync(all.files)
        /\ (\A n \in DOMAIN all.codes : all.codes[n] = "NO_CHANGE") => all.files = content
        /\ InSync(content) => \A n \in DOMAIN all.codes : all.codes[n] = "NO_CHANGE"
    <3>1. /\ list \in Seq(Destinations) /\ NoneTwice(list) /\ ToSet(list) = Destinations
          /\ NoneBehind(list)
      BY <1>1, <1>2, <1>6, SortWhat
    <3> QED BY <1>1, <3>1, ProcessWhat
  <2>2. \A code \in Codes : /\ ~IsError(code, TRUE) <=> code \in {"UPDATE", "NO_CHANGE"}
                            /\ ~IsError(code, FALSE) <=> code = "NO_CHANGE"
    BY DEF Codes, IsError
  <2>3. run.codes = all.codes /\ run.files = all.files
    BY <1>3, <1>6
  <2>4. ASSUME result.exit = 0
        PROVE  InSync(files)
    <3>1. \A n \in DOMAIN all.codes : ~IsError(all.codes[n], write)
      BY <1>4, <2>3, <2>4
    <3>2. CASE write = TRUE
      <4>1. \A n \in DOMAIN all.codes : all.codes[n] \in {"UPDATE", "NO_CHANGE"}
        BY <2>1, <2>2, <3>1, <3>2
      <4> QED BY <2>1, <2>3, <3>2, <4>1
    <3>3. CASE write = FALSE
      <4>1. \A n \in DOMAIN all.codes : all.codes[n] = "NO_CHANGE"
        BY <2>1, <2>2, <3>1, <3>3
      <4>2. InSync(all.files) /\ all.files = content
        BY <2>1, <4>1
      <4> QED BY <3>3, <4>2
    <3> QED BY <3>2, <3>3
  <2>5. ASSUME write = FALSE, result.exit = 1, InSync(content)
        PROVE  FALSE
    <3>1. \A n \in DOMAIN all.codes : all.codes[n] = "NO_CHANGE"
      BY <2>1, <2>5
    <3>2. \A n \in DOMAIN all.codes : ~IsError(all.codes[n], write)
      BY <2>1, <2>2, <2>5, <3>1
    <3>3. result.exit = 0
      BY <1>4, <1>6, <2>3, <3>2
    <3> QED BY <2>5, <3>3
  <2> QED BY <1>2, <1>4, <1>6, <2>1, <2>3, <2>4, <2>5
<1> QED BY <1>5, <1>6

EmbedexInv == MarkerTyped /\ SoundFiles(content) /\ SuccessMeansInSync

LEMMA EmbedexInvInit == EmbedexInit => EmbedexInv
<1> SUFFICES ASSUME EmbedexInit PROVE EmbedexInv
  OBVIOUS
<1>1. PICK l \in Layouts : marker = l.marker /\ content = l.pieces /\ outcome = NoOutcome
  BY DEF EmbedexInit
<1>2. /\ DOMAIN l.marker \subseteq Files /\ l.pieces \in [Files -> Seq(Pieces)]
      /\ \A s \in DOMAIN l.marker : l.marker[s] \in Seq(Files)
      /\ OnlyMarkdownNests(DOMAIN l.marker, l.pieces)
  BY EmbedexAssumption
<1>3. MarkerTyped
  BY <1>1, <1>2 DEF MarkerTyped
<1>4. SuccessMeansInSync
  BY <1>1 DEF SuccessMeansInSync, NoOutcome
<1> QED BY <1>1, <1>2, <1>3, <1>4 DEF EmbedexInv, SoundFiles

\* An edit leaves pieces, and text where there was text.
LEMMA EditsWhat ==
  ASSUME NEW p \in Pieces, NEW piece \in Edits(p)
  PROVE  piece \in Pieces /\ (p \in Texts => piece \in Texts)
<1>1. CASE p.kind = "text" /\ p \in Texts
  BY <1>1 DEF Edits, Texts, Pieces
<1>2. CASE p.kind = "tag" /\ p.of \in Files /\ p.body \in Seq(Texts) /\ p = Tag(p.of, p.body)
  <2>1. PICK n \in DOMAIN p.body : piece = [p EXCEPT !.body[n].version = @ + 1]
    BY <1>2 DEF Edits
  <2>2. PICK t, u : t = p.body[n] /\ u = [t EXCEPT !.version = @ + 1]
    OBVIOUS
  <2>3. u \in Texts
    <3>1. t \in Texts
      BY <1>2, <2>2
    <3> QED BY <2>2, <3>1 DEF Texts
  <2>4. PICK body : body = [p.body EXCEPT ![n] = u] /\ body \in Seq(Texts)
    BY <1>2, <2>3, OneChanged
  <2>5. piece = Tag(p.of, body)
    BY <1>2, <2>1, <2>2, <2>4 DEF Tag
  <2>6. p \notin Texts
    BY <1>2 DEF Texts
  <2> QED BY <1>2, <2>4, <2>5, <2>6, TagIsPiece
<1> QED BY <1>1, <1>2, PieceWhat

LEMMA EmbedexInvNext ==
  ASSUME EmbedexInv, [EmbedexNext]_embedexVars
  PROVE  EmbedexInv'
<1>1. MarkerTyped /\ SoundFiles(content) /\ SuccessMeansInSync
  BY DEF EmbedexInv
<1>2. ASSUME marker' = marker, content' = content, outcome' = outcome
      PROVE  EmbedexInv'
  <2>1. Destinations' = Destinations /\ SoundFiles(content)' /\ MarkerTyped'
    BY <1>1, <1>2 DEF MarkerTyped, SoundFiles, OnlyMarkdownNests, Destinations
  <2>2. InSync(content)' <=> InSync(content)
    BY <1>2 DEF InSync, Destinations, SourcesOf
  <2>3. IsCycle(outcome.cycle)' <=> IsCycle(outcome.cycle)
    BY <1>2 DEF IsCycle, Dependencies, Destinations, SourcesOf
  <2>4. HasDependencyCycle' <=> HasDependencyCycle
    BY <1>2 DEF HasDependencyCycle, IsCycle, Dependencies, Destinations, SourcesOf
  <2>5. SuccessMeansInSync'
    BY <1>1, <1>2, <2>2, <2>3, <2>4 DEF SuccessMeansInSync
  <2> QED BY <2>1, <2>5 DEF EmbedexInv
<1>3. ASSUME marker' = marker, SoundFiles(content'), SuccessMeansInSync'
      PROVE  EmbedexInv'
  BY <1>1, <1>3 DEF EmbedexInv, MarkerTyped, SoundFiles, OnlyMarkdownNests
<1>4. ASSUME NEW run \in Runs, NEW write \in BOOLEAN, Embed(run, write)
      PROVE  EmbedexInv'
  <2>1. PICK order \in Orders : run = RunOf(order)
    BY <1>4 DEF Runs
  <2>2. PICK result, files :
          result = Outcome(run, write) /\ files = IF write THEN run.files ELSE content
    OBVIOUS
  <2>3. outcome' = result /\ content' = files /\ marker' = marker
    BY <1>4, <2>2 DEF Embed
  <2>4. /\ SoundFiles(run.files)
        /\ result.exit = 0 => InSync(files)
        /\ ~write /\ result.exit = 1 => ~InSync(files) \/ HasDependencyCycle
        /\ result.cycle # <<>> => IsCycle(result.cycle)
        /\ result.cycle = <<>> => ~HasDependencyCycle
    BY <1>1, <2>1, <2>2, OutcomeWhat
  <2>5. SoundFiles(content')
    BY <1>1, <2>2, <2>3, <2>4
  <2>6. result.write = write
    BY <2>2 DEF Outcome
  <2>7. InSync(content)' <=> InSync(files)
    BY <2>3 DEF InSync, Destinations, SourcesOf
  <2>8. IsCycle(outcome.cycle)' <=> IsCycle(result.cycle)
    BY <2>3 DEF IsCycle, Dependencies, Destinations, SourcesOf
  <2>9. HasDependencyCycle' <=> HasDependencyCycle
    BY <2>3 DEF HasDependencyCycle, IsCycle, Dependencies, Destinations, SourcesOf
  <2>10. SuccessMeansInSync'
    BY <2>3, <2>4, <2>6, <2>7, <2>8, <2>9 DEF SuccessMeansInSync
  <2> QED BY <1>3, <2>3, <2>5, <2>10
<1>5. ASSUME NEW run \in Runs, NEW written \in SUBSET Destinations, EmbedFails(run, written)
      PROVE  EmbedexInv'
  <2>1. PICK order \in Orders : run = RunOf(order)
    BY <1>5 DEF Runs
  <2>2. PICK files : files = run.files /\ SoundFiles(files)
    BY <1>1, <2>1, OutcomeWhat
  <2>3. /\ content' = [f \in Files |-> IF f \in written THEN files[f] ELSE content[f]]
        /\ outcome' = NoOutcome /\ marker' = marker
    BY <1>5, <2>2 DEF EmbedFails
  <2>4. SoundFiles(content')
    BY <1>1, <2>2, <2>3 DEF SoundFiles, OnlyMarkdownNests, MarkerTyped
  <2>5. SuccessMeansInSync'
    BY <2>3 DEF SuccessMeansInSync, NoOutcome
  <2> QED BY <1>3, <2>3, <2>4, <2>5
<1>6. ASSUME NEW f \in Files, NEW n \in DOMAIN content[f], Edit(f, n)
      PROVE  EmbedexInv'
  <2>1. PICK piece \in Edits(content[f][n]) : content' = [content EXCEPT ![f][n] = piece]
    BY <1>6 DEF Edit
  <2>2. outcome' = NoOutcome /\ marker' = marker
    BY <1>6 DEF Edit
  <2>3. PICK old : old = content[f] /\ old \in Seq(Pieces) /\ n \in DOMAIN old
    BY <1>1 DEF SoundFiles
  <2>4. piece \in Pieces /\ (old[n] \in Texts => piece \in Texts)
    <3>1. old[n] \in Pieces /\ piece \in Edits(old[n])
      BY <2>1, <2>3
    <3> QED BY <3>1, EditsWhat
  <2>5. PICK new : new = [old EXCEPT ![n] = piece] /\ new \in Seq(Pieces)
    BY <2>3, <2>4, OneChanged
  <2>6. content' = [content EXCEPT ![f] = new]
    BY <2>1, <2>3, <2>5
  <2>7. content' \in [Files -> Seq(Pieces)]
    BY <1>1, <2>5, <2>6 DEF SoundFiles
  <2>8. ASSUME NEW s \in DOMAIN marker, ~IsMarkdown[s]
        PROVE  content'[s] \in Seq(Texts)
    <3>1. content[s] \in Seq(Texts) /\ s \in Files /\ content \in [Files -> Seq(Pieces)]
      BY <1>1, <2>8 DEF SoundFiles, OnlyMarkdownNests, MarkerTyped
    <3>2. CASE s = f
      <4>1. old \in Seq(Texts) /\ old[n] \in Texts
        BY <2>3, <3>1, <3>2
      <4>2. new \in Seq(Texts)
        BY <2>3, <2>4, <2>5, <4>1, OneChanged
      <4> QED BY <2>6, <3>1, <3>2, <4>2
    <3> QED BY <2>6, <3>1, <3>2
  <2>9. SoundFiles(content')
    BY <2>7, <2>8 DEF SoundFiles, OnlyMarkdownNests
  <2>10. SuccessMeansInSync'
    BY <2>2 DEF SuccessMeansInSync, NoOutcome
  <2> QED BY <1>3, <2>2, <2>9, <2>10
<1> QED BY <1>2, <1>4, <1>5, <1>6 DEF EmbedexNext, embedexVars

\* Embedex: embed exits with 0 only when every tag, along chains of any length, holds what
\* its source holds; a check that fails has found something that is not so, or a cycle; and
\* a cycle is reported exactly when the destinations' dependencies have one, whatever the
\* order in which the sources arrive.
THEOREM SuccessIsInSync == EmbedexSpec => []SuccessMeansInSync
<1>1. EmbedexInv => SuccessMeansInSync
  BY DEF EmbedexInv
<1> QED BY <1>1, EmbedexInvInit, EmbedexInvNext, PTL DEF EmbedexSpec

=============================================================================
