---------------------------- MODULE Lists_proofs ----------------------------
(***************************************************************************)
(* Lemmas about lists and the loops that go through them.                  *)
(*                                                                         *)
(* A loop is a recursive function of its turns, or of the length of what   *)
(* it has gone through.  Each is shown to exist and to stay in its type    *)
(* before anything is said of it; what it comes to is then by induction on *)
(* the turns (UpTo) or on the list (ListInduction), which rest on the      *)
(* well-foundedness of the natural numbers.                                *)
(***************************************************************************)
EXTENDS Lists, FiniteSetTheorems, SequenceTheorems, WellFoundedInduction, TLAPS

-----------------------------------------------------------------------------
(* Induction. *)

\* Numbers have a least one, which is how what follows is shown for sets of any size.
LEMMA LeastNumber ==
  ASSUME NEW S \in SUBSET Nat, S # {}
  PROVE  \E n \in S : \A m \in S : n <= m
<1> DEFINE R == OpToRel(<, Nat)
<1>1. \A m, n \in Nat : m < n => <<m, n>> \in R
  BY DEF OpToRel
<1>2. IsWellFoundedOn(R, Nat)
  BY NatLessThanWellFounded
<1> HIDE DEF R
<1>3. PICK n \in S : \A m \in S : <<m, n>> \notin R
  BY <1>2, WFMin
<1>4. \A m \in S : ~(m < n)
  BY <1>1, <1>3
<1>5. \A m \in S : m \in Nat /\ n \in Nat
  OBVIOUS
<1> QED BY <1>4, <1>5

\* What holds at first and is passed on holds up to the end.
LEMMA UpTo ==
  ASSUME NEW N \in Nat, NEW P, 0 \in P, \A n \in 1 .. N : n - 1 \in P => n \in P
  PROVE  \A n \in 0 .. N : n \in P
<1> DEFINE S == {n \in 0 .. N : n \notin P}
<1> SUFFICES ASSUME S # {} PROVE FALSE
  OBVIOUS
<1>1. S \in SUBSET Nat
  OBVIOUS
<1>2. PICK m \in S : \A n \in S : m <= n
  <2> HIDE DEF S
  <2> QED BY <1>1, LeastNumber
<1>3. m \in 1 .. N /\ m \notin P
  BY <1>2
<1>4. m - 1 \in P
  <2>1. m - 1 \in 0 .. N /\ ~(m <= m - 1)
    BY <1>3
  <2> QED BY <1>2, <2>1
<1> QED BY <1>3, <1>4

\* A loop has these values at its turns, from what it begins with on.
Loops(f, N, base, step) ==
  /\ f = [n \in 0 .. N |-> f[n]]
  /\ f[0] = base
  /\ \A n \in 1 .. N : f[n] = step[n][f[n - 1]]

\* A loop whose turns stay in a set has such values, all of them in the set.
LEMMA LoopExists ==
  ASSUME NEW N \in Nat, NEW S, NEW base \in S, NEW step \in [1 .. N -> [S -> S]]
  PROVE  \E f \in [0 .. N -> S] : Loops(f, N, base, step)
<1> DEFINE P == {m \in 0 .. N : \E f \in [0 .. m -> S] : Loops(f, m, base, step)}
<1>1. 0 \in P
  <2>1. PICK f : f = [n \in 0 .. 0 |-> base]
    OBVIOUS
  <2>2. f \in [0 .. 0 -> S] /\ Loops(f, 0, base, step)
    BY <2>1 DEF Loops
  <2> QED BY <2>2
<1>2. ASSUME NEW m \in 1 .. N, m - 1 \in P
      PROVE  m \in P
  <2>1. PICK f \in [0 .. m - 1 -> S] : Loops(f, m - 1, base, step)
    BY <1>2
  <2>2. PICK s : s = step[m][f[m - 1]]
    OBVIOUS
  <2>3. f[m - 1] \in S /\ s \in S
    <3>1. m - 1 \in 0 .. m - 1 /\ step[m] \in [S -> S]
      OBVIOUS
    <3> QED BY <2>1, <2>2, <3>1
  <2>4. PICK g : g = [n \in 0 .. m |-> IF n = m THEN s ELSE f[n]]
    OBVIOUS
  <2>5. \A n \in 0 .. m - 1 : g[n] = f[n]
    BY <2>4
  <2>6. g[m] = s
    BY <2>4
  <2>7. g \in [0 .. m -> S]
    BY <2>1, <2>3, <2>4
  <2>8. g[0] = base
    BY <2>1, <2>5 DEF Loops
  <2>9. ASSUME NEW n \in 1 .. m
        PROVE  g[n] = step[n][g[n - 1]]
    <3>1. n - 1 \in 0 .. m - 1 /\ g[n - 1] = f[n - 1]
      BY <2>5
    <3>2. CASE n = m
      BY <2>2, <2>6, <3>1, <3>2
    <3>3. CASE n # m
      <4>1. n \in 1 .. m - 1
        BY <3>3
      <4>2. f[n] = step[n][f[n - 1]]
        BY <2>1, <4>1 DEF Loops
      <4>3. g[n] = f[n]
        BY <2>5, <4>1
      <4> QED BY <3>1, <4>2, <4>3
    <3> QED BY <3>2, <3>3
  <2>10. g = [n \in 0 .. m |-> g[n]]
    BY <2>7
  <2>11. Loops(g, m, base, step)
    BY <2>8, <2>9, <2>10 DEF Loops
  <2> QED BY <2>7, <2>11
<1>3. N \in P
  <2> HIDE DEF P
  <2>1. \A n \in 0 .. N : n \in P
    BY <1>1, <1>2, UpTo
  <2> QED BY <2>1
<1> QED BY <1>3

\* What is known of a loop before it is known to stay in the set.
LoopsIn(f, N, S, base, step) ==
  /\ f[0] = base
  /\ \A n \in 1 .. N : f[n - 1] \in S => f[n] = step[n][f[n - 1]]

\* It does.
LEMMA LoopStays ==
  ASSUME NEW N \in Nat, NEW S, NEW base \in S, NEW step \in [1 .. N -> [S -> S]],
         NEW f, LoopsIn(f, N, S, base, step)
  PROVE  \A n \in 0 .. N : f[n] \in S
<1> DEFINE P == {n \in 0 .. N : f[n] \in S}
<1>1. 0 \in P
  BY DEF LoopsIn
<1>2. ASSUME NEW n \in 1 .. N, n - 1 \in P
      PROVE  n \in P
  <2>1. f[n - 1] \in S /\ step[n] \in [S -> S] /\ n \in 0 .. N
    BY <1>2
  <2> QED BY <2>1 DEF LoopsIn
<1>3. \A n \in 0 .. N : n \in P
  <2> HIDE DEF P
  <2> QED BY <1>1, <1>2, UpTo
<1> QED BY <1>3

-----------------------------------------------------------------------------
(* Lists, and what is among them. *)

\* A list is one of what is in it.
LEMMA ListOfItsOwn ==
  ASSUME NEW T, NEW s \in Seq(T)
  PROVE  /\ s \in Seq(ToSet(s)) /\ ToSet(s) \subseteq T
         /\ Len(s) \in Nat /\ DOMAIN s = 1 .. Len(s)
<1>1. Len(s) \in Nat /\ DOMAIN s = 1 .. Len(s) /\ \A n \in 1 .. Len(s) : s[n] \in T
  OBVIOUS
<1>2. ToSet(s) \subseteq T /\ \A n \in 1 .. Len(s) : s[n] \in ToSet(s)
  BY <1>1 DEF ToSet
<1> QED BY <1>1, <1>2

\* A list of some things is one of more.
LEMMA ListOfMore ==
  ASSUME NEW T, NEW s \in Seq(T), NEW U, T \subseteq U
  PROVE  s \in Seq(U)
<1>1. Len(s) \in Nat /\ DOMAIN s = 1 .. Len(s) /\ \A n \in 1 .. Len(s) : s[n] \in U
  OBVIOUS
<1> QED BY <1>1

\* What two lists hold is in the one after the other.
LEMMA ListOfBoth ==
  ASSUME NEW T, NEW s \in Seq(T), NEW t \in Seq(T)
  PROVE  ToSet(s) \cup ToSet(t) \subseteq ToSet(s \o t)
<1>1. PICK k, l : /\ k = Len(s) /\ l = Len(t) /\ k \in Nat /\ l \in Nat
                  /\ DOMAIN s = 1 .. k /\ DOMAIN t = 1 .. l /\ DOMAIN (s \o t) = 1 .. k + l
  <2>1. /\ Len(s) \in Nat /\ Len(t) \in Nat /\ DOMAIN s = 1 .. Len(s) /\ DOMAIN t = 1 .. Len(t)
        /\ DOMAIN (s \o t) = 1 .. Len(s) + Len(t)
    OBVIOUS
  <2> QED BY <2>1
<1>2. \A n \in 1 .. k : n \in 1 .. k + l /\ (s \o t)[n] = s[n]
  BY <1>1
<1>3. \A n \in 1 .. l : k + n \in 1 .. k + l /\ (s \o t)[k + n] = t[n]
  BY <1>1
<1>4. ASSUME NEW x \in ToSet(s)
      PROVE  x \in ToSet(s \o t)
  <2>1. PICK n \in 1 .. k : x = s[n]
    BY <1>1 DEF ToSet
  <2> QED BY <1>1, <1>2, <2>1 DEF ToSet
<1>5. ASSUME NEW x \in ToSet(t)
      PROVE  x \in ToSet(s \o t)
  <2>1. PICK n \in 1 .. l : x = t[n]
    BY <1>1 DEF ToSet
  <2> QED BY <1>1, <1>3, <2>1 DEF ToSet
<1> QED BY <1>4, <1>5

\* The loop of the records among some that are in a set.
Keeps(f, records, set) ==
  /\ f[0] = <<>>
  /\ \A n \in 1 .. Len(records) :
       f[n] = IF records[n] \in set THEN Append(f[n - 1], records[n]) ELSE f[n - 1]
  /\ Among(records, set) = f[Len(records)]

\* It is there, and goes through lists of the same.
LEMMA KeepsExist ==
  ASSUME NEW T, NEW records \in Seq(T), NEW set
  PROVE  \E f \in [0 .. Len(records) -> Seq(T)] : Keeps(f, records, set)
<1>1. PICK N, S : N = Len(records) /\ S = Seq(T)
  OBVIOUS
<1>2. N \in Nat /\ <<>> \in S /\ \A n \in 1 .. N : records[n] \in T
  BY <1>1
<1>3. \A n \in 1 .. N : \A v \in S :
        (IF records[n] \in set THEN Append(v, records[n]) ELSE v) \in S
  BY <1>1, <1>2
<1>4. PICK step : step = [n \in 1 .. N |-> [v \in S |->
                     IF records[n] \in set THEN Append(v, records[n]) ELSE v]]
  OBVIOUS
<1>5. /\ step \in [1 .. N -> [S -> S]]
      /\ \A n \in 1 .. N : \A v \in S :
           step[n][v] = IF records[n] \in set THEN Append(v, records[n]) ELSE v
  BY <1>3, <1>4
<1> DEFINE Turns(f) ==
             f = [n \in 0 .. N |->
                    IF n = 0 THEN <<>>
                    ELSE IF records[n] \in set THEN Append(f[n - 1], records[n]) ELSE f[n - 1]]
<1>6. \A n \in 0 .. N : n # 0 => n \in 1 .. N /\ n - 1 \in 0 .. N
  BY <1>2
<1>7. \E f : Turns(f)
  <2>1. PICK f \in [0 .. N -> S] : Loops(f, N, <<>>, step)
    BY <1>2, <1>5, LoopExists
  <2>2. f[0] = <<>> /\ f = [n \in 0 .. N |-> f[n]]
    BY <2>1 DEF Loops
  <2>3. \A n \in 1 .. N :
          f[n] = IF records[n] \in set THEN Append(f[n - 1], records[n]) ELSE f[n - 1]
    <3> TAKE n \in 1 .. N
    <3>1. n - 1 \in 0 .. N
      BY <1>2
    <3>2. f[n - 1] \in S /\ f[n] = step[n][f[n - 1]]
      BY <2>1, <3>1 DEF Loops
    <3> QED BY <1>5, <3>2
  <2>4. \A n \in 0 .. N :
          f[n] = IF n = 0 THEN <<>>
                 ELSE IF records[n] \in set THEN Append(f[n - 1], records[n]) ELSE f[n - 1]
    BY <1>6, <2>2, <2>3
  <2> QED BY <2>2, <2>4
<1>8. PICK f : f = (CHOOSE g : Turns(g)) /\ Turns(f)
  <2> HIDE DEF Turns
  <2> QED BY <1>7
<1>9. Among(records, set) = f[N]
  BY <1>1, <1>8 DEF Among
<1>10. /\ f = [n \in 0 .. N |-> f[n]]
       /\ \A n \in 0 .. N :
            f[n] = IF n = 0 THEN <<>>
                   ELSE IF records[n] \in set THEN Append(f[n - 1], records[n]) ELSE f[n - 1]
  BY <1>8
<1> HIDE DEF Turns
<1>11. f[0] = <<>>
  <2>1. 0 \in 0 .. N
    BY <1>2
  <2> QED BY <1>10, <2>1
<1>12. \A n \in 1 .. N :
         f[n] = IF records[n] \in set THEN Append(f[n - 1], records[n]) ELSE f[n - 1]
  <2> TAKE n \in 1 .. N
  <2>1. n \in 0 .. N /\ n # 0
    BY <1>2
  <2> QED BY <1>10, <2>1
<1>13. LoopsIn(f, N, S, <<>>, step)
  BY <1>5, <1>11, <1>12 DEF LoopsIn
<1>14. \A n \in 0 .. N : f[n] \in S
  BY <1>2, <1>5, <1>13, LoopStays
<1>15. f \in [0 .. N -> S]
  BY <1>10, <1>14
<1> QED BY <1>1, <1>9, <1>11, <1>12, <1>15 DEF Keeps

\* One more in a list.
LEMMA OneMore ==
  ASSUME NEW T, NEW s \in Seq(T), NEW x \in T
  PROVE  /\ Append(s, x) \in Seq(T) /\ Append(s, x) # <<>>
         /\ Len(Append(s, x)) = Len(s) + 1 /\ Len(s) \in Nat
         /\ ToSet(Append(s, x)) = ToSet(s) \cup {x}
         /\ \A k \in 1 .. Len(s) : Append(s, x)[k] = s[k]
         /\ Append(s, x)[Len(s) + 1] = x
<1>1. PICK t, k : t = Append(s, x) /\ k = Len(s)
  OBVIOUS
<1>2. /\ k \in Nat /\ DOMAIN s = 1 .. k /\ DOMAIN t = 1 .. k + 1
      /\ t[k + 1] = x /\ \A n \in 1 .. k : t[n] = s[n]
  BY <1>1
<1>3. ToSet(t) = ToSet(s) \cup {x}
  <2>1. ToSet(t) \subseteq ToSet(s) \cup {x}
    <3> SUFFICES ASSUME NEW n \in 1 .. k + 1 PROVE t[n] \in ToSet(s) \cup {x}
      BY <1>2 DEF ToSet
    <3>1. n = k + 1 \/ n \in 1 .. k
      BY <1>2
    <3> QED BY <1>2, <3>1 DEF ToSet
  <2>2. ToSet(s) \cup {x} \subseteq ToSet(t)
    <3>1. x \in ToSet(t)
      BY <1>2 DEF ToSet
    <3>2. ASSUME NEW n \in 1 .. k PROVE s[n] \in ToSet(t)
      <4>1. n \in 1 .. k + 1 /\ t[n] = s[n]
        BY <1>2
      <4> QED BY <1>2, <4>1 DEF ToSet
    <3> QED BY <1>2, <3>1, <3>2 DEF ToSet
  <2> QED BY <2>1, <2>2
<1> QED BY <1>1, <1>2, <1>3

\* The part of a list is a list of the same.
LEMMA AmongType ==
  ASSUME NEW T, NEW records \in Seq(T), NEW set
  PROVE  Among(records, set) \in Seq(T)
<1>1. PICK f \in [0 .. Len(records) -> Seq(T)] : Keeps(f, records, set)
  BY KeepsExist
<1>2. Len(records) \in 0 .. Len(records)
  OBVIOUS
<1> QED BY <1>1, <1>2 DEF Keeps

\* A list of what of some things is in a set, when n of them have been tried.
IsPart(list, things, set, n) ==
  /\ ToSet(list) = things \cap set
  /\ Len(list) <= n
  /\ \A r \in things : r \notin set => Len(list) < n

\* It holds what is in the set, and is no longer, and shorter if something is not.
LEMMA AmongWhat ==
  ASSUME NEW T, NEW records \in Seq(T), NEW set
  PROVE  /\ ToSet(Among(records, set)) = ToSet(records) \cap set
         /\ Len(Among(records, set)) \in Nat
         /\ Len(Among(records, set)) <= Len(records)
         /\ \A r \in ToSet(records) : r \notin set => Len(Among(records, set)) < Len(records)
<1>1. PICK f \in [0 .. Len(records) -> Seq(T)] : Keeps(f, records, set)
  BY KeepsExist
<1>2. PICK N \in Nat : N = Len(records) /\ DOMAIN records = 1 .. N
                    /\ \A n \in 1 .. N : records[n] \in T
  OBVIOUS
<1>3. PICK Done : Done = [n \in 0 .. N |-> {records[k] : k \in 1 .. n}]
  OBVIOUS
<1>4. PICK P : P = {n \in 0 .. N : IsPart(f[n], Done[n], set, n)}
  OBVIOUS
<1>5. 0 \in P
  <2>1. 0 \in 0 .. N /\ f[0] = <<>>
    BY <1>1, <1>2 DEF Keeps
  <2>2. Done[0] = {}
    BY <1>2, <1>3, <2>1
  <2>3. ToSet(<<>>) = {} /\ Len(<<>>) = 0
    BY DEF ToSet
  <2>4. IsPart(f[0], Done[0], set, 0)
    BY <2>1, <2>2, <2>3 DEF IsPart
  <2> QED BY <1>4, <2>1, <2>4
<1>6. ASSUME NEW n \in 1 .. N, n - 1 \in P
      PROVE  n \in P
  <2>1. PICK s, x : s = f[n - 1] /\ x = records[n]
    OBVIOUS
  <2>2. n - 1 \in 0 .. N /\ n \in 0 .. N /\ s \in Seq(T) /\ x \in T
    <3>1. n - 1 \in 0 .. N /\ n \in 0 .. N
      BY <1>2
    <3> QED BY <1>1, <1>2, <2>1, <3>1
  <2>3. f[n] = IF x \in set THEN Append(s, x) ELSE s
    BY <1>1, <1>2, <2>1 DEF Keeps
  <2>4. Done[n] = Done[n - 1] \cup {x}
    <3>1. \A k \in 1 .. n : k = n \/ k \in 1 .. n - 1
      BY <1>2
    <3>2. \A k \in 1 .. n - 1 : k \in 1 .. n
      BY <1>2
    <3> QED BY <1>3, <2>1, <2>2, <3>1, <3>2
  <2>5. /\ ToSet(s) = Done[n - 1] \cap set /\ Len(s) <= n - 1
        /\ \A r \in Done[n - 1] : r \notin set => Len(s) < n - 1
    <3>1. IsPart(s, Done[n - 1], set, n - 1)
      BY <1>4, <1>6, <2>1
    <3> QED BY <3>1 DEF IsPart
  <2>6. Len(s) \in Nat
    BY <2>2
  <2>7. CASE x \in set
    <3>1. f[n] = Append(s, x) /\ ToSet(f[n]) = ToSet(s) \cup {x} /\ Len(f[n]) = Len(s) + 1
      BY <2>2, <2>3, <2>7, OneMore
    <3>2. \A r \in Done[n] : r \notin set => Len(f[n]) < n
      BY <2>4, <2>5, <2>6, <2>7, <3>1
    <3>3. ToSet(f[n]) = Done[n] \cap set
      BY <2>4, <2>5, <2>7, <3>1
    <3>4. Len(f[n]) <= n
      BY <2>5, <2>6, <3>1
    <3>5. IsPart(f[n], Done[n], set, n)
      BY <3>2, <3>3, <3>4 DEF IsPart
    <3> QED BY <1>4, <2>2, <3>5
  <2>8. CASE x \notin set
    <3>1. Len(f[n]) < n /\ ToSet(f[n]) = Done[n] \cap set
      BY <2>3, <2>4, <2>5, <2>6, <2>8
    <3>2. Len(f[n]) \in Nat
      BY <2>3, <2>6, <2>8
    <3>3. IsPart(f[n], Done[n], set, n)
      BY <3>1, <3>2 DEF IsPart
    <3> QED BY <1>4, <2>2, <3>3
  <2> QED BY <2>7, <2>8
<1>7. \A n \in 0 .. N : n \in P
  BY <1>5, <1>6, UpTo
<1>8. N \in P /\ N \in 0 .. N
  BY <1>7
<1>9. Done[N] = ToSet(records)
  BY <1>2, <1>3, <1>8 DEF ToSet
<1>10. Among(records, set) = f[N] /\ f[N] \in Seq(T)
  BY <1>1, <1>2, <1>8 DEF Keeps
<1>11. IsPart(f[N], Done[N], set, N)
  BY <1>4, <1>8
<1> QED BY <1>2, <1>9, <1>10, <1>11 DEF IsPart

\* All of a list, if all of it is in the set.
LEMMA AmongAll ==
  ASSUME NEW T, NEW records \in Seq(T), NEW set, ToSet(records) \subseteq set
  PROVE  Among(records, set) = records
<1>1. PICK f \in [0 .. Len(records) -> Seq(T)] : Keeps(f, records, set)
  BY KeepsExist
<1>2. PICK N \in Nat : N = Len(records) /\ \A n \in 1 .. N : records[n] \in T /\ records[n] \in set
  BY DEF ToSet
<1>3. PICK P : P = {n \in 0 .. N : Len(f[n]) = n /\ \A k \in 1 .. n : f[n][k] = records[k]}
  OBVIOUS
<1>4. 0 \in P
  <2>1. 0 \in 0 .. N /\ f[0] = <<>>
    BY <1>1, <1>2 DEF Keeps
  <2> QED BY <1>3, <2>1
<1>5. ASSUME NEW n \in 1 .. N, n - 1 \in P
      PROVE  n \in P
  <2>1. PICK s, x : s = f[n - 1] /\ x = records[n]
    OBVIOUS
  <2>2. n - 1 \in 0 .. N /\ n \in 0 .. N /\ s \in Seq(T) /\ x \in T
    <3>1. n - 1 \in 0 .. N /\ n \in 0 .. N
      BY <1>2
    <3> QED BY <1>1, <1>2, <2>1, <3>1
  <2>3. f[n] = Append(s, x)
    BY <1>1, <1>2, <2>1 DEF Keeps
  <2>4. Len(s) = n - 1 /\ \A k \in 1 .. n - 1 : s[k] = records[k]
    BY <1>3, <1>5, <2>1
  <2>5. Len(f[n]) = n /\ f[n][n] = x /\ \A k \in 1 .. n - 1 : f[n][k] = s[k]
    BY <2>2, <2>3, <2>4, OneMore
  <2>6. ASSUME NEW k \in 1 .. n PROVE f[n][k] = records[k]
    <3>1. k = n \/ k \in 1 .. n - 1
      BY <1>2
    <3> QED BY <2>1, <2>4, <2>5, <3>1
  <2> QED BY <1>3, <2>2, <2>5, <2>6
<1>6. N \in P
  <2>1. \A n \in 0 .. N : n \in P
    BY <1>4, <1>5, UpTo
  <2> QED BY <2>1
<1>7. Among(records, set) = f[N] /\ f[N] \in Seq(T)
  BY <1>1, <1>2 DEF Keeps
<1>8. Len(f[N]) = N /\ \A k \in 1 .. N : f[N][k] = records[k]
  BY <1>3, <1>6
<1> QED BY <1>2, <1>7, <1>8

\* The same, if the sets are for the list.
LEMMA AmongSame ==
  ASSUME NEW T, NEW records \in Seq(T), NEW A, NEW B,
         \A r \in ToSet(records) : r \in A <=> r \in B
  PROVE  Among(records, A) = Among(records, B)
<1>1. PICK f \in [0 .. Len(records) -> Seq(T)] : Keeps(f, records, A)
  BY KeepsExist
<1>2. PICK g \in [0 .. Len(records) -> Seq(T)] : Keeps(g, records, B)
  BY KeepsExist
<1>3. PICK N \in Nat : N = Len(records) /\ \A n \in 1 .. N : records[n] \in A <=> records[n] \in B
  BY DEF ToSet
<1>4. PICK P : P = {n \in 0 .. N : f[n] = g[n]}
  OBVIOUS
<1>5. 0 \in P
  BY <1>1, <1>2, <1>3, <1>4 DEF Keeps
<1>6. ASSUME NEW n \in 1 .. N, n - 1 \in P
      PROVE  n \in P
  <2>1. f[n - 1] = g[n - 1] /\ n \in 0 .. N
    BY <1>3, <1>4, <1>6
  <2>2. f[n] = g[n]
    BY <1>1, <1>2, <1>3, <2>1 DEF Keeps
  <2> QED BY <1>4, <2>1, <2>2
<1>7. N \in P
  <2>1. \A n \in 0 .. N : n \in P
    BY <1>5, <1>6, UpTo
  <2> QED BY <2>1
<1> QED BY <1>1, <1>2, <1>3, <1>4, <1>7 DEF Keeps

\* One more is taken if it is in the set.
LEMMA AmongMore ==
  ASSUME NEW T, NEW records \in Seq(T), NEW x \in T, NEW set
  PROVE  Among(Append(records, x), set) =
           IF x \in set THEN Append(Among(records, set), x) ELSE Among(records, set)
<1>1. PICK more, N : more = Append(records, x) /\ N = Len(records)
  OBVIOUS
<1>2. /\ more \in Seq(T) /\ Len(more) = N + 1 /\ N \in Nat
      /\ more[N + 1] = x /\ \A n \in 1 .. N : more[n] = records[n]
  BY <1>1, OneMore
<1>3. PICK f \in [0 .. Len(records) -> Seq(T)] : Keeps(f, records, set)
  BY KeepsExist
<1>4. PICK g \in [0 .. Len(more) -> Seq(T)] : Keeps(g, more, set)
  BY <1>2, KeepsExist
<1>5. PICK P : P = {n \in 0 .. N : f[n] = g[n]}
  OBVIOUS
<1>6. 0 \in P
  BY <1>2, <1>3, <1>4, <1>5 DEF Keeps
<1>7. ASSUME NEW n \in 1 .. N, n - 1 \in P
      PROVE  n \in P
  <2>1. f[n - 1] = g[n - 1] /\ n \in 0 .. N /\ n \in 1 .. N + 1
    BY <1>2, <1>5, <1>7
  <2>2. f[n] = IF records[n] \in set THEN Append(f[n - 1], records[n]) ELSE f[n - 1]
    BY <1>1, <1>3 DEF Keeps
  <2>3. g[n] = IF more[n] \in set THEN Append(g[n - 1], more[n]) ELSE g[n - 1]
    BY <1>2, <1>4, <2>1 DEF Keeps
  <2> QED BY <1>2, <1>5, <2>1, <2>2, <2>3
<1>8. N \in P
  <2>1. \A n \in 0 .. N : n \in P
    BY <1>2, <1>6, <1>7, UpTo
  <2> QED BY <1>2, <2>1
<1>9. Among(records, set) = g[N]
  BY <1>1, <1>3, <1>5, <1>8 DEF Keeps
<1>10. Among(more, set) = g[N + 1]
  BY <1>2, <1>4 DEF Keeps
<1>11. g[N + 1] = IF more[N + 1] \in set THEN Append(g[N], more[N + 1]) ELSE g[N]
  <2>1. N + 1 \in 1 .. Len(more) /\ (N + 1) - 1 = N
    BY <1>2
  <2> QED BY <1>4, <2>1 DEF Keeps
<1> QED BY <1>1, <1>2, <1>9, <1>10, <1>11

\* Lists of what is in one of two sets that are apart are no longer than that of both.
LEMMA PartsApart ==
  ASSUME NEW T, NEW records \in Seq(T), NEW A, NEW B, A \cap B = {}
  PROVE  Len(Among(records, A)) + Len(Among(records, B)) <= Len(Among(records, A \cup B))
<1>1. PICK f \in [0 .. Len(records) -> Seq(T)] : Keeps(f, records, A)
  BY KeepsExist
<1>2. PICK g \in [0 .. Len(records) -> Seq(T)] : Keeps(g, records, B)
  BY KeepsExist
<1>3. PICK h \in [0 .. Len(records) -> Seq(T)] : Keeps(h, records, A \cup B)
  BY KeepsExist
<1>4. PICK N \in Nat : N = Len(records) /\ \A n \in 1 .. N : records[n] \in T
  OBVIOUS
<1>5. PICK P : P = {n \in 0 .. N : Len(f[n]) + Len(g[n]) <= Len(h[n])}
  OBVIOUS
<1>6. 0 \in P
  <2>1. f[0] = <<>> /\ g[0] = <<>> /\ h[0] = <<>> /\ 0 \in 0 .. N
    BY <1>1, <1>2, <1>3, <1>4 DEF Keeps
  <2> QED BY <1>5, <2>1
<1>7. ASSUME NEW n \in 1 .. N, n - 1 \in P
      PROVE  n \in P
  <2>1. PICK a, b, c, x : a = f[n - 1] /\ b = g[n - 1] /\ c = h[n - 1] /\ x = records[n]
    OBVIOUS
  <2>2. n - 1 \in 0 .. N /\ n \in 0 .. N
    BY <1>4
  <2>3. a \in Seq(T) /\ b \in Seq(T) /\ c \in Seq(T) /\ x \in T
    BY <1>1, <1>2, <1>3, <1>4, <2>1, <2>2
  <2>4. f[n] = IF x \in A THEN Append(a, x) ELSE a
    BY <1>1, <1>4, <2>1 DEF Keeps
  <2>5. g[n] = IF x \in B THEN Append(b, x) ELSE b
    BY <1>2, <1>4, <2>1 DEF Keeps
  <2>6. h[n] = IF x \in A \cup B THEN Append(c, x) ELSE c
    BY <1>3, <1>4, <2>1 DEF Keeps
  <2>7. Len(a) + Len(b) <= Len(c) /\ Len(a) \in Nat /\ Len(b) \in Nat /\ Len(c) \in Nat
    BY <1>5, <1>7, <2>1, <2>3
  <2>8. /\ Len(Append(a, x)) = Len(a) + 1 /\ Len(Append(b, x)) = Len(b) + 1
        /\ Len(Append(c, x)) = Len(c) + 1
    BY <2>3
  <2>9. Len(f[n]) + Len(g[n]) <= Len(h[n])
    <3>1. CASE x \in A
      <4>1. x \notin B /\ x \in A \cup B
        BY <3>1
      <4> QED BY <2>4, <2>5, <2>6, <2>7, <2>8, <3>1, <4>1
    <3>2. CASE x \notin A /\ x \in B
      BY <2>4, <2>5, <2>6, <2>7, <2>8, <3>2
    <3>3. CASE x \notin A /\ x \notin B
      BY <2>4, <2>5, <2>6, <2>7, <2>8, <3>3
    <3> QED BY <3>1, <3>2, <3>3
  <2> QED BY <1>5, <2>2, <2>9
<1>8. N \in P
  <2>1. \A n \in 0 .. N : n \in P
    BY <1>6, <1>7, UpTo
  <2> QED BY <2>1
<1> QED BY <1>1, <1>2, <1>3, <1>4, <1>5, <1>8 DEF Keeps

\* Two lists, one after the other.
LEMMA Joined ==
  ASSUME NEW T, NEW s \in Seq(T), NEW t \in Seq(T)
  PROVE  /\ s \o t \in Seq(T) /\ Len(s \o t) = Len(s) + Len(t)
         /\ Len(s) \in Nat /\ Len(t) \in Nat
         /\ \A k \in 1 .. Len(s) : (s \o t)[k] = s[k]
         /\ \A k \in 1 .. Len(t) : (s \o t)[Len(s) + k] = t[k]
         /\ ToSet(s \o t) = ToSet(s) \cup ToSet(t)
<1>1. PICK u, m, n : u = s \o t /\ m = Len(s) /\ n = Len(t)
  OBVIOUS
<1>2. /\ u \in Seq(T) /\ Len(u) = m + n /\ m \in Nat /\ n \in Nat
      /\ \A k \in 1 .. m : u[k] = s[k]
      /\ \A k \in 1 .. n : u[m + k] = t[k]
  BY <1>1
<1>3. DOMAIN s = 1 .. m /\ DOMAIN t = 1 .. n /\ DOMAIN u = 1 .. m + n
  BY <1>1, <1>2
<1>4. ASSUME NEW x \in ToSet(u) PROVE x \in ToSet(s) \cup ToSet(t)
  <2>1. PICK k \in 1 .. m + n : x = u[k]
    BY <1>3 DEF ToSet
  <2>2. k \in 1 .. m \/ (k - m \in 1 .. n /\ k = m + (k - m))
    BY <1>2
  <2>3. PICK l : l = k - m
    OBVIOUS
  <2>4. CASE k \in 1 .. m
    <3>1. x = s[k]
      BY <1>2, <2>1, <2>4
    <3> QED BY <1>3, <2>4, <3>1 DEF ToSet
  <2>5. CASE k \notin 1 .. m
    <3>1. l \in 1 .. n /\ k = m + l
      BY <2>2, <2>3, <2>5
    <3>2. x = t[l]
      BY <1>2, <2>1, <3>1
    <3> QED BY <1>3, <3>1, <3>2 DEF ToSet
  <2> QED BY <2>4, <2>5
<1>5. ToSet(s) \cup ToSet(t) \subseteq ToSet(u)
  BY <1>1, ListOfBoth
<1> QED BY <1>1, <1>2, <1>4, <1>5

\* What holds of no list and is passed on to a list with one more holds of all lists.
LEMMA ListInduction ==
  ASSUME NEW T, NEW P, <<>> \in P,
         \A s \in Seq(T) : s \in P => \A x \in T : Append(s, x) \in P
  PROVE  \A s \in Seq(T) : s \in P
<1> SUFFICES ASSUME NEW s \in Seq(T) PROVE s \in P
  OBVIOUS
<1>1. PICK N : N = Len(s)
  OBVIOUS
<1>2. N \in Nat /\ DOMAIN s = 1 .. N /\ \A n \in 1 .. N : s[n] \in T
  BY <1>1
<1>3. PICK front : front = [n \in 0 .. N |-> SubSeq(s, 1, n)]
  OBVIOUS
<1>4. PICK Q : Q = {n \in 0 .. N : front[n] \in P}
  OBVIOUS
<1>5. 0 \in Q
  <2>1. 0 \in 0 .. N /\ front[0] = SubSeq(s, 1, 0)
    BY <1>2, <1>3
  <2>2. SubSeq(s, 1, 0) = <<>>
    OBVIOUS
  <2> QED BY <1>4, <2>1, <2>2
<1>6. ASSUME NEW n \in 1 .. N, n - 1 \in Q
      PROVE  n \in Q
  <2>1. n \in 0 .. N /\ n - 1 \in 0 .. N /\ s[n] \in T
    BY <1>2
  <2>2. PICK a, b : a = SubSeq(s, 1, n - 1) /\ b = SubSeq(s, 1, n)
    OBVIOUS
  <2>3. /\ a \in Seq(T) /\ Len(a) = n - 1 /\ \A k \in 1 .. n - 1 : a[k] = s[k]
        /\ b \in Seq(T) /\ Len(b) = n /\ \A k \in 1 .. n : b[k] = s[k]
    BY <1>1, <1>2, <2>1, <2>2
  <2>4. b = Append(a, s[n])
    <3>1. /\ Append(a, s[n]) \in Seq(T) /\ Len(Append(a, s[n])) = n
          /\ \A k \in 1 .. n : Append(a, s[n])[k] = s[k]
      BY <2>1, <2>3
    <3> QED BY <2>3, <3>1
  <2>5. front[n] = b /\ front[n - 1] = a /\ a \in P
    BY <1>3, <1>4, <1>6, <2>1, <2>2
  <2>6. b \in P
    BY <2>1, <2>3, <2>4, <2>5
  <2> QED BY <1>4, <2>1, <2>5, <2>6
<1>7. N \in Q
  <2>1. \A n \in 0 .. N : n \in Q
    BY <1>2, <1>5, <1>6, UpTo
  <2> QED BY <1>2, <2>1
<1>8. front[N] = s
  <2>1. front[N] = SubSeq(s, 1, Len(s))
    BY <1>1, <1>2, <1>3
  <2>2. SubSeq(s, 1, Len(s)) = s
    OBVIOUS
  <2> QED BY <2>1, <2>2
<1> QED BY <1>4, <1>7, <1>8

\* Lists that are as long and hold the same at each place are the same.
LEMMA SameList ==
  ASSUME NEW T, NEW s \in Seq(T), NEW t \in Seq(T), NEW N, Len(s) = N, Len(t) = N,
         \A n \in 1 .. N : t[n] = s[n]
  PROVE  s = t
OBVIOUS

\* One more behind two lists is one more behind the second.
LEMMA JoinedMore ==
  ASSUME NEW T, NEW s \in Seq(T), NEW t \in Seq(T), NEW x \in T
  PROVE  /\ s \o Append(t, x) = Append(s \o t, x) /\ s \o <<>> = s /\ s \o <<x>> = Append(s, x)
         /\ <<>> \o s = s
OBVIOUS

-----------------------------------------------------------------------------
(* What comes of each, and lists of lists. *)

\* What comes of each thing in a list.
Each(g, s) == [n \in DOMAIN s |-> g[s[n]]]

LEMMA EachMore ==
  ASSUME NEW T, NEW g, NEW s \in Seq(T), NEW x \in T
  PROVE  /\ Len(Each(g, s)) = Len(s) /\ Len(s) \in Nat
         /\ \A n \in 1 .. Len(s) : Each(g, s)[n] = g[s[n]]
         /\ Each(g, Append(s, x)) = Append(Each(g, s), g[x])
         /\ Each(g, <<>>) = <<>>
<1>1. PICK U : U = {g[z] : z \in T}
  OBVIOUS
<1>2. PICK a, y, N : a = Each(g, s) /\ y = g[x] /\ N = Len(s)
  OBVIOUS
<1>3. N \in Nat /\ DOMAIN s = 1 .. N /\ \A n \in 1 .. N : s[n] \in T
  BY <1>2
<1>4. a \in Seq(U) /\ Len(a) = N /\ y \in U /\ \A n \in 1 .. N : a[n] = g[s[n]]
  <2>1. a = [n \in 1 .. N |-> g[s[n]]]
    BY <1>2, <1>3 DEF Each
  <2>2. a \in [1 .. N -> U] /\ y \in U
    BY <1>1, <1>2, <1>3, <2>1
  <2> QED BY <1>3, <2>1, <2>2
<1>5. PICK t, b : t = Append(s, x) /\ b = Each(g, t)
  OBVIOUS
<1>6. /\ t \in Seq(T) /\ DOMAIN t = 1 .. N + 1 /\ t[N + 1] = x /\ \A n \in 1 .. N : t[n] = s[n]
  BY <1>2, <1>3, <1>5
<1>7. b = [n \in 1 .. N + 1 |-> g[t[n]]]
  BY <1>5, <1>6 DEF Each
<1>8. b \in Seq(U) /\ Len(b) = N + 1
  <2>1. \A n \in 1 .. N + 1 : t[n] \in T
    <3> TAKE n \in 1 .. N + 1
    <3>1. n = N + 1 \/ n \in 1 .. N
      BY <1>3
    <3> QED BY <1>3, <1>6, <3>1
  <2>2. b \in [1 .. N + 1 -> U]
    BY <1>1, <1>7, <2>1
  <2> QED BY <1>3, <1>7, <2>2
<1>9. /\ Append(a, y) \in Seq(U) /\ Len(Append(a, y)) = N + 1
      /\ Append(a, y)[N + 1] = y /\ \A n \in 1 .. N : Append(a, y)[n] = a[n]
  BY <1>4
<1>10. \A n \in 1 .. N + 1 : b[n] = Append(a, y)[n]
  <2> TAKE n \in 1 .. N + 1
  <2>1. n = N + 1 \/ n \in 1 .. N
    BY <1>3
  <2> QED BY <1>2, <1>4, <1>6, <1>7, <1>9, <2>1
<1>11. b = Append(a, y)
  BY <1>8, <1>9, <1>10
<1>12. Each(g, <<>>) = <<>>
  <2>1. DOMAIN <<>> = {}
    OBVIOUS
  <2>2. Each(g, <<>>) = [n \in {} |-> g[<<>>[n]]]
    BY <2>1 DEF Each
  <2> QED BY <2>2
<1> QED BY <1>2, <1>3, <1>4, <1>5, <1>11, <1>12

\* Each thing gives one of some.
LEMMA EachType ==
  ASSUME NEW T, NEW s \in Seq(T), NEW g, NEW V, \A x \in T : g[x] \in V
  PROVE  Each(g, s) \in Seq(V)
<1>1. PICK N \in Nat : N = Len(s) /\ DOMAIN s = 1 .. N /\ \A n \in 1 .. N : s[n] \in T
  OBVIOUS
<1>2. Each(g, s) = [n \in 1 .. N |-> g[s[n]]]
  BY <1>1 DEF Each
<1>3. [n \in 1 .. N |-> g[s[n]]] \in [1 .. N -> V]
  BY <1>1
<1> QED BY <1>1, <1>2, <1>3

\* The loop that puts lists one after the other.
Chains(f, lists) ==
  /\ f[0] = <<>>
  /\ \A n \in 1 .. Len(lists) : f[n] = f[n - 1] \o lists[n]
  /\ Chained(lists) = f[Len(lists)]

\* It is there, and goes through lists of the same.
LEMMA ChainsExist ==
  ASSUME NEW T, NEW lists \in Seq(Seq(T))
  PROVE  \E f \in [0 .. Len(lists) -> Seq(T)] : Chains(f, lists)
<1>1. PICK N, S : N = Len(lists) /\ S = Seq(T)
  OBVIOUS
<1>2. N \in Nat /\ <<>> \in S /\ \A n \in 1 .. N : lists[n] \in Seq(T)
  BY <1>1
<1>3. \A n \in 1 .. N : \A v \in S : v \o lists[n] \in S
  BY <1>1, <1>2
<1>4. PICK step : step = [n \in 1 .. N |-> [v \in S |-> v \o lists[n]]]
  OBVIOUS
<1>5. /\ step \in [1 .. N -> [S -> S]]
      /\ \A n \in 1 .. N : \A v \in S : step[n][v] = v \o lists[n]
  BY <1>3, <1>4
<1> DEFINE Turns(f) ==
             f = [n \in 0 .. N |-> IF n = 0 THEN <<>> ELSE f[n - 1] \o lists[n]]
<1>6. \A n \in 0 .. N : n # 0 => n \in 1 .. N /\ n - 1 \in 0 .. N
  BY <1>2
<1>7. \E f : Turns(f)
  <2>1. PICK f \in [0 .. N -> S] : Loops(f, N, <<>>, step)
    BY <1>2, <1>5, LoopExists
  <2>2. f[0] = <<>> /\ f = [n \in 0 .. N |-> f[n]]
    BY <2>1 DEF Loops
  <2>3. \A n \in 1 .. N : f[n] = f[n - 1] \o lists[n]
    <3> TAKE n \in 1 .. N
    <3>1. n - 1 \in 0 .. N
      BY <1>2
    <3>2. f[n - 1] \in S /\ f[n] = step[n][f[n - 1]]
      BY <2>1, <3>1 DEF Loops
    <3> QED BY <1>5, <3>2
  <2>4. \A n \in 0 .. N : f[n] = IF n = 0 THEN <<>> ELSE f[n - 1] \o lists[n]
    BY <1>6, <2>2, <2>3
  <2>5. f = [n \in 0 .. N |-> IF n = 0 THEN <<>> ELSE f[n - 1] \o lists[n]]
    BY <2>2, <2>4, Zenon
  <2> QED BY <2>5
<1>8. PICK f : f = (CHOOSE g : Turns(g)) /\ Turns(f)
  <2> HIDE DEF Turns
  <2> QED BY <1>7
<1>9. Chained(lists) = f[N]
  BY <1>1, <1>8 DEF Chained
<1>10. /\ f = [n \in 0 .. N |-> f[n]]
       /\ \A n \in 0 .. N : f[n] = IF n = 0 THEN <<>> ELSE f[n - 1] \o lists[n]
  BY <1>8
<1> HIDE DEF Turns
<1>11. f[0] = <<>>
  <2>1. 0 \in 0 .. N
    BY <1>2
  <2> QED BY <1>10, <2>1
<1>12. \A n \in 1 .. N : f[n] = f[n - 1] \o lists[n]
  <2> TAKE n \in 1 .. N
  <2>1. n \in 0 .. N /\ n # 0
    BY <1>2
  <2> QED BY <1>10, <2>1
<1>13. LoopsIn(f, N, S, <<>>, step)
  BY <1>5, <1>11, <1>12 DEF LoopsIn
<1>14. \A n \in 0 .. N : f[n] \in S
  BY <1>2, <1>5, <1>13, LoopStays
<1>15. f \in [0 .. N -> S]
  BY <1>10, <1>14
<1> QED BY <1>1, <1>9, <1>11, <1>12, <1>15 DEF Chains

\* A list more is put behind the others.
LEMMA ChainedMore ==
  ASSUME NEW T, NEW lists \in Seq(Seq(T)), NEW x \in Seq(T)
  PROVE  /\ Chained(lists) \in Seq(T)
         /\ Chained(<<>>) = <<>>
         /\ Chained(Append(lists, x)) = Chained(lists) \o x
<1>1. PICK more, none, N, S : more = Append(lists, x) /\ none = <<>> /\ N = Len(lists) /\ S = Seq(T)
  OBVIOUS
<1>2. /\ more \in Seq(Seq(T)) /\ none \in Seq(Seq(T)) /\ Len(none) = 0
      /\ Len(more) = N + 1 /\ N \in Nat
      /\ more[N + 1] = x /\ \A n \in 1 .. N : more[n] = lists[n]
  BY <1>1, OneMore
<1>3. PICK f \in [0 .. Len(lists) -> Seq(T)] : Chains(f, lists)
  BY ChainsExist
<1>4. PICK g \in [0 .. Len(more) -> Seq(T)] : Chains(g, more)
  BY <1>2, ChainsExist
<1>5. PICK h \in [0 .. Len(none) -> Seq(T)] : Chains(h, none)
  BY <1>2, ChainsExist
<1>6. PICK P : P = {n \in 0 .. N : f[n] = g[n]}
  OBVIOUS
<1>7. 0 \in P
  BY <1>2, <1>3, <1>4, <1>6 DEF Chains
<1>8. ASSUME NEW n \in 1 .. N, n - 1 \in P
      PROVE  n \in P
  <2>1. f[n - 1] = g[n - 1] /\ n \in 0 .. N /\ n \in 1 .. N + 1
    BY <1>2, <1>6, <1>8
  <2>2. f[n] = f[n - 1] \o lists[n]
    BY <1>1, <1>3 DEF Chains
  <2>3. g[n] = g[n - 1] \o more[n]
    BY <1>2, <1>4, <2>1 DEF Chains
  <2> QED BY <1>2, <1>6, <2>1, <2>2, <2>3
<1>9. N \in P
  <2>1. \A n \in 0 .. N : n \in P
    BY <1>2, <1>7, <1>8, UpTo
  <2> QED BY <1>2, <2>1
<1>10. Chained(lists) = g[N] /\ Chained(lists) \in S
  <2>1. N \in 0 .. N
    BY <1>2
  <2> QED BY <1>1, <1>3, <1>6, <1>9, <2>1 DEF Chains
<1>11. Chained(more) = g[N + 1]
  BY <1>2, <1>4 DEF Chains
<1>12. g[N + 1] = g[N] \o more[N + 1]
  <2>1. N + 1 \in 1 .. Len(more) /\ (N + 1) - 1 = N
    BY <1>2
  <2> QED BY <1>4, <2>1 DEF Chains
<1>13. Chained(none) = <<>>
  BY <1>2, <1>5 DEF Chains
<1> QED BY <1>1, <1>2, <1>10, <1>11, <1>12, <1>13

\* What is in a set, of two lists.
LEMMA AmongBoth ==
  ASSUME NEW T, NEW s \in Seq(T), NEW t \in Seq(T), NEW A
  PROVE  Among(s \o t, A) = Among(s, A) \o Among(t, A)
<1>1. PICK a : a = Among(s, A) /\ a \in Seq(T)
  BY AmongType
<1>2. PICK P : P = {l \in Seq(T) : Among(s \o l, A) = a \o Among(l, A)}
  OBVIOUS
<1>3. Among(<<>>, A) = <<>>
  <2>1. PICK none : none = <<>>
    OBVIOUS
  <2>2. none \in Seq(T) /\ Len(none) = 0
    BY <2>1
  <2>3. PICK f \in [0 .. Len(none) -> Seq(T)] : Keeps(f, none, A)
    BY <2>2, KeepsExist
  <2> QED BY <2>1, <2>2, <2>3 DEF Keeps
<1>4. <<>> \in P
  <2>1. <<>> \in Seq(T) /\ s \o <<>> = s /\ a \o <<>> = a
    BY <1>1, JoinedMore
  <2> QED BY <1>1, <1>2, <1>3, <2>1
<1>5. ASSUME NEW l \in Seq(T), l \in P, NEW x \in T
      PROVE  Append(l, x) \in P
  <2>1. PICK b, k, m : b = Among(l, A) /\ k = s \o l /\ m = Append(l, x)
    OBVIOUS
  <2>2. b \in Seq(T) /\ k \in Seq(T) /\ m \in Seq(T)
    BY <2>1, AmongType
  <2>3. Among(k, A) = a \o b
    BY <1>2, <1>5, <2>1
  <2>4. s \o m = Append(k, x)
    BY <2>1, JoinedMore
  <2>5. Among(Append(k, x), A) = IF x \in A THEN Append(Among(k, A), x) ELSE Among(k, A)
    BY <2>2, AmongMore
  <2>6. Among(m, A) = IF x \in A THEN Append(b, x) ELSE b
    BY <2>1, AmongMore
  <2>7. a \o Append(b, x) = Append(a \o b, x)
    BY <1>1, <2>2, JoinedMore
  <2>8. Among(s \o m, A) = a \o Among(m, A)
    BY <2>3, <2>4, <2>5, <2>6, <2>7
  <2> QED BY <1>2, <2>1, <2>2, <2>8
<1>6. t \in P
  BY <1>4, <1>5, ListInduction
<1> QED BY <1>1, <1>2, <1>6

\* A list that comes of a thing, or is of nothing as the other.
Gives(T, g, k, l) == (k = <<>> /\ l = <<>>) \/ \E e \in T : k = <<e>> /\ l = g[e]

GiveAll(T, U, g, one, two) ==
  /\ one \in Seq(Seq(T)) /\ two \in Seq(Seq(U)) /\ Len(one) = Len(two)
  /\ \A x \in T : g[x] \in Seq(U)
  /\ \A n \in 1 .. Len(one) : Gives(T, g, one[n], two[n])

\* What comes of the things that are left of some is what comes of all, with those that are
\* left out giving nothing.
LEMMA ChainedEach ==
  ASSUME NEW T, NEW U, NEW g, NEW one, NEW two, GiveAll(T, U, g, one, two)
  PROVE  Chained(Each(g, Chained(one))) = Chained(two)
<1>1. PICK N \in Nat : /\ one \in Seq(Seq(T)) /\ two \in Seq(Seq(U))
                       /\ N = Len(one) /\ N = Len(two) /\ \A x \in T : g[x] \in Seq(U)
                       /\ \A n \in 1 .. N : Gives(T, g, one[n], two[n])
  BY DEF GiveAll
<1>2. PICK f \in [0 .. Len(one) -> Seq(T)] : Chains(f, one)
  BY <1>1, ChainsExist
<1>3. PICK h \in [0 .. Len(two) -> Seq(U)] : Chains(h, two)
  BY <1>1, ChainsExist
<1>4. PICK P : P = {n \in 0 .. N : Chained(Each(g, f[n])) = h[n]}
  OBVIOUS
<1>5. \A s \in Seq(T) : \A x \in T :
        /\ Chained(Each(g, <<>>)) = <<>>
        /\ Chained(Each(g, Append(s, x))) = Chained(Each(g, s)) \o g[x]
  <2> TAKE s \in Seq(T)
  <2> TAKE x \in T
  <2>1. PICK b, y : b = Each(g, s) /\ y = g[x]
    OBVIOUS
  <2>2. y \in Seq(U) /\ Each(g, Append(s, x)) = Append(b, y) /\ Each(g, <<>>) = <<>>
    BY <1>1, <2>1, EachMore
  <2>3. b \in Seq(Seq(U))
    BY <1>1, <2>1, EachType
  <2>4. Chained(<<>>) = <<>> /\ Chained(Append(b, y)) = Chained(b) \o y
    BY <2>2, <2>3, ChainedMore
  <2> QED BY <2>1, <2>2, <2>4
<1>6. Chained(Each(g, <<>>)) = <<>>
  <2>1. CASE T = {}
    <3>1. Each(g, <<>>) = <<>>
      <4>1. DOMAIN <<>> = {}
        OBVIOUS
      <4>2. Each(g, <<>>) = [n \in {} |-> g[<<>>[n]]]
        BY <4>1 DEF Each
      <4> QED BY <4>2
    <3>2. <<>> \in Seq(Seq(U)) /\ <<>> \in Seq(U)
      OBVIOUS
    <3>3. PICK none : none = <<>>
      OBVIOUS
    <3>4. none \in Seq(Seq(U)) /\ none \in Seq(U)
      BY <3>3
    <3>5. Chained(<<>>) = <<>>
      BY <3>4, ChainedMore
    <3> QED BY <3>1, <3>5
  <2>2. CASE T # {}
    <3>1. PICK x \in T : TRUE
      BY <2>2
    <3>2. <<>> \in Seq(T)
      OBVIOUS
    <3> QED BY <1>5, <3>1, <3>2
  <2> QED BY <2>1, <2>2
<1>7. 0 \in P
  <2>1. f[0] = <<>> /\ h[0] = <<>> /\ 0 \in 0 .. N
    BY <1>1, <1>2, <1>3 DEF Chains
  <2> QED BY <1>4, <1>6, <2>1
<1>8. ASSUME NEW n \in 1 .. N, n - 1 \in P
      PROVE  n \in P
  <2>1. PICK s, k, t, l : s = f[n - 1] /\ k = one[n] /\ t = h[n - 1] /\ l = two[n]
    OBVIOUS
  <2>2. n - 1 \in 0 .. N /\ n \in 0 .. N
    BY <1>1
  <2>3. s \in Seq(T) /\ t \in Seq(U) /\ Chained(Each(g, s)) = t
    <3>1. s \in Seq(T) /\ t \in Seq(U)
      BY <1>1, <1>2, <1>3, <2>1, <2>2
    <3> QED BY <1>4, <1>8, <2>1, <3>1
  <2>4. f[n] = s \o k /\ h[n] = t \o l
    BY <1>1, <1>2, <1>3, <2>1 DEF Chains
  <2>5. Gives(T, g, k, l)
    <3>1. Gives(T, g, one[n], two[n])
      BY <1>1
    <3> QED BY <2>1, <3>1, Zenon
  <2>6. CASE k = <<>> /\ l = <<>>
    <3>1. s \o <<>> = s /\ t \o <<>> = t
      BY <2>3
    <3> QED BY <1>4, <2>2, <2>3, <2>4, <2>6, <3>1
  <2>7. CASE \E e \in T : k = <<e>> /\ l = g[e]
    <3>1. PICK e \in T : k = <<e>> /\ l = g[e]
      BY <2>7
    <3>2. s \o <<e>> = Append(s, e)
      BY <2>3
    <3>3. Chained(Each(g, Append(s, e))) = Chained(Each(g, s)) \o g[e]
      BY <1>5, <2>3
    <3> QED BY <1>4, <2>2, <2>3, <2>4, <3>1, <3>2, <3>3
  <2> QED BY <2>5, <2>6, <2>7 DEF Gives
<1>9. N \in P
  <2>1. \A n \in 0 .. N : n \in P
    BY <1>1, <1>7, <1>8, UpTo
  <2> QED BY <1>1, <2>1
<1> QED BY <1>1, <1>2, <1>3, <1>4, <1>9 DEF Chains

-----------------------------------------------------------------------------
(* Lists of lists, and lists without repetition. *)

\* What is in the lists of a list.
LEMMA ChainedWhat ==
  ASSUME NEW T, NEW lists \in Seq(Seq(T))
  PROVE  /\ Chained(lists) \in Seq(T)
         /\ ToSet(Chained(lists)) = UNION {ToSet(l) : l \in ToSet(lists)}
<1>1. PICK P : P = {k \in Seq(Seq(T)) : ToSet(Chained(k)) = UNION {ToSet(l) : l \in ToSet(k)}}
  OBVIOUS
<1>2. <<>> \in P
  <2>1. PICK none : none = <<>>
    OBVIOUS
  <2>2. none \in Seq(Seq(T)) /\ none \in Seq(T) /\ ToSet(none) = {}
    BY <2>1 DEF ToSet
  <2>3. Chained(none) = none
    BY <2>1, <2>2, ChainedMore
  <2> QED BY <1>1, <2>1, <2>2, <2>3
<1>3. ASSUME NEW k \in Seq(Seq(T)), k \in P, NEW x \in Seq(T)
      PROVE  Append(k, x) \in P
  <2>1. PICK m, c : m = Append(k, x) /\ c = Chained(k)
    OBVIOUS
  <2>2. m \in Seq(Seq(T)) /\ ToSet(m) = ToSet(k) \cup {x}
    BY <2>1, OneMore
  <2>3. c \in Seq(T) /\ Chained(m) = c \o x
    BY <2>1, ChainedMore
  <2>4. ToSet(c \o x) = ToSet(c) \cup ToSet(x)
    BY <2>3, Joined
  <2>5. ToSet(c) = UNION {ToSet(l) : l \in ToSet(k)}
    BY <1>1, <1>3, <2>1
  <2>6. UNION {ToSet(l) : l \in ToSet(m)} = (UNION {ToSet(l) : l \in ToSet(k)}) \cup ToSet(x)
    BY <2>2
  <2> QED BY <1>1, <2>1, <2>2, <2>3, <2>4, <2>5, <2>6
<1>4. lists \in P
  BY <1>2, <1>3, ListInduction
<1> QED BY <1>1, <1>4, ChainedMore

\* Nothing is in the list twice.
NoneTwice(s) == \A i, j \in 1 .. Len(s) : s[i] = s[j] => i = j

LEMMA DistinctNone == NoneTwice(<<>>)
BY DEF NoneTwice

LEMMA DistinctMore ==
  ASSUME NEW T, NEW s \in Seq(T), NEW x \in T
  PROVE  NoneTwice(Append(s, x)) <=> NoneTwice(s) /\ x \notin ToSet(s)
<1>1. PICK t, N : t = Append(s, x) /\ N = Len(s)
  OBVIOUS
<1>2. /\ N \in Nat /\ Len(t) = N + 1 /\ t[N + 1] = x /\ \A k \in 1 .. N : t[k] = s[k]
      /\ DOMAIN s = 1 .. N
  BY <1>1, OneMore
<1>3. ASSUME NoneTwice(t)
      PROVE  NoneTwice(s) /\ x \notin ToSet(s)
  <2>1. \A i, j \in 1 .. N + 1 : t[i] = t[j] => i = j
    BY <1>2, <1>3 DEF NoneTwice
  <2>2. NoneTwice(s)
    <3> SUFFICES ASSUME NEW i \in 1 .. N, NEW j \in 1 .. N, s[i] = s[j] PROVE i = j
      BY <1>1 DEF NoneTwice
    <3>1. i \in 1 .. N + 1 /\ j \in 1 .. N + 1 /\ t[i] = t[j]
      BY <1>2
    <3> QED BY <2>1, <3>1
  <2>3. x \notin ToSet(s)
    <3> SUFFICES ASSUME NEW i \in 1 .. N, s[i] = x PROVE FALSE
      BY <1>2 DEF ToSet
    <3>1. i \in 1 .. N + 1 /\ N + 1 \in 1 .. N + 1 /\ t[i] = t[N + 1] /\ i # N + 1
      BY <1>2
    <3> QED BY <2>1, <3>1
  <2> QED BY <2>2, <2>3
<1>4. ASSUME NoneTwice(s), x \notin ToSet(s)
      PROVE  NoneTwice(t)
  <2>1. \A i \in 1 .. N : s[i] # x
    BY <1>2, <1>4 DEF ToSet
  <2> SUFFICES ASSUME NEW i \in 1 .. N + 1, NEW j \in 1 .. N + 1, t[i] = t[j] PROVE i = j
    BY <1>2 DEF NoneTwice
  <2>2. (i \in 1 .. N \/ i = N + 1) /\ (j \in 1 .. N \/ j = N + 1)
    BY <1>2
  <2>3. CASE i \in 1 .. N /\ j \in 1 .. N
    <3>1. s[i] = s[j]
      BY <1>2, <2>3
    <3> QED BY <1>1, <1>4, <2>3, <3>1 DEF NoneTwice
  <2> QED BY <1>2, <2>1, <2>2, <2>3
<1> QED BY <1>1, <1>3, <1>4

\* A part of a list without repetition has none.
LEMMA DistinctAmong ==
  ASSUME NEW T, NEW list \in Seq(T), NoneTwice(list), NEW A
  PROVE  NoneTwice(Among(list, A))
<1>1. PICK P : P = {k \in Seq(T) : NoneTwice(k) => NoneTwice(Among(k, A))}
  OBVIOUS
<1>2. <<>> \in P
  <2>1. PICK none : none = <<>>
    OBVIOUS
  <2>2. none \in Seq(T) /\ ToSet(none) \subseteq A
    BY <2>1 DEF ToSet
  <2>3. Among(none, A) = none
    BY <2>2, AmongAll
  <2> QED BY <1>1, <2>1, <2>2, <2>3
<1>3. ASSUME NEW k \in Seq(T), k \in P, NEW x \in T
      PROVE  Append(k, x) \in P
  <2>1. PICK m, a : m = Append(k, x) /\ a = Among(k, A)
    OBVIOUS
  <2>2. m \in Seq(T) /\ a \in Seq(T)
    BY <2>1, OneMore, AmongType
  <2>3. Among(m, A) = IF x \in A THEN Append(a, x) ELSE a
    BY <2>1, AmongMore
  <2>4. ASSUME NoneTwice(m) PROVE NoneTwice(Among(m, A))
    <3>1. NoneTwice(k) /\ x \notin ToSet(k)
      BY <2>1, <2>4, DistinctMore
    <3>2. NoneTwice(a)
      BY <1>1, <1>3, <2>1, <3>1
    <3>3. ToSet(a) \subseteq ToSet(k)
      BY <2>1, AmongWhat
    <3>4. NoneTwice(Append(a, x))
      BY <2>2, <3>1, <3>2, <3>3, DistinctMore
    <3> QED BY <2>3, <3>2, <3>4
  <2> QED BY <1>1, <2>1, <2>2, <2>4
<1>4. list \in P
  BY <1>2, <1>3, ListInduction
<1> QED BY <1>1, <1>4

\* Nor have two such lists that share nothing, one after the other.
LEMMA DistinctBoth ==
  ASSUME NEW T, NEW s \in Seq(T), NoneTwice(s), NEW t \in Seq(T), NoneTwice(t),
         ToSet(s) \cap ToSet(t) = {}
  PROVE  NoneTwice(s \o t)
<1>1. PICK P : P = {k \in Seq(T) : NoneTwice(k) /\ ToSet(s) \cap ToSet(k) = {} => NoneTwice(s \o k)}
  OBVIOUS
<1>2. <<>> \in P
  <2>1. <<>> \in Seq(T) /\ s \o <<>> = s
    OBVIOUS
  <2> QED BY <1>1, <2>1
<1>3. ASSUME NEW k \in Seq(T), k \in P, NEW x \in T
      PROVE  Append(k, x) \in P
  <2>1. PICK m, b : m = Append(k, x) /\ b = s \o k
    OBVIOUS
  <2>2. m \in Seq(T) /\ ToSet(m) = ToSet(k) \cup {x}
    BY <2>1, OneMore
  <2>3. b \in Seq(T) /\ ToSet(b) = ToSet(s) \cup ToSet(k)
    BY <2>1, Joined
  <2>4. s \o m = Append(b, x)
    BY <2>1, JoinedMore
  <2>5. ASSUME NoneTwice(m), ToSet(s) \cap ToSet(m) = {} PROVE NoneTwice(Append(b, x))
    <3>1. NoneTwice(k) /\ x \notin ToSet(k)
      BY <2>1, <2>5, DistinctMore
    <3>2. ToSet(s) \cap ToSet(k) = {} /\ x \notin ToSet(s)
      BY <2>2, <2>5
    <3>3. NoneTwice(b)
      BY <1>1, <1>3, <2>1, <3>1, <3>2
    <3> QED BY <2>3, <3>1, <3>2, <3>3, DistinctMore
  <2> QED BY <1>1, <2>1, <2>2, <2>4, <2>5
<1>4. t \in P
  BY <1>2, <1>3, ListInduction
<1> QED BY <1>1, <1>4

\* A list without repetition is as long as there are things in it.
LEMMA DistinctLength ==
  ASSUME NEW T, NEW s \in Seq(T), NoneTwice(s)
  PROVE  IsFiniteSet(ToSet(s)) /\ Cardinality(ToSet(s)) = Len(s)
<1>1. PICK P : P = {k \in Seq(T) : NoneTwice(k) =>
                     IsFiniteSet(ToSet(k)) /\ Cardinality(ToSet(k)) = Len(k)}
  OBVIOUS
<1>2. <<>> \in P
  <2>1. PICK none : none = <<>>
    OBVIOUS
  <2>2. none \in Seq(T) /\ ToSet(none) = {} /\ Len(none) = 0
    BY <2>1 DEF ToSet
  <2> QED BY <1>1, <2>1, <2>2, FS_EmptySet
<1>3. ASSUME NEW k \in Seq(T), k \in P, NEW x \in T
      PROVE  Append(k, x) \in P
  <2>1. PICK m : m = Append(k, x)
    OBVIOUS
  <2>2. m \in Seq(T) /\ ToSet(m) = ToSet(k) \cup {x} /\ Len(m) = Len(k) + 1
    BY <2>1, OneMore
  <2>3. ASSUME NoneTwice(m) PROVE IsFiniteSet(ToSet(m)) /\ Cardinality(ToSet(m)) = Len(m)
    <3>1. NoneTwice(k) /\ x \notin ToSet(k)
      BY <2>1, <2>3, DistinctMore
    <3>2. IsFiniteSet(ToSet(k)) /\ Cardinality(ToSet(k)) = Len(k)
      BY <1>1, <1>3, <3>1
    <3>3. /\ IsFiniteSet(ToSet(k) \cup {x})
          /\ Cardinality(ToSet(k) \cup {x}) = Cardinality(ToSet(k)) + 1
      BY <3>1, <3>2, FS_AddElement
    <3> QED BY <2>2, <3>2, <3>3
  <2> QED BY <1>1, <2>1, <2>2, <2>3
<1>4. s \in P
  BY <1>2, <1>3, ListInduction
<1> QED BY <1>1, <1>4

\* A list that is not empty, and what is left without its last.
LEMMA FrontWhat ==
  ASSUME NEW T, NEW s \in Seq(T), s # <<>>
  PROVE  /\ Len(s) \in Nat \ {0} /\ s[Len(s)] \in ToSet(s)
         /\ Front(s) \in Seq(T) /\ Len(Front(s)) = Len(s) - 1
         /\ \A k \in 1 .. Len(s) - 1 : Front(s)[k] = s[k]
         /\ ToSet(s) = ToSet(Front(s)) \cup {s[Len(s)]}
         /\ NoneTwice(s) => NoneTwice(Front(s)) /\ s[Len(s)] \notin ToSet(Front(s))
<1>1. PICK N, f : N = Len(s) /\ f = Front(s)
  OBVIOUS
<1>2. N \in Nat \ {0} /\ DOMAIN s = 1 .. N
  BY <1>1
<1>3. f \in Seq(T) /\ Len(f) = N - 1 /\ \A k \in 1 .. N - 1 : f[k] = s[k]
  <2>1. f = SubSeq(s, 1, N - 1)
    BY <1>1 DEF Front
  <2> QED BY <1>1, <1>2, <2>1
<1>4. s[N] \in ToSet(s) /\ ToSet(s) = {s[k] : k \in 1 .. N}
  BY <1>2 DEF ToSet
<1>5. ToSet(f) = {s[k] : k \in 1 .. N - 1}
  <2>1. DOMAIN f = 1 .. N - 1
    BY <1>2, <1>3
  <2> QED BY <1>3, <2>1 DEF ToSet
<1>6. ToSet(s) = ToSet(f) \cup {s[N]}
  <2>1. 1 .. N = (1 .. N - 1) \cup {N}
    BY <1>2
  <2> QED BY <1>4, <1>5, <2>1
<1>7. ASSUME NoneTwice(s)
      PROVE  NoneTwice(f) /\ s[N] \notin ToSet(f)
  <2>1. \A i, j \in 1 .. N : s[i] = s[j] => i = j
    BY <1>1, <1>7 DEF NoneTwice
  <2>2. NoneTwice(f)
    BY <1>2, <1>3, <2>1 DEF NoneTwice
  <2>3. s[N] \notin ToSet(f)
    BY <1>2, <1>5, <2>1
  <2> QED BY <2>2, <2>3
<1> QED BY <1>1, <1>2, <1>3, <1>4, <1>6, <1>7

\* A list with one changed.
LEMMA OneChanged ==
  ASSUME NEW T, NEW s \in Seq(T), NEW n \in DOMAIN s, NEW x \in T
  PROVE  [s EXCEPT ![n] = x] \in Seq(T)
<1>1. PICK N : N = Len(s) /\ N \in Nat /\ s \in [1 .. N -> T]
  OBVIOUS
<1>2. [s EXCEPT ![n] = x] \in [1 .. N -> T]
  BY <1>1
<1> QED BY <1>1, <1>2
=============================================================================
