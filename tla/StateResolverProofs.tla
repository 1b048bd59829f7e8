------------------------ MODULE StateResolverProofs ------------------------
(***************************************************************************)
(* What holds of the code an alert is given and of the worst of several,   *)
(* for every state map and every list of codes; before it, what is needed  *)
(* of scans, which go through a sequence from its first element to its     *)
(* last.                                                                   *)
(***************************************************************************)
EXTENDS StateResolver, SequenceTheorems, WellFoundedInduction, TLAPS

-----------------------------------------------------------------------------
(* Recursion over the positions of a sequence.  The induction theorems of   *)
(* the library have a predicate for a parameter; these have a set or a      *)
(* function, so that they can be cited with one.                            *)

Less == OpToRel(<, Nat)

\* A set of natural numbers that is not empty has a least element.
LEMMA LeastNumber ==
    ASSUME NEW T, T \subseteq Nat, T # {}
    PROVE  \E i \in T : \A j \in T : i <= j
<1>1. IsWellFoundedOn(Less, Nat)
  BY NatLessThanWellFounded DEF Less
<1>2. PICK i \in T : \A j \in T : ~ (<<j, i>> \in Less)
  BY <1>1, WFMin
<1>3. \A j \in T : ~ (j < i)
  BY <1>2 DEF Less, OpToRel
<1>4. \A j \in T : i <= j
  BY <1>3
<1> QED BY <1>4

\* Induction over the positions up to N: T is the set of those with a property.
LEMMA PositionInduction ==
    ASSUME NEW N \in Nat, NEW T, 0 \in T, \A n \in 1 .. N : n - 1 \in T => n \in T
    PROVE  \A n \in 0 .. N : n \in T
<1> DEFINE missed == {n \in 0 .. N : n \notin T}
<1> SUFFICES ASSUME missed # {} PROVE FALSE
  OBVIOUS
<1>1. missed \subseteq Nat
  OBVIOUS
<1> HIDE DEF missed
<1>2. PICK i \in missed : \A j \in missed : i <= j
  BY <1>1, LeastNumber
<1> USE DEF missed
<1>3. i \in 1 .. N
  OBVIOUS
<1>4. i - 1 \in 0 .. N /\ ~ (i <= i - 1)
  BY <1>3
<1>5. i - 1 \in T
  BY <1>2, <1>4
<1> QED BY <1>3, <1>5

\* f has the value a at 0, and every later value of f is a step g of the one
\* before.
Computes(f, N, S, a, g) == /\ f \in [0 .. N -> S]
                           /\ f[0] = a
                           /\ \A n \in 1 .. N : f[n] = g[n][f[n - 1]]

\* A function on the positions up to N, given by its first value and by a step
\* that makes each value of the one before, exists.
LEMMA RecursiveFunction ==
    ASSUME NEW N \in Nat, NEW S, NEW a \in S, NEW g \in [1 .. N -> [S -> S]]
    PROVE  \E f : Computes(f, N, S, a, g)
<1> DEFINE solves(f, k) == /\ f \in [0 .. k -> S]
                           /\ f[0] = a
                           /\ \A n \in 1 .. k : f[n] = g[n][f[n - 1]]
           T == {k \in 0 .. N : \E f : solves(f, k)}
<1>1. 0 \in T
  <2>1. solves([n \in 0 .. 0 |-> a], 0)
    OBVIOUS
  <2>2. 0 \in 0 .. N
    OBVIOUS
  <2> HIDE DEF solves
  <2> QED BY <2>1, <2>2
<1>2. ASSUME NEW k \in 1 .. N, k - 1 \in T PROVE k \in T
  <2>1. PICK f : solves(f, k - 1)
    BY <1>2
  <2> DEFINE h == [n \in 0 .. k |-> IF n = k THEN g[k][f[k - 1]] ELSE f[n]]
  <2>2. f[k - 1] \in S
    BY <2>1
  <2>3. g[k][f[k - 1]] \in S
    BY <2>2
  <2>4. h \in [0 .. k -> S]
    <3>1. ASSUME NEW n \in 0 .. k PROVE (IF n = k THEN g[k][f[k - 1]] ELSE f[n]) \in S
      <4>1. CASE n = k
        BY <2>3, <4>1
      <4>2. CASE n # k
        <5>1. n \in 0 .. k - 1
          BY <4>2
        <5> QED BY <2>1, <4>2, <5>1
      <4> QED BY <4>1, <4>2
    <3> QED BY <3>1
  <2>5. h[0] = a
    BY <2>1
  <2>6. ASSUME NEW n \in 1 .. k PROVE h[n] = g[n][h[n - 1]]
    <3>1. n - 1 \in 0 .. k /\ n - 1 # k
      OBVIOUS
    <3>2. h[n - 1] = f[n - 1]
      BY <3>1
    <3>3. CASE n = k
      BY <3>2, <3>3
    <3>4. CASE n # k
      <4>1. n \in 1 .. k - 1
        BY <3>4
      <4>2. f[n] = g[n][f[n - 1]]
        BY <2>1, <4>1
      <4> QED BY <3>2, <3>4, <4>2
    <3> QED BY <3>3, <3>4
  <2>7. solves(h, k)
    BY <2>4, <2>5, <2>6
  <2>8. k \in 0 .. N
    OBVIOUS
  <2> HIDE DEF solves, h
  <2> QED BY <2>7, <2>8
<1> HIDE DEF T
<1>3. N \in T
  <2>1. N \in 0 .. N
    OBVIOUS
  <2> QED BY <1>1, <1>2, <2>1, PositionInduction
<1> QED BY <1>3 DEF T, Computes

-----------------------------------------------------------------------------
(* One state map.                                                          *)

\* A validated map names a state of the vocabulary for every alert.
LEMMA ValidatedNames ==
    ASSUME NEW t \in CheckTypes, NEW w, validateStateMap(t, w),
           NEW resolved \in BOOLEAN, NEW s
    PROVE  stateName(w, resolved, s) \in DOMAIN States[t]
  BY DEF validateStateMap, stateName

\* The code of a name of the vocabulary is one the check type can hold.
LEMMA LookupInCodes ==
    ASSUME NEW t \in CheckTypes, NEW n \in DOMAIN States[t]
    PROVE  lookup(t, n) \in Codes(t)
<1>1. CASE t = "service"
  <2>1. DOMAIN States[t] = {"ok", "warning", "critical", "unknown"}
    BY <1>1 DEF States
  <2>2. /\ States[t]["ok"] = 0 /\ States[t]["warning"] = 1
        /\ States[t]["critical"] = 2 /\ States[t]["unknown"] = 3
    BY <1>1 DEF States
  <2>3. Codes(t) = 0 .. 3
    BY <1>1 DEF Codes
  <2>4. lookup(t, n) = States[t][n]
    BY DEF lookup
  <2>5. States[t][n] \in {0, 1, 2, 3}
    BY <2>1, <2>2
  <2> QED BY <2>3, <2>4, <2>5, SMT
<1>2. CASE t = "host"
  <2>1. DOMAIN States[t] = {"up", "down", "unreachable"}
    BY <1>2 DEF States
  <2>2. /\ States[t]["up"] = 0 /\ States[t]["down"] = 1
        /\ States[t]["unreachable"] = 2
    BY <1>2 DEF States
  <2>3. Codes(t) = 0 .. 2
    BY <1>2 DEF Codes
  <2>4. lookup(t, n) = States[t][n]
    BY DEF lookup
  <2>5. States[t][n] \in {0, 1, 2}
    BY <2>1, <2>2
  <2> QED BY <2>3, <2>4, <2>5, SMT
<1> QED BY <1>1, <1>2 DEF CheckTypes

\* So is the code a validated map gives an alert, whatever its severity.
LEMMA ScoreInCodes ==
    ASSUME NEW t \in CheckTypes, NEW w, validateStateMap(t, w),
           NEW resolved \in BOOLEAN, NEW s
    PROVE  state(t, w, resolved, s) \in Codes(t)
  BY ValidatedNames, LookupInCodes DEF state

\* Defaulting keeps a state map a state map.
LEMMA DefaultsType ==
    ASSUME NEW t \in CheckTypes, NEW w \in StateMaps
    PROVE  applyDefaults(t, w) \in StateMaps
<1>1. "" \in Names /\ \A u \in CheckTypes : DOMAIN States[u] \subseteq Names
  BY NamesAssumption
<1>2. /\ {"ok", "warning", "critical", "unknown"} \subseteq Names
      /\ {"up", "down"} \subseteq Names
  <2>1. DOMAIN States["service"] = {"ok", "warning", "critical", "unknown"}
    BY DEF States
  <2>2. DOMAIN States["host"] = {"up", "down", "unreachable"}
    BY DEF States
  <2> QED BY <1>1, <2>1, <2>2 DEF CheckTypes
<1>3. Keys \cap {"ok", "warning", "critical", "unknown"} \in SUBSET Keys
  OBVIOUS
<1>4. defaultValues(t)
         \in [Keys \cap {"ok", "warning", "critical", "unknown"} -> Names]
  BY <1>2, Zenon DEF defaultValues
<1>5. defaultValues(t) \in UNION {[K -> Names] : K \in SUBSET Keys}
  BY <1>3, <1>4, Zenon
<1>6. /\ w.Values \in UNION {[K -> Names] : K \in SUBSET Keys}
      /\ w.Unmatched \in Names /\ w.Resolved \in Names
  BY DEF StateMaps
<1> QED BY <1>2, <1>5, <1>6, Zenon DEF applyDefaults, StateMaps

-----------------------------------------------------------------------------
(* Worst: what the loop over the codes of an alert computes.               *)

\* Codes have severities, and no two codes of a check type have the same.
LEMMA SeverityOrder ==
    ASSUME NEW t \in CheckTypes
    PROVE  /\ Codes(t) \subseteq Int
           /\ \A c \in Codes(t) : c \in DOMAIN severity[t] /\ severity[t][c] \in Nat
           /\ \A c, d \in Codes(t) : severity[t][c] = severity[t][d] => c = d
<1>1. CASE t = "service"
  <2>1. Codes(t) = 0 .. 3
    BY <1>1 DEF Codes
  <2>2. severity[t] = [c \in 0 .. 3 |-> CASE c = 0 -> 0 [] c = 1 -> 1
                                          [] c = 2 -> 3 [] c = 3 -> 2]
    BY <1>1 DEF severity
  <2>3. /\ DOMAIN severity[t] = 0 .. 3
        /\ severity[t][0] = 0 /\ severity[t][1] = 1
        /\ severity[t][2] = 3 /\ severity[t][3] = 2
    BY <2>2
  <2>4. \A c \in 0 .. 3 : c = 0 \/ c = 1 \/ c = 2 \/ c = 3
    OBVIOUS
  <2> QED BY <2>1, <2>3, <2>4
<1>2. CASE t = "host"
  <2>1. Codes(t) = 0 .. 2
    BY <1>2 DEF Codes
  <2>2. severity[t] = [c \in 0 .. 2 |-> CASE c = 0 -> 0 [] c = 1 -> 2 [] c = 2 -> 1]
    BY <1>2 DEF severity
  <2>3. /\ DOMAIN severity[t] = 0 .. 2
        /\ severity[t][0] = 0 /\ severity[t][1] = 2 /\ severity[t][2] = 1
    BY <2>2
  <2>4. \A c \in 0 .. 2 : c = 0 \/ c = 1 \/ c = 2
    OBVIOUS
  <2> QED BY <2>1, <2>3, <2>4
<1> QED BY <1>1, <1>2 DEF CheckTypes

\* What the loop can have found.
Found(t) == [worst : Codes(t) \cup {0}, rank : Int, foreign : {FALSE}]

\* A round keeps what has been found or takes the code, if that is more severe.
LEMMA Round ==
    ASSUME NEW t \in CheckTypes, NEW x \in Found(t), NEW c \in Codes(t)
    PROVE  /\ keepWorse(t, x, c) \in Found(t)
           /\ severity[t][c] <= x.rank => keepWorse(t, x, c) = x
           /\ severity[t][c] > x.rank => /\ keepWorse(t, x, c).worst = c
                                         /\ keepWorse(t, x, c).rank = severity[t][c]
<1>1. c \in DOMAIN severity[t] /\ severity[t][c] \in Nat
  BY SeverityOrder
<1>2. x.foreign = FALSE /\ x.rank \in Int /\ x.worst \in Codes(t) \cup {0}
  BY DEF Found
<1>3. keepWorse(t, x, c) = IF severity[t][c] > x.rank
                           THEN [x EXCEPT !.worst = c, !.rank = severity[t][c]]
                           ELSE x
  BY <1>1, <1>2 DEF keepWorse
<1>4. CASE severity[t][c] > x.rank
  <2>1. keepWorse(t, x, c) = [x EXCEPT !.worst = c, !.rank = severity[t][c]]
    BY <1>3, <1>4
  <2> DEFINE k == severity[t][c]
  <2>2. k \in Int
    BY <1>1
  <2> HIDE DEF k
  <2>3. keepWorse(t, x, c) = [x EXCEPT !.worst = c, !.rank = k]
    BY <2>1 DEF k
  <2>4. x = [worst |-> x.worst, rank |-> x.rank, foreign |-> x.foreign]
    BY DEF Found
  <2>5. keepWorse(t, x, c) = [worst |-> c, rank |-> k, foreign |-> FALSE]
    BY <1>2, <2>3, <2>4
  <2>6. keepWorse(t, x, c) \in Found(t)
    BY <2>2, <2>5 DEF Found
  <2>7. keepWorse(t, x, c).worst = c /\ keepWorse(t, x, c).rank = severity[t][c]
    BY <2>5 DEF k
  <2> QED BY <1>1, <1>2, <1>4, <2>6, <2>7
<1>5. CASE ~ (severity[t][c] > x.rank)
  BY <1>1, <1>2, <1>3, <1>5
<1> QED BY <1>4, <1>5

\* After n codes the loop has found the first of them that is as severe as any.
foundAmong(t, list, x, n) ==
    /\ x \in Found(t)
    /\ n = 0 => x = nothing
    /\ n # 0 => /\ \E i \in 1 .. n : x.worst = list[i] /\ x.rank = severity[t][list[i]]
                /\ \A i \in 1 .. n : severity[t][list[i]] <= x.rank

LEMMA RoundAmong ==
    ASSUME NEW t \in CheckTypes, NEW list, NEW n \in Nat \ {0}, NEW x,
           \A i \in 1 .. n : list[i] \in Codes(t),
           foundAmong(t, list, x, n - 1)
    PROVE  foundAmong(t, list, keepWorse(t, x, list[n]), n)
<1> DEFINE c == list[n]
           y == keepWorse(t, x, c)
<1>1. x \in Found(t) /\ c \in Codes(t)
  BY DEF foundAmong
<1>2. /\ y \in Found(t)
      /\ severity[t][c] <= x.rank => y = x
      /\ severity[t][c] > x.rank => y.worst = c /\ y.rank = severity[t][c]
  BY <1>1, Round
<1>3. /\ \A i \in 1 .. n : severity[t][list[i]] \in Nat
      /\ severity[t][c] \in Nat /\ x.rank \in Int
  BY <1>1, SeverityOrder DEF Found
<1> HIDE DEF y
<1>4. \A i \in 1 .. n : i \in 1 .. n - 1 \/ i = n
  OBVIOUS
<1>5. n \in 1 .. n /\ \A i \in 1 .. n - 1 : i \in 1 .. n
  OBVIOUS
<1>6. CASE n = 1
  <2>1. x.rank = -1
    BY <1>6 DEF foundAmong, nothing
  <2>2. y.worst = c /\ y.rank = severity[t][c]
    BY <1>2, <1>3, <2>1
  <2>3. \A i \in 1 .. n : i = n
    BY <1>6
  <2>4. /\ \E i \in 1 .. n : y.worst = list[i] /\ y.rank = severity[t][list[i]]
        /\ \A i \in 1 .. n : severity[t][list[i]] <= y.rank
    BY <1>3, <1>5, <2>2, <2>3
  <2> QED BY <1>2, <2>4 DEF foundAmong, y
<1>7. CASE n # 1
  <2>1. /\ \E i \in 1 .. n - 1 : x.worst = list[i] /\ x.rank = severity[t][list[i]]
        /\ \A i \in 1 .. n - 1 : severity[t][list[i]] <= x.rank
    BY <1>7 DEF foundAmong
  <2>2. CASE severity[t][c] <= x.rank
    <3>1. y = x
      BY <1>2, <2>2
    <3>2. \E i \in 1 .. n : y.worst = list[i] /\ y.rank = severity[t][list[i]]
      BY <1>5, <2>1, <3>1
    <3>3. \A i \in 1 .. n : severity[t][list[i]] <= y.rank
      BY <1>4, <2>1, <2>2, <3>1
    <3> QED BY <1>2, <3>2, <3>3 DEF foundAmong, y
  <2>3. CASE severity[t][c] > x.rank
    <3>1. y.worst = c /\ y.rank = severity[t][c]
      BY <1>2, <2>3
    <3>2. \E i \in 1 .. n : y.worst = list[i] /\ y.rank = severity[t][list[i]]
      BY <1>5, <3>1
    <3>3. ASSUME NEW i \in 1 .. n PROVE severity[t][list[i]] <= y.rank
      <4>1. CASE i = n
        BY <1>3, <3>1, <4>1
      <4>2. CASE i \in 1 .. n - 1
        <5>1. severity[t][list[i]] <= x.rank
          BY <2>1, <4>2
        <5>2. severity[t][list[i]] \in Nat
          BY <1>3
        <5> QED BY <1>3, <2>3, <3>1, <5>1, <5>2
      <4> QED BY <1>4, <4>1, <4>2
    <3> QED BY <1>2, <3>2, <3>3 DEF foundAmong, y
  <2> QED BY <1>3, <2>2, <2>3
<1> QED BY <1>6, <1>7

\* What Worst returns for any list of codes the check type can hold: 0 for none,
\* or else one of them, and none of them is more severe.
LEMMA WorstScans ==
    ASSUME NEW t \in CheckTypes, NEW list \in Seq(Codes(t))
    PROVE  \E x : /\ Worst(t, list) = x.worst
                  /\ foundAmong(t, list, x, Len(list))
<1> DEFINE N == Len(list)
           S == Found(t)
           g == [n \in 1 .. N |-> [x \in S |-> keepWorse(t, x, list[n])]]
           scan[n \in 0 .. N] ==
              IF n = 0 THEN nothing ELSE keepWorse(t, scan[n - 1], list[n])
<1>1. N \in Nat /\ \A n \in 1 .. N : list[n] \in Codes(t)
  BY LenProperties, ElementOfSeq
<1>2. nothing \in S
  BY DEF nothing, Found
<1>3. \A n \in 1 .. N : \A x \in S : keepWorse(t, x, list[n]) \in S
  BY <1>1, Round
<1> HIDE DEF N, S
<1>4. g \in [1 .. N -> [S -> S]]
  <2>1. \A n \in 1 .. N : [x \in S |-> keepWorse(t, x, list[n])] \in [S -> S]
    BY <1>3
  <2> QED BY <2>1
<1> HIDE DEF g
<1>5. PICK f : Computes(f, N, S, nothing, g)
  BY <1>1, <1>2, <1>4, RecursiveFunction
<1>6. f = [n \in 0 .. N |-> IF n = 0 THEN nothing
                            ELSE keepWorse(t, f[n - 1], list[n])]
  <2>1. f = [n \in 0 .. N |-> f[n]]
    BY <1>5 DEF Computes
  <2>2. ASSUME NEW n \in 0 .. N
        PROVE  f[n] = IF n = 0 THEN nothing ELSE keepWorse(t, f[n - 1], list[n])
    <3>1. CASE n = 0
      BY <1>5, <3>1 DEF Computes
    <3>2. CASE n # 0
      <4>1. n \in 1 .. N /\ n - 1 \in 0 .. N
        BY <1>1, <3>2
      <4>2. f[n] = g[n][f[n - 1]] /\ f[n - 1] \in S
        BY <1>5, <4>1 DEF Computes
      <4>3. g[n] = [x \in S |-> keepWorse(t, x, list[n])]
        BY <4>1 DEF g
      <4> QED BY <3>2, <4>2, <4>3
    <3> QED BY <3>1, <3>2
  <2> QED BY <2>1, <2>2
<1>7. scan = [n \in 0 .. N |-> IF n = 0 THEN nothing
                               ELSE keepWorse(t, scan[n - 1], list[n])]
  BY <1>6
<1>8. Worst(t, list) = scan[N].worst
  BY DEF Worst, N
<1> HIDE DEF scan
<1> DEFINE right == {n \in 0 .. N : foundAmong(t, list, scan[n], n)}
<1>9. 0 \in right
  <2>1. 0 \in 0 .. N
    BY <1>1
  <2>2. scan[0] = nothing
    BY <1>7, <2>1
  <2> QED BY <1>2, <2>1, <2>2 DEF foundAmong, S
<1>10. ASSUME NEW n \in 1 .. N, n - 1 \in right PROVE n \in right
  <2>1. n \in Nat \ {0} /\ n \in 0 .. N /\ n # 0 /\ \A i \in 1 .. n : i \in 1 .. N
    BY <1>1
  <2>2. scan[n] = keepWorse(t, scan[n - 1], list[n])
    BY <1>7, <2>1
  <2>3. \A i \in 1 .. n : list[i] \in Codes(t)
    BY <1>1, <2>1
  <2>4. foundAmong(t, list, scan[n - 1], n - 1)
    BY <1>10
  <2>5. foundAmong(t, list, scan[n], n)
    BY <2>1, <2>2, <2>3, <2>4, RoundAmong
  <2> QED BY <2>1, <2>5
<1> HIDE DEF right
<1>11. N \in right
  <2>1. N \in 0 .. N
    BY <1>1
  <2> QED BY <1>1, <1>9, <1>10, <2>1, PositionInduction
<1>12. foundAmong(t, list, scan[N], N)
  BY <1>11 DEF right
<1> QED BY <1>8, <1>12 DEF N

\* Worst is WorstOf for every list of codes, in whatever order they come.
LEMMA WorstIsWorstOf ==
    ASSUME NEW t \in CheckTypes, NEW list \in Seq(Codes(t))
    PROVE  Worst(t, list) = WorstOf(t, {list[n] : n \in 1 .. Len(list)})
<1> DEFINE N == Len(list)
           S == {list[n] : n \in 1 .. N}
<1>1. N \in Nat /\ \A n \in 1 .. N : list[n] \in Codes(t)
  BY LenProperties, ElementOfSeq
<1>2. PICK x : Worst(t, list) = x.worst /\ foundAmong(t, list, x, N)
  BY WorstScans
<1> HIDE DEF N
<1>3. CASE N = 0
  <2>1. x.worst = 0
    BY <1>2, <1>3 DEF foundAmong, nothing
  <2>2. S = {}
    BY <1>3
  <2> QED BY <1>2, <2>1, <2>2 DEF WorstOf, N
<1>4. CASE N # 0
  <2>1. PICK i \in 1 .. N : x.worst = list[i] /\ x.rank = severity[t][list[i]]
    BY <1>2, <1>4 DEF foundAmong
  <2>2. \A n \in 1 .. N : severity[t][list[n]] <= severity[t][x.worst]
    BY <1>2, <1>4, <2>1 DEF foundAmong
  <2>3. x.worst \in S /\ \A d \in S : severity[t][d] <= severity[t][x.worst]
    BY <2>1, <2>2
  <2>4. S # {} /\ S \subseteq Codes(t)
    BY <1>1, <2>3
  <2> DEFINE w == CHOOSE c \in S : \A d \in S : severity[t][d] <= severity[t][c]
  <2>5. w \in S /\ \A d \in S : severity[t][d] <= severity[t][w]
    BY <2>3
  <2> HIDE DEF S
  <2>6. /\ w \in Codes(t) /\ x.worst \in Codes(t)
        /\ severity[t][w] \in Nat /\ severity[t][x.worst] \in Nat
    BY <2>3, <2>4, <2>5, SeverityOrder
  <2>7. severity[t][x.worst] = severity[t][w]
    <3>1. severity[t][w] <= severity[t][x.worst]
      BY <2>3, <2>5
    <3>2. severity[t][x.worst] <= severity[t][w]
      BY <2>3, <2>5
    <3> HIDE DEF w
    <3> QED BY <2>6, <3>1, <3>2
  <2>8. x.worst = w
    BY <2>6, <2>7, SeverityOrder
  <2>9. WorstOf(t, S) = w
    BY <2>4 DEF WorstOf
  <2> QED BY <1>2, <2>8, <2>9 DEF S, N
<1> QED BY <1>3, <1>4
=============================================================================
