-------------------------- MODULE SceneAuto_proofs --------------------------
(***************************************************************************)
(* Proofs about the layout and the threads of scene_auto, for any number   *)
(* of pipes and any modes.                                                 *)
(***************************************************************************)
EXTENDS SceneAuto, FiniteSetTheorems, WellFoundedInduction, TLAPS

AllModes == Modes \union {NoMode}
MainPcs == {"menu", "lock", "check", "copy", "clear", "mains", "subs", "publish",
            "static", "start", "unlock", "resume", "deinit", "over", "failed"}
ThreadPcs == {"none", "top", "fps", "locked", "pick", "read", "call", "write",
              "nr3d", "rc", "done"}
ThreadState == [pc : ThreadPcs, i : Nat, j : Nat, pipe : Pipes, idx : Nat, k : Nat]
MainState == [pc : MainPcs, arg : AllModes, then : {"menu", "resume"}, n : 1 .. 4]
Layouts == [Pipes -> [hdl : Pipes, sub : Seq(Pipes)]]

Types ==
  /\ {init, isp, raw} \subseteq BOOLEAN
  /\ lock \in {"free", "main", "luminance"}
  /\ mode \in AllModes /\ mp \in Layouts /\ num \in 0 .. N
  /\ flag \in [Kinds -> BOOLEAN]
  /\ th \in [Kinds -> ThreadState]
  /\ main \in MainState
  /\ late \in [Kinds -> 0 .. 2]
  /\ stale \in [Kinds -> 0 .. Interval + 1]

LEMMA FourThreads ==
  /\ Kinds = {"normal", "luminance", "not_linear", "venc"}
  /\ Len(Threads) = 4 /\ DOMAIN Threads = 1 .. 4
  /\ \A n \in 1 .. 4 : Threads[n] \in Kinds
BY DEF Kinds, Threads, Range

LEMMA ModeTypes ==
  /\ \A m \in AllModes : m.attr \in [Pipes -> Attrs]
  /\ 0 \in Pipes /\ NoMode \in AllModes
<1>1. 0 \in Pipes
  BY NAssumption DEF NAssumption, Pipes
<1>2. NoAttr \in Attrs
  BY <1>1 DEF NoAttr, Attrs
<1>3. NoMode.attr \in [Pipes -> Attrs]
  BY <1>2 DEF NoMode
<1> QED BY <1>1, <1>3, ModesAssumption DEF AllModes, ModesAssumption

------------------------------------------------------------------------------
(* The arrangement of a mode.  What holds of every set of pipes is proved   *)
(* by the least counterexample.                                             *)

(* A set of numbers has a least one.                                        *)
LEMMA Least ==
  ASSUME NEW T, T \subseteq Nat, T # {}
  PROVE  \E x \in T : \A y \in T : x <= y
<1> DEFINE R == OpToRel(<, Nat)
<1>1. R = {ss \in Nat \X Nat : ss[1] < ss[2]}
  BY DEF OpToRel
<1>2. IsWellFoundedOn(R, Nat)
  BY NatLessThanWellFounded
<1> HIDE DEF R
<1>3. \E x \in T : \A y \in T : ~(<<y, x>> \in R)
  BY <1>2, WFMin
<1>4. \E x \in T : \A y \in T : ~(y < x)
  BY <1>1, <1>3
<1>5. \A x, y \in T : ~(y < x) => x <= y
  OBVIOUS
<1> QED BY <1>4, <1>5

Increasing(s) == \A i, j \in DOMAIN s : i < j => s[i] < s[j]

LEMMA Finite ==
  ASSUME NEW S \in SUBSET Pipes
  PROVE  IsFiniteSet(S) /\ Cardinality(S) \in 0 .. N
<1>1. N \in Nat
  BY NAssumption DEF NAssumption
<1>2. IsFiniteSet(Pipes) /\ Cardinality(Pipes) = N
  <2>1. 0 \in Int /\ N - 1 \in Int
    BY <1>1
  <2>2. IsFiniteSet(0 .. N - 1) /\ Cardinality(0 .. N - 1) = IF 0 > N - 1 THEN 0 ELSE (N - 1) - 0 + 1
    BY <2>1, FS_Interval
  <2> QED BY <1>1, <2>2, NAssumption DEF Pipes, NAssumption
<1>3. IsFiniteSet(S) /\ Cardinality(S) <= N
  BY <1>2, FS_Subset
<1> QED BY <1>1, <1>3, FS_CardinalityType

(* A set of pipes can be put in order: were there sets that cannot, take    *)
(* one below the least bound there is of any, and without its largest pipe. *)
LEMMA Orders ==
  ASSUME NEW S \in SUBSET Pipes
  PROVE  \E s \in [1 .. Cardinality(S) -> S] : Increasing(s)
<1> DEFINE Ordered(U) == \E s \in [1 .. Cardinality(U) -> U] : Increasing(s)
<1> DEFINE Below(k) == {U \in SUBSET Pipes : \A p \in U : p < k}
<1> DEFINE T == {k \in Nat : \E U \in Below(k) : ~Ordered(U)}
<1>1. SUFFICES ASSUME ~Ordered(S) PROVE FALSE
  OBVIOUS
<1>2. T # {}
  <2>1. N \in Nat /\ S \in Below(N)
    BY NAssumption DEF NAssumption, Pipes
  <2> QED BY <1>1, <2>1
<1>3. PICK k \in T : \A j \in T : k <= j
  <2>1. T \subseteq Nat
    OBVIOUS
  <2> HIDE DEF T
  <2> QED BY <1>2, <2>1, Least
<1>4. PICK U \in Below(k) : ~Ordered(U)
  OBVIOUS
<1>5. k \in Nat /\ U \in SUBSET Pipes /\ \A p \in U : p < k /\ p \in Nat
  BY DEF Pipes
<1>6. k # 0
  <2> SUFFICES ASSUME k = 0 PROVE FALSE
    OBVIOUS
  <2>1. U = {}
    BY <1>5
  <2>2. Cardinality(U) = 0
    BY <2>1, FS_EmptySet
  <2> DEFINE e == [x \in 1 .. Cardinality(U) |-> 0]
  <2>3. e \in [1 .. Cardinality(U) -> U] /\ Increasing(e)
    BY <2>2 DEF Increasing
  <2> QED BY <1>4, <2>3
<1>7. k - 1 \in Nat /\ k - 1 \notin T
  <2>1. k - 1 \in Nat /\ ~(k <= k - 1)
    BY <1>5, <1>6
  <2> HIDE DEF T
  <2> QED BY <1>3, <2>1
<1>8. k - 1 \in U
  <2> SUFFICES ASSUME k - 1 \notin U PROVE FALSE
    OBVIOUS
  <2>1. U \in Below(k - 1)
    BY <1>5
  <2> QED BY <1>4, <1>7, <2>1
<1> DEFINE V == U \ {k - 1}
<1>9. V \in Below(k - 1)
  BY <1>5
<1>10. Ordered(V)
  BY <1>7, <1>9
<1>11. PICK s \in [1 .. Cardinality(V) -> V] : Increasing(s)
  BY <1>10
<1> DEFINE n == Cardinality(U)
<1>12. Cardinality(V) = n - 1 /\ n \in Nat /\ Cardinality(V) \in Nat
  BY <1>5, <1>8, <1>9, Finite, FS_RemoveElement
<1> DEFINE t == [i \in 1 .. n |-> IF i = n THEN k - 1 ELSE s[i]]
<1> HIDE DEF n
<1>13. \A i \in 1 .. n : i # n => i \in 1 .. Cardinality(V) /\ s[i] \in V
  <2>1. \A i \in 1 .. n : i # n => i \in 1 .. Cardinality(V)
    BY <1>12
  <2> HIDE DEF V
  <2> QED BY <1>11, <2>1
<1>14. t \in [1 .. n -> U]
  BY <1>8, <1>13
<1>15. Increasing(t)
  <2> SUFFICES ASSUME NEW i \in 1 .. n, NEW j \in 1 .. n, i < j PROVE t[i] < t[j]
    BY DEF Increasing
  <2>1. i # n /\ t[i] = s[i]
    BY <1>12
  <2>2. CASE j = n
    BY <1>5, <1>9, <1>13, <2>1, <2>2
  <2>3. CASE j # n
    BY <1>11, <1>13, <2>1, <2>3 DEF Increasing
  <2> QED BY <2>2, <2>3
<1> QED BY <1>4, <1>14, <1>15 DEF n

(* What InOrder makes of a set: each of its members once.                   *)
LEMMA InOrderFacts ==
  ASSUME NEW S \in SUBSET Pipes
  PROVE  /\ InOrder(S) \in [1 .. Cardinality(S) -> S]
         /\ InOrder(S) \in Seq(S) /\ Len(InOrder(S)) = Cardinality(S)
         /\ \A i, j \in 1 .. Cardinality(S) : InOrder(S)[i] = InOrder(S)[j] => i = j
         /\ \A p \in S : \E i \in 1 .. Cardinality(S) : InOrder(S)[i] = p
<1> DEFINE s == InOrder(S)  n == Cardinality(S)
<1>1. s \in [1 .. n -> S] /\ Increasing(s)
  <2>1. s = CHOOSE x \in [1 .. n -> S] : Increasing(x)
    BY DEF InOrder, Increasing
  <2>2. \E x \in [1 .. n -> S] : Increasing(x)
    BY Orders
  <2> HIDE DEF s, n
  <2> QED BY <2>1, <2>2
<1>2. IsFiniteSet(S) /\ n \in Nat
  BY Finite
<1>3. \A p \in S : p \in Nat
  BY DEF Pipes
<1> HIDE DEF s, n
<1>4. \A i, j \in 1 .. n : s[i] = s[j] => i = j
  <2> SUFFICES ASSUME NEW i \in 1 .. n, NEW j \in 1 .. n, s[i] = s[j], i # j PROVE FALSE
    OBVIOUS
  <2>1. s[i] \in Nat /\ s[j] \in Nat /\ (s[i] < s[j] \/ s[j] < s[i])
    BY <1>1, <1>3, <1>2 DEF Increasing
  <2> QED BY <2>1
<1>5. s \in Injection(1 .. n, S)
  BY <1>1, <1>4 DEF Injection, IsInjective
<1>6. IsFiniteSet(1 .. n) /\ Cardinality(1 .. n) = n
  <2>1. 1 \in Int /\ n \in Int
    BY <1>2
  <2>2. IsFiniteSet(1 .. n) /\ Cardinality(1 .. n) = IF 1 > n THEN 0 ELSE n - 1 + 1
    BY <2>1, FS_Interval
  <2> QED BY <1>2, <2>2
<1>7. s \in Surjection(1 .. n, S)
  BY <1>2, <1>5, <1>6, FS_Injection DEF n
<1>8. \A p \in S : \E i \in 1 .. n : s[i] = p
  BY <1>7 DEF Surjection
<1>9. s \in Seq(S) /\ Len(s) = n
  BY <1>1, <1>2
<1> QED BY <1>1, <1>4, <1>8, <1>9 DEF s, n

(* The main pipes a mode names, and who names one of them.                  *)
MainsOf(m) == {m.attr[p].main : p \in Enabled(m)}
Under(m, h) == {p \in Enabled(m) : m.attr[p].main = h}

(* The main pipes of a mode, each once and none left out: a pipe is named   *)
(* first by the least of the enabled pipes that name it.                    *)
LEMMA MainsFacts ==
  ASSUME NEW m \in AllModes
  PROVE  /\ Mains(m) \in Seq(Pipes) /\ Len(Mains(m)) \in 0 .. N
         /\ \A i \in 1 .. Len(Mains(m)) : Mains(m)[i] \in MainsOf(m)
         /\ \A i, j \in 1 .. Len(Mains(m)) : Mains(m)[i] = Mains(m)[j] => i = j
         /\ \A h \in MainsOf(m) : \E i \in 1 .. Len(Mains(m)) : Mains(m)[i] = h
         /\ Len(Mains(m)) = Cardinality(MainsOf(m))
<1> DEFINE S == Namers(m)  n == Cardinality(S)  s == InOrder(S)
<1> DEFINE F(p) == m.attr[p].main
<1>1. S \in SUBSET Enabled(m) /\ S \in SUBSET Pipes /\ Enabled(m) \subseteq Nat
  BY DEF Namers, Enabled, Pipes
<1>2. \A p \in Pipes : F(p) \in Pipes
  BY ModeTypes DEF Attrs
<1>3. n \in 0 .. N /\ n \in Nat
  <2>1. n \in 0 .. N
    BY <1>1, Finite
  <2> QED BY <2>1
<1>4. /\ s \in [1 .. n -> S]
      /\ \A i, j \in 1 .. n : s[i] = s[j] => i = j
      /\ \A p \in S : \E i \in 1 .. n : s[i] = p
  <2> HIDE DEF S
  <2> QED BY <1>1, InOrderFacts
<1>5. \A p, q \in S : F(p) = F(q) => p = q
  BY <1>1 DEF Namers
<1>6. \A q \in Enabled(m) : \E p \in S : F(p) = F(q)
  <2> SUFFICES ASSUME NEW q \in Enabled(m) PROVE \E p \in S : F(p) = F(q)
    OBVIOUS
  <2> DEFINE T == Under(m, F(q))
  <2>1. T \subseteq Nat /\ T # {}
    BY <1>1 DEF Under
  <2>2. PICK p \in T : \A r \in T : p <= r
    <3> HIDE DEF T
    <3> QED BY <2>1, Least
  <2> QED BY <2>2 DEF Under, Namers
<1> DEFINE M == [i \in 1 .. n |-> F(s[i])]
<1>7. Mains(m) = M
  BY DEF Mains
<1> HIDE DEF S, n, s, F
<1>8. M \in [1 .. n -> Pipes] /\ \A i \in 1 .. n : M[i] = F(s[i])
  BY <1>1, <1>2, <1>4
<1>9. M \in Seq(Pipes) /\ Len(M) = n
  <2> HIDE DEF M
  <2> QED BY <1>3, <1>8
<1> HIDE DEF M
<1>10. \A h : h \in MainsOf(m) <=> \E p \in Enabled(m) : h = F(p)
  BY DEF MainsOf, F
<1>11. \A i \in 1 .. n : M[i] \in MainsOf(m)
  BY <1>1, <1>4, <1>8, <1>10
<1>12. \A i, j \in 1 .. n : M[i] = M[j] => i = j
  BY <1>4, <1>5, <1>8
<1>13. \A h \in MainsOf(m) : \E i \in 1 .. n : M[i] = h
  <2> SUFFICES ASSUME NEW h \in MainsOf(m) PROVE \E i \in 1 .. n : M[i] = h
    OBVIOUS
  <2>1. PICK q \in Enabled(m) : h = F(q)
    BY <1>10
  <2>2. PICK p \in S : F(p) = F(q)
    BY <1>6
  <2>3. PICK i \in 1 .. n : s[i] = p
    BY <1>4
  <2> QED BY <1>8, <2>1, <2>2, <2>3
<1>14. n = Cardinality(MainsOf(m))
  <2>1. M \in Injection(1 .. n, MainsOf(m)) /\ M \in Surjection(1 .. n, MainsOf(m))
    BY <1>8, <1>11, <1>12, <1>13 DEF Injection, IsInjective, Surjection
  <2>2. IsFiniteSet(1 .. n) /\ Cardinality(1 .. n) = n
    <3>1. 1 \in Int /\ n \in Int
      BY <1>3
    <3>2. IsFiniteSet(1 .. n) /\ Cardinality(1 .. n) = IF 1 > n THEN 0 ELSE n - 1 + 1
      BY <3>1, FS_Interval
    <3> QED BY <1>3, <3>2
  <2> QED BY <2>1, <2>2, FS_Surjection
<1> QED BY <1>3, <1>7, <1>9, <1>11, <1>12, <1>13, <1>14

(* The enabled pipes under a main pipe, each once.                          *)
LEMMA SubsFacts ==
  ASSUME NEW m, NEW h
  PROVE  /\ Subs(m, h) \in Seq(Pipes) /\ Len(Subs(m, h)) \in 0 .. N
         /\ Range(Subs(m, h)) = Under(m, h)
         /\ \A i, j \in 1 .. Len(Subs(m, h)) : Subs(m, h)[i] = Subs(m, h)[j] => i = j
<1> DEFINE S == Under(m, h)  s == InOrder(S)  n == Cardinality(S)
<1>1. Subs(m, h) = s
  BY DEF Subs, Under
<1>2. S \in SUBSET Pipes
  BY DEF Under, Enabled
<1>3. n \in 0 .. N
  BY <1>2, Finite
<1> HIDE DEF S
<1>4. /\ s \in [1 .. n -> S] /\ s \in Seq(S) /\ Len(s) = n
      /\ \A i, j \in 1 .. n : s[i] = s[j] => i = j
      /\ \A p \in S : \E i \in 1 .. n : s[i] = p
  BY <1>2, InOrderFacts
<1> HIDE DEF s, n
<1>5. s \in Seq(Pipes)
  BY <1>2, <1>4
<1>6. Range(s) = S
  BY <1>4 DEF Range
<1> QED BY <1>1, <1>3, <1>4, <1>5, <1>6 DEF S


(* The layouts that FillMains and FillSubs make.                            *)
LEMMA LayoutTypes ==
  ASSUME NEW m \in AllModes
  PROVE  /\ [i \in Pipes |-> NoPipe] \in Layouts
         /\ WithMains(m) \in Layouts
         /\ WithSubs(m, WithMains(m), Len(Mains(m))) \in Layouts
         /\ MainCount(m) \in 0 .. N
         /\ Len(Mains(m)) \in Nat
<1>1. /\ Mains(m) \in Seq(Pipes) /\ Len(Mains(m)) <= N
      /\ \A h \in Pipes : Subs(m, h) \in Seq(Pipes)
  BY MainsFacts, SubsFacts
<1>2. Len(Mains(m)) \in Nat /\ N \in Nat
  BY <1>1, NAssumption DEF NAssumption
<1>3. NoPipe \in [hdl : Pipes, sub : Seq(Pipes)]
  BY ModeTypes DEF NoPipe
<1>4. \A i \in Pipes : i < Len(Mains(m)) => Mains(m)[i + 1] \in Pipes
  <2>1. \A s \in Seq(Pipes) : \A i \in Nat : i < Len(s) => s[i + 1] \in Pipes
    OBVIOUS
  <2> QED BY <1>1, <2>1 DEF Pipes
<1>5. WithMains(m) \in Layouts
  BY <1>3, <1>4 DEF WithMains, Layouts, NoPipe
<1>6. WithSubs(m, WithMains(m), Len(Mains(m))) \in Layouts
  <2> DEFINE w == WithMains(m)
  <2>1. \A r \in [hdl : Pipes, sub : Seq(Pipes)] : \A s \in Seq(Pipes) :
          [r EXCEPT !.sub = s] \in [hdl : Pipes, sub : Seq(Pipes)]
    OBVIOUS
  <2>2. \A i \in Pipes : w[i] \in [hdl : Pipes, sub : Seq(Pipes)] /\ w[i].hdl \in Pipes
    BY <1>5 DEF Layouts
  <2> HIDE DEF w
  <2>3. \A i \in Pipes : [w[i] EXCEPT !.sub = Subs(m, w[i].hdl)] \in [hdl : Pipes, sub : Seq(Pipes)]
    BY <1>1, <2>1, <2>2
  <2>4. WithSubs(m, w, Len(Mains(m))) \in Layouts
    <3> DEFINE f == [i \in Pipes |-> [w[i] EXCEPT !.sub = Subs(m, w[i].hdl)]]
    <3>1. \A i \in Pipes : f[i] \in [hdl : Pipes, sub : Seq(Pipes)] /\ f[i] = [w[i] EXCEPT !.sub = Subs(m, w[i].hdl)]
      BY <2>3
    <3> HIDE DEF f
    <3>2. WithSubs(m, w, Len(Mains(m))) = [i \in Pipes |-> IF i < Len(Mains(m)) THEN f[i] ELSE w[i]]
      BY <3>1, Zenon DEF WithSubs
    <3> QED BY <2>2, <3>1, <3>2 DEF Layouts
  <2> QED BY <2>4 DEF w
<1> QED BY <1>1, <1>2, <1>3, <1>5, <1>6 DEF MainCount, Layouts

(* The layout of a mode, pipe by pipe.                                      *)
Laid(m) == WithSubs(m, WithMains(m), Len(Mains(m)))

LEMMA LaidPipes ==
  ASSUME NEW m \in AllModes, NEW i \in Pipes
  PROVE  Laid(m)[i] = IF i < Len(Mains(m))
                      THEN [hdl |-> Mains(m)[i + 1], sub |-> Subs(m, Mains(m)[i + 1])]
                      ELSE NoPipe
<1> DEFINE h == Mains(m)[i + 1]  w == WithMains(m)
<1>1. Laid(m)[i] = IF i < Len(Mains(m)) THEN [w[i] EXCEPT !.sub = Subs(m, w[i].hdl)] ELSE w[i]
  BY Zenon DEF Laid, WithSubs
<1>2. CASE i < Len(Mains(m))
  <2>1. w[i] = [NoPipe EXCEPT !.hdl = h]
    BY <1>2 DEF WithMains
  <2> HIDE DEF h
  <2>2. w[i] = [hdl |-> h, sub |-> << >>] /\ w[i].hdl = h
    BY <2>1 DEF NoPipe
  <2> DEFINE x == w[i]  v == Subs(m, w[i].hdl)
  <2>3. x = [hdl |-> h, sub |-> << >>] /\ v = Subs(m, h)
    BY <2>2
  <2>4. \A g, u, y : y = [hdl |-> g, sub |-> << >>] => [y EXCEPT !.sub = u] = [hdl |-> g, sub |-> u]
    OBVIOUS
  <2>5. [x EXCEPT !.sub = v] = [hdl |-> h, sub |-> Subs(m, h)]
    BY <2>3, <2>4
  <2> QED BY <1>1, <1>2, <2>5 DEF h
<1>3. CASE ~(i < Len(Mains(m)))
  <2>1. w[i] = NoPipe
    BY <1>3 DEF WithMains
  <2> QED BY <1>1, <1>3, <2>1
<1> QED BY <1>2, <1>3

(* Before a mode is set no pipe is arranged.                                *)
LEMMA NothingLaid ==
  Laid(NoMode) = [i \in Pipes |-> NoPipe] /\ Len(Mains(NoMode)) = 0
<1>1. NoMode \in AllModes
  BY DEF AllModes
<1>2. MainsOf(NoMode) = {}
  BY DEF MainsOf, Enabled, NoMode, NoAttr
<1>3. Len(Mains(NoMode)) = 0
  BY <1>1, <1>2, MainsFacts, FS_EmptySet
<1>4. \A i \in Pipes : ~(i < 0)
  BY DEF Pipes
<1>5. \A i \in Pipes : Laid(NoMode)[i] = NoPipe
  BY <1>1, <1>3, <1>4, LaidPipes
<1>6. Laid(NoMode) = [i \in Pipes |-> Laid(NoMode)[i]]
  BY DEF Laid, WithSubs
<1> QED BY <1>3, <1>5, <1>6

(* An enabled pipe stands at one place of the layout, another at none.      *)
Places(m, p) ==
  {at \in Pipes \X (1 .. N) :
     at[2] <= Len(Laid(m)[at[1]].sub) /\ Laid(m)[at[1]].sub[at[2]] = p}

LEMMA OnePlace ==
  ASSUME NEW m \in AllModes, NEW p \in Pipes
  PROVE  Cardinality(Places(m, p)) = IF m.attr[p].on THEN 1 ELSE 0
<1> DEFINE M == Mains(m)  U(i) == Subs(m, M[i + 1])
<1>1. \A i \in Pipes : i < Len(M) => Laid(m)[i].sub = U(i) /\ i + 1 \in 1 .. Len(M)
  <2>1. ASSUME NEW i \in Pipes, i < Len(M) PROVE Laid(m)[i].sub = U(i)
    <3>1. Laid(m)[i] = [hdl |-> M[i + 1], sub |-> U(i)]
      BY <2>1, LaidPipes
    <3> HIDE DEF M, U
    <3> QED BY <3>1
  <2>2. Len(M) \in 0 .. N /\ N \in Nat
    BY MainsFacts, NAssumption DEF NAssumption
  <2> QED BY <2>1, <2>2 DEF Pipes
<1>2. \A i \in Pipes : ~(i < Len(M)) => Len(Laid(m)[i].sub) = 0
  <2> SUFFICES ASSUME NEW i \in Pipes, ~(i < Len(M)) PROVE Len(Laid(m)[i].sub) = 0
    OBVIOUS
  <2>1. Laid(m)[i] = NoPipe
    BY LaidPipes
  <2> QED BY <2>1 DEF NoPipe
<1>3. \A i \in Pipes : /\ U(i) \in Seq(Pipes) /\ Len(U(i)) \in 0 .. N
                       /\ Range(U(i)) = Under(m, M[i + 1])
                       /\ \A j, k \in 1 .. Len(U(i)) : U(i)[j] = U(i)[k] => j = k
  BY SubsFacts
<1> HIDE DEF U
<1>4. ASSUME NEW i \in Pipes, NEW k \in 1 .. N
      PROVE  <<i, k>> \in Places(m, p) <=> i < Len(M) /\ k <= Len(U(i)) /\ U(i)[k] = p
  BY <1>1, <1>2 DEF Places
<1>5. ASSUME NEW i \in Pipes, NEW k \in 1 .. N, <<i, k>> \in Places(m, p)
      PROVE  /\ i < Len(M) /\ i + 1 \in 1 .. Len(M)
             /\ k \in 1 .. Len(U(i)) /\ U(i)[k] = p /\ m.attr[p].on /\ M[i + 1] = m.attr[p].main
  <2>1. i < Len(M) /\ k <= Len(U(i)) /\ U(i)[k] = p /\ i + 1 \in 1 .. Len(M)
    BY <1>1, <1>4, <1>5
  <2>2. k \in 1 .. Len(U(i))
    BY <1>3, <2>1
  <2>3. p \in Range(U(i))
    BY <1>3, <2>1, <2>2 DEF Range
  <2> QED BY <1>3, <2>1, <2>2, <2>3 DEF Under, Enabled
<1>6. Places(m, p) \subseteq Pipes \X (1 .. N)
  BY DEF Places
<1>7. CASE ~m.attr[p].on
  <2>1. Places(m, p) = {}
    BY <1>5, <1>6, <1>7
  <2> QED BY <1>7, <2>1, FS_EmptySet
<1>8. CASE m.attr[p].on
  <2>1. m.attr[p].main \in MainsOf(m)
    BY <1>8 DEF MainsOf, Enabled
  <2>2. PICK n \in 1 .. Len(M) : M[n] = m.attr[p].main
    BY <2>1, MainsFacts
  <2>3. Len(M) \in 0 .. N /\ N \in Nat
    BY MainsFacts, NAssumption DEF NAssumption
  <2> DEFINE i == n - 1
  <2>4. i \in Pipes /\ i < Len(M) /\ i + 1 = n
    BY <2>3 DEF Pipes
  <2>5. p \in Range(U(i))
    BY <1>3, <1>8, <2>2, <2>4 DEF Under, Enabled
  <2> HIDE DEF i
  <2>6. PICK k \in 1 .. Len(U(i)) : U(i)[k] = p
    <3>1. DOMAIN U(i) = 1 .. Len(U(i))
      BY <1>3, <2>4
    <3> QED BY <2>5, <3>1 DEF Range
  <2>7. k \in 1 .. N /\ <<i, k>> \in Places(m, p)
    <3>1. k \in 1 .. N
      BY <1>3, <2>3, <2>4
    <3> QED BY <1>4, <2>4, <2>6, <3>1
  <2>8. ASSUME NEW j \in Pipes, NEW l \in 1 .. N, <<j, l>> \in Places(m, p)
        PROVE  j = i /\ l = k
    <3>1. j + 1 \in 1 .. Len(M) /\ M[j + 1] = M[n] /\ l \in 1 .. Len(U(j)) /\ U(j)[l] = p
      BY <1>5, <2>2, <2>8
    <3>2. j + 1 = n
      BY <3>1, MainsFacts
    <3>3. j = i
      BY <2>4, <3>2 DEF Pipes
    <3> QED BY <1>3, <2>4, <2>6, <3>1, <3>3
  <2>9. Places(m, p) = {<<i, k>>}
    BY <1>6, <2>7, <2>8
  <2> QED BY <1>8, <2>9, FS_Singleton
<1> QED BY <1>7, <1>8
(* What an update of the program counter leaves of a thread.                *)
LEMMA MovesTo ==
  ASSUME NEW r \in ThreadState, NEW p \in ThreadPcs
  PROVE  /\ [r EXCEPT !.pc = p] \in ThreadState
         /\ [r EXCEPT !.pc = p].pc = p /\ [r EXCEPT !.pc = p].pipe = r.pipe
         /\ [r EXCEPT !.pc = p].idx = r.idx /\ [r EXCEPT !.pc = p].k = r.k
BY DEF ThreadState

------------------------------------------------------------------------------
(* Steps of the threads.                                                    *)

InCall(t) == th[t].pc \in {"call", "write"}

(* A thread counts its writes only while it is in a setter.                 *)
Counts == \A t \in Kinds : th[t].k < Writes(t) /\ (~InCall(t) => th[t].k = 0)

(* What a step of thread t may do to its own state, but for a write.        *)
Rests(t) == th'[t].pc \notin {"read", "call", "write"} /\ th'[t].k = 0
Picks(t) ==
  /\ th'[t].pc = "read" /\ th'[t].k = 0
  /\ \E i \in Pipes : i < num /\ th'[t].pipe \in {mp[i].hdl} \union Range(mp[i].sub)
Looks(t) ==
  /\ th[t].pc = "read" /\ th'[t].pc = "call"
  /\ th'[t].pipe = th[t].pipe /\ th'[t].k = 0
  /\ th'[t].idx = mode.attr[th[t].pipe].idx
Decides(t) ==
  /\ th[t].pc = "call" /\ th'[t].pc = "write" /\ ~isp
  /\ th'[t].pipe = th[t].pipe /\ th'[t].idx = th[t].idx /\ th'[t].k = th[t].k
Repeats(t) ==
  /\ th[t].k + 1 < Writes(t) /\ th'[t].pc = "call"
  /\ th'[t].pipe = th[t].pipe /\ th'[t].idx = th[t].idx /\ th'[t].k = th[t].k + 1

LEMMA IdleMoves ==
  ASSUME NEW p \in ThreadPcs, NEW x \in Nat, NEW y \in Nat
  PROVE  /\ [Idle EXCEPT !.pc = p] \in ThreadState
         /\ [Idle EXCEPT !.pc = p].pc = p /\ [Idle EXCEPT !.pc = p].k = 0
         /\ [Idle EXCEPT !.pc = p, !.i = x] \in ThreadState
         /\ [Idle EXCEPT !.pc = p, !.i = x].pc = p /\ [Idle EXCEPT !.pc = p, !.i = x].k = 0
         /\ [Idle EXCEPT !.pc = p, !.i = x, !.j = y] \in ThreadState
         /\ [Idle EXCEPT !.pc = p, !.i = x, !.j = y].pc = p
         /\ [Idle EXCEPT !.pc = p, !.i = x, !.j = y].k = 0
<1>1. Idle \in ThreadState
  BY ModeTypes DEF Idle, ThreadState, ThreadPcs
<1> QED BY <1>1, ModeTypes DEF Idle, ThreadState

LEMMA MoveStep ==
  ASSUME Types, NEW t \in Kinds, NEW p \in ThreadPcs, Move(t, p)
  PROVE  /\ th' = [th EXCEPT ![t] = th'[t]] /\ th'[t] \in ThreadState
         /\ th'[t].pc = p /\ th'[t].k = 0
<1>1. th'[t] = [Idle EXCEPT !.pc = p] /\ th' = [th EXCEPT ![t] = th'[t]]
  BY DEF Move, Types
<1>2. /\ [Idle EXCEPT !.pc = p] \in ThreadState
      /\ [Idle EXCEPT !.pc = p].pc = p /\ [Idle EXCEPT !.pc = p].k = 0
  BY IdleMoves
<1> QED BY <1>1, <1>2

(* Where the loop goes on after a setter or a pipe.                         *)
LEMMA AfterMoves ==
  ASSUME Types, NEW t \in Kinds
  PROVE  /\ AfterCall(t) \in ThreadState /\ AfterCall(t).pc = "pick" /\ AfterCall(t).k = 0
         /\ AfterMain(t) \in ThreadState /\ AfterMain(t).pc = th[t].pc /\ AfterMain(t).k = 0
<1>1. th[t] \in ThreadState
  BY DEF Types
<1>2. th[t].pc \in ThreadPcs /\ th[t].i \in Nat /\ th[t].j \in Nat /\ th[t].i + 1 \in Nat /\ th[t].j + 1 \in Nat
  BY <1>1 DEF ThreadState
<1>3. "pick" \in ThreadPcs
  BY DEF ThreadPcs
<1>4. AfterMain(t) \in ThreadState /\ AfterMain(t).pc = th[t].pc /\ AfterMain(t).k = 0
  BY <1>2, IdleMoves DEF AfterMain
<1>5. AfterSub(t) \in ThreadState /\ AfterSub(t).pc = "pick" /\ AfterSub(t).k = 0
  <2>1. \A x, y \in Nat : /\ [Idle EXCEPT !.pc = "pick", !.i = x, !.j = y] \in ThreadState
                          /\ [Idle EXCEPT !.pc = "pick", !.i = x, !.j = y].pc = "pick"
                          /\ [Idle EXCEPT !.pc = "pick", !.i = x, !.j = y].k = 0
    BY <1>3, ModeTypes DEF Idle, ThreadState
  <2> QED BY <1>2, <2>1, Zenon DEF AfterSub
<1>6. /\ [AfterMain(t) EXCEPT !.pc = "pick"] \in ThreadState
      /\ [AfterMain(t) EXCEPT !.pc = "pick"].pc = "pick" /\ [AfterMain(t) EXCEPT !.pc = "pick"].k = 0
  BY <1>3, <1>4, MovesTo
<1> QED BY <1>4, <1>5, <1>6 DEF AfterCall

Frame(t) ==
  /\ th' = [th EXCEPT ![t] = th'[t]] /\ th'[t] \in ThreadState
  /\ init' = init /\ isp' = isp /\ mode' = mode /\ mp' = mp /\ num' = num
  /\ flag' = flag /\ main' = main
  /\ lock' \in {"free", "main", "luminance"} /\ raw' \in BOOLEAN

Quiet(t) == late' = late /\ stale' = stale /\ (Rests(t) \/ Picks(t) \/ Looks(t) \/ Decides(t))

Writing(t) ==
  /\ th[t].pc = "write"
  /\ late' = Bump(late, t, isp, 2)
  /\ stale' = Bump(stale, t, ~Switching /\ <<th[t].pipe, th[t].idx>> \notin Pairs(mode), Interval + 1)
  /\ Rests(t) \/ Repeats(t)

LEMMA WriteStep ==
  ASSUME Types, Counts, NEW t \in Kinds, Write(t)
  PROVE  Frame(t) /\ Writing(t)
<1>1. th \in [Kinds -> ThreadState] /\ th[t] \in ThreadState /\ th[t].pc = "write"
      /\ th[t].k \in Nat /\ lock \in {"free", "main", "luminance"} /\ raw \in BOOLEAN
  BY DEF Types, ThreadState, Write, At
<1>2. /\ init' = init /\ isp' = isp /\ mode' = mode /\ mp' = mp /\ num' = num
      /\ flag' = flag /\ main' = main /\ lock' = lock /\ raw' = raw
  BY DEF Write, Calling, layout
<1>3. /\ late' = Bump(late, t, isp, 2)
      /\ stale' = Bump(stale, t, ~Switching /\ <<th[t].pipe, th[t].idx>> \notin Pairs(mode), Interval + 1)
  BY DEF Write
<1>4. CASE th[t].k + 1 < Writes(t)
  <2>1. th' = [th EXCEPT ![t] = [th[t] EXCEPT !.pc = "call", !.k = th[t].k + 1]]
    <3>1. th' = [th EXCEPT ![t] = IF th[t].k + 1 < Writes(t)
                                   THEN [th[t] EXCEPT !.pc = "call", !.k = th[t].k + 1] ELSE AfterCall(t)]
      BY Zenon DEF Write
    <3> QED BY <1>4, <3>1, Zenon
  <2>2. th'[t] = [th[t] EXCEPT !.pc = "call", !.k = th[t].k + 1] /\ th' = [th EXCEPT ![t] = th'[t]]
    BY <1>1, <2>1, Zenon
  <2>3. "call" \in ThreadPcs /\ th[t].k + 1 \in Nat
    BY <1>1 DEF ThreadPcs
  <2>4. /\ th'[t] \in ThreadState /\ th'[t].pc = "call" /\ th'[t].k = th[t].k + 1
        /\ th'[t].pipe = th[t].pipe /\ th'[t].idx = th[t].idx
    <3> DEFINE r == th[t]  p == "call"  n == th[t].k + 1
    <3>1. r \in ThreadState /\ p \in ThreadPcs /\ n \in Nat /\ th'[t] = [r EXCEPT !.pc = p, !.k = n]
      BY <1>1, <2>2, <2>3
    <3>2. r = th[t] /\ p = "call" /\ n = th[t].k + 1
      OBVIOUS
    <3> HIDE DEF r, p, n
    <3>3. /\ th'[t] \in ThreadState /\ th'[t].pc = p /\ th'[t].k = n
          /\ th'[t].pipe = r.pipe /\ th'[t].idx = r.idx
      BY <3>1 DEF ThreadState
    <3> QED BY <3>2, <3>3
  <2> QED BY <1>1, <1>2, <1>3, <1>4, <2>2, <2>4 DEF Frame, Writing, Repeats
<1>5. CASE ~(th[t].k + 1 < Writes(t))
  <2>1. th' = [th EXCEPT ![t] = AfterCall(t)]
    BY <1>5, Zenon DEF Write
  <2>2. th'[t] = AfterCall(t) /\ th' = [th EXCEPT ![t] = th'[t]]
    BY <1>1, <2>1
  <2> QED BY <1>1, <1>2, <1>3, <2>2, AfterMoves DEF Frame, Writing, Rests
<1> QED BY <1>4, <1>5

LEMMA PickStep ==
  ASSUME Types, Counts, NEW t \in Kinds, Pick(t)
  PROVE  Frame(t) /\ Quiet(t)
<1>1. th \in [Kinds -> ThreadState] /\ th[t] \in ThreadState /\ th[t].pc = "pick" /\ th[t].k = 0
      /\ th[t].i \in Nat /\ th[t].j \in Nat /\ lock \in {"free", "main", "luminance"} /\ raw \in BOOLEAN
  BY DEF Types, ThreadState, Pick, At, Counts, InCall
<1>2. /\ init' = init /\ isp' = isp /\ mode' = mode /\ mp' = mp /\ num' = num
      /\ flag' = flag /\ main' = main /\ lock' = lock /\ raw' = raw /\ late' = late /\ stale' = stale
  BY DEF Pick, Calling, layout, ghosts
<1>3. "read" \in ThreadPcs /\ AfterSetters(t) \in ThreadPcs /\ AfterSetters(t) \notin {"read", "call", "write"}
  BY DEF ThreadPcs, AfterSetters
<1>4. CASE th[t].i >= num
  <2>1. Move(t, AfterSetters(t))
    BY <1>4 DEF Pick
  <2> QED BY <1>1, <1>2, <1>3, <2>1, MoveStep DEF Frame, Quiet, Rests
<1>5. CASE ~(th[t].i >= num)
  <2> DEFINE q == IF t = "not_linear" THEN mp[th[t].i].hdl ELSE mp[th[t].i].sub[th[t].j + 1]
  <2>1. th[t].i \in Pipes /\ th[t].i < num
    BY <1>1, <1>5, NAssumption DEF NAssumption, Types, Pipes
  <2>2. mp[th[t].i].hdl \in Pipes /\ mp[th[t].i].sub \in Seq(Pipes)
    BY <2>1 DEF Types, Layouts
  <2>3. CASE t # "not_linear" /\ th[t].j >= Len(mp[th[t].i].sub)
    <3>1. th' = [th EXCEPT ![t] = AfterMain(t)]
      BY <1>5, <2>3 DEF Pick
    <3>2. th'[t] = AfterMain(t) /\ th' = [th EXCEPT ![t] = th'[t]]
      BY <1>1, <3>1
    <3> QED BY <1>1, <1>2, <3>2, AfterMoves DEF Frame, Quiet, Rests
  <2>4. CASE t = "not_linear" \/ ~(th[t].j >= Len(mp[th[t].i].sub))
    <3>1. q \in Pipes /\ q \in {mp[th[t].i].hdl} \union Range(mp[th[t].i].sub)
      <4>1. \A f \in Seq(Pipes) : \A j \in Nat :
              ~(j >= Len(f)) => f[j + 1] \in Pipes /\ j + 1 \in DOMAIN f
        OBVIOUS
      <4> QED BY <1>1, <2>2, <2>4, <4>1 DEF Range
    <3>2. th' = [th EXCEPT ![t] = [th[t] EXCEPT !.pc = "read", !.pipe = q]]
      BY <1>5, <2>4, Zenon DEF Pick
    <3>3. th'[t] = [th[t] EXCEPT !.pc = "read", !.pipe = q] /\ th' = [th EXCEPT ![t] = th'[t]]
      BY <1>1, <3>2, Zenon
    <3> HIDE DEF q
    <3>4. th'[t] \in ThreadState /\ th'[t].pc = "read" /\ th'[t].k = 0 /\ th'[t].pipe = q
      <4> DEFINE r == th[t]  p == "read"
      <4>1. r \in ThreadState /\ p \in ThreadPcs /\ q \in Pipes /\ th'[t] = [r EXCEPT !.pc = p, !.pipe = q]
        BY <1>1, <1>3, <3>1, <3>3
      <4>2. r = th[t] /\ p = "read"
        OBVIOUS
      <4> HIDE DEF r, p
      <4>3. th'[t] \in ThreadState /\ th'[t].pc = p /\ th'[t].k = r.k /\ th'[t].pipe = q
        BY <4>1 DEF ThreadState
      <4> QED BY <1>1, <4>2, <4>3
    <3>5. Picks(t)
      BY <2>1, <3>1, <3>4 DEF Picks
    <3> QED BY <1>1, <1>2, <3>3, <3>4, <3>5 DEF Frame, Quiet
  <2> QED BY <2>3, <2>4
<1> QED BY <1>4, <1>5

LEMMA ReadStep ==
  ASSUME Types, Counts, NEW t \in Kinds, ReadIndex(t)
  PROVE  Frame(t) /\ Quiet(t)
<1> DEFINE r == th[t]  x == mode.attr[th[t].pipe].idx
<1>1. th \in [Kinds -> ThreadState] /\ r \in ThreadState /\ r.pc = "read" /\ r.k = 0 /\ r.pipe \in Pipes
      /\ lock \in {"free", "main", "luminance"} /\ raw \in BOOLEAN
  BY DEF Types, ThreadState, ReadIndex, At, Counts, InCall
<1>2. /\ init' = init /\ isp' = isp /\ mode' = mode /\ mp' = mp /\ num' = num
      /\ flag' = flag /\ main' = main /\ lock' = lock /\ raw' = raw /\ late' = late /\ stale' = stale
  BY DEF ReadIndex, Calling, layout, ghosts
<1>3. x \in Nat
  <2>1. mode.attr \in [Pipes -> Attrs]
    BY ModeTypes DEF Types
  <2> QED BY <1>1, <2>1 DEF Attrs
<1>4. th' = [th EXCEPT ![t] = [r EXCEPT !.pc = "call", !.idx = x]]
  BY Zenon DEF ReadIndex
<1>5. th'[t] = [r EXCEPT !.pc = "call", !.idx = x] /\ th' = [th EXCEPT ![t] = th'[t]]
  BY <1>1, <1>4, Zenon
<1>6. /\ th'[t] \in ThreadState /\ th'[t].pc = "call" /\ th'[t].k = r.k
      /\ th'[t].pipe = r.pipe /\ th'[t].idx = x
  <2> DEFINE p == "call"
  <2>1. r \in ThreadState /\ p \in ThreadPcs /\ x \in Nat /\ th'[t] = [r EXCEPT !.pc = p, !.idx = x] /\ p = "call"
    BY <1>1, <1>3, <1>5 DEF ThreadPcs
  <2> HIDE DEF r, x, p
  <2>2. /\ th'[t] \in ThreadState /\ th'[t].pc = p /\ th'[t].k = r.k
        /\ th'[t].pipe = r.pipe /\ th'[t].idx = x
    BY <2>1 DEF ThreadState
  <2> QED BY <2>1, <2>2
<1> QED BY <1>1, <1>2, <1>5, <1>6 DEF Frame, Quiet, Looks

LEMMA CallStep ==
  ASSUME Types, Counts, NEW t \in Kinds, Call(t)
  PROVE  Frame(t) /\ Quiet(t)
<1>1. th \in [Kinds -> ThreadState] /\ th[t] \in ThreadState /\ th[t].pc = "call"
      /\ lock \in {"free", "main", "luminance"} /\ raw \in BOOLEAN
  BY DEF Types, Call, At
<1>2. /\ init' = init /\ isp' = isp /\ mode' = mode /\ mp' = mp /\ num' = num
      /\ flag' = flag /\ main' = main /\ lock' = lock /\ raw' = raw /\ late' = late /\ stale' = stale
  BY DEF Call, Calling, layout, ghosts
<1>3. CASE th' = [th EXCEPT ![t] = AfterCall(t)]
  <2>1. th'[t] = AfterCall(t) /\ th' = [th EXCEPT ![t] = th'[t]]
    BY <1>1, <1>3
  <2> QED BY <1>1, <1>2, <2>1, AfterMoves DEF Frame, Quiet, Rests
<1>4. CASE ~isp /\ th' = [th EXCEPT ![t].pc = "write"]
  <2>1. th'[t] = [th[t] EXCEPT !.pc = "write"] /\ th' = [th EXCEPT ![t] = th'[t]]
    BY <1>1, <1>4, Zenon
  <2>2. "write" \in ThreadPcs
    BY DEF ThreadPcs
  <2>3. /\ th'[t] \in ThreadState /\ th'[t].pc = "write" /\ th'[t].k = th[t].k
        /\ th'[t].pipe = th[t].pipe /\ th'[t].idx = th[t].idx
    BY <1>1, <2>1, <2>2, MovesTo
  <2> QED BY <1>1, <1>2, <1>4, <2>1, <2>3 DEF Frame, Quiet, Decides
<1> QED BY <1>3, <1>4 DEF Call, MayWrite

(* The setters that do not look at the pause.                               *)
LEMMA RawStep ==
  ASSUME Types, Counts, NEW t \in Kinds, (t = "normal" /\ SetNr3d) \/ (t = "venc" /\ SetRc)
  PROVE  Frame(t) /\ Quiet(t)
<1>1. th \in [Kinds -> ThreadState] /\ th[t] \in ThreadState /\ th[t].pc \in {"nr3d", "rc"} /\ th[t].k = 0
      /\ th[t].i \in Nat /\ th[t].j \in Nat /\ th[t].i + 1 \in Nat /\ th[t].j + 1 \in Nat
      /\ lock \in {"free", "main", "luminance"} /\ raw' \in BOOLEAN /\ "top" \in ThreadPcs
  BY DEF Types, ThreadState, SetNr3d, SetRc, At, Counts, InCall, ThreadPcs
<1>2. /\ init' = init /\ isp' = isp /\ mode' = mode /\ mp' = mp /\ num' = num
      /\ flag' = flag /\ main' = main /\ lock' = lock /\ late' = late /\ stale' = stale
  BY DEF SetNr3d, SetRc, Calling, layout
<1>3. CASE Move(t, "top")
  BY <1>1, <1>2, <1>3, MoveStep DEF Frame, Quiet, Rests
<1>4. CASE th' = [th EXCEPT ![t] = AfterMain(t)]
  <2>1. th'[t] = AfterMain(t) /\ th' = [th EXCEPT ![t] = th'[t]]
    BY <1>1, <1>4
  <2> QED BY <1>1, <1>2, <2>1, AfterMoves DEF Frame, Quiet, Rests
<1>5. CASE th' = [th EXCEPT ![t].j = th[t].j + 1]
  <2>1. th'[t] = [th[t] EXCEPT !.j = th[t].j + 1] /\ th' = [th EXCEPT ![t] = th'[t]]
    BY <1>1, <1>5, Zenon
  <2>2. th'[t] \in ThreadState /\ th'[t].pc = th[t].pc /\ th'[t].k = th[t].k
    <3> DEFINE r == th[t]  n == th[t].j + 1
    <3>1. r \in ThreadState /\ n \in Nat /\ th'[t] = [r EXCEPT !.j = n]
      BY <1>1, <2>1
    <3> HIDE DEF r, n
    <3>2. th'[t] \in ThreadState /\ th'[t].pc = r.pc /\ th'[t].k = r.k
      BY <3>1 DEF ThreadState
    <3> QED BY <3>2 DEF r
  <2> QED BY <1>1, <1>2, <2>1, <2>2 DEF Frame, Quiet, Rests
<1>6. CASE th' = [th EXCEPT ![t].i = th[t].i + 1]
  <2>1. th'[t] = [th[t] EXCEPT !.i = th[t].i + 1] /\ th' = [th EXCEPT ![t] = th'[t]]
    BY <1>1, <1>6, Zenon
  <2>2. th'[t] \in ThreadState /\ th'[t].pc = th[t].pc /\ th'[t].k = th[t].k
    <3> DEFINE r == th[t]  n == th[t].i + 1
    <3>1. r \in ThreadState /\ n \in Nat /\ th'[t] = [r EXCEPT !.i = n]
      BY <1>1, <2>1
    <3> HIDE DEF r, n
    <3>2. th'[t] \in ThreadState /\ th'[t].pc = r.pc /\ th'[t].k = r.k
      BY <3>1 DEF ThreadState
    <3> QED BY <3>2 DEF r
  <2> QED BY <1>1, <1>2, <2>1, <2>2 DEF Frame, Quiet, Rests
<1> QED BY <1>3, <1>4, <1>5, <1>6 DEF SetNr3d, SetRc

LEMMA PlainStep ==
  ASSUME Types, Counts, NEW t \in Kinds,
         Top(t) \/ (t = "luminance" /\ (TakeLock \/ GiveLock))
  PROVE  Frame(t) /\ Quiet(t)
<1>1. lock' \in {"free", "main", "luminance"} /\ raw' \in BOOLEAN
  BY DEF Types, Top, TakeLock, GiveLock, ghosts
<1>2. /\ init' = init /\ isp' = isp /\ mode' = mode /\ mp' = mp /\ num' = num
      /\ flag' = flag /\ main' = main /\ late' = late /\ stale' = stale
  BY DEF Top, TakeLock, GiveLock, Calling, layout, ghosts
<1>3. \E p \in {"done", "fps", "rc", "pick", "locked"} : Move(t, p)
  BY DEF Top, TakeLock, GiveLock
<1>4. {"done", "fps", "rc", "pick", "locked"} \subseteq ThreadPcs
  BY DEF ThreadPcs
<1> QED BY <1>1, <1>2, <1>3, <1>4, MoveStep DEF Frame, Quiet, Rests

LEMMA ThreadStep ==
  ASSUME Types, Counts, NEW t \in Kinds, Thread(t) \/ (t = "luminance" /\ TakeLock)
  PROVE  Frame(t) /\ (Quiet(t) \/ Writing(t))
BY WriteStep, PickStep, ReadStep, CallStep, RawStep, PlainStep DEF Thread

LEMMA ThreadTypes ==
  ASSUME Types, Counts, NEW t \in Kinds, Thread(t) \/ (t = "luminance" /\ TakeLock)
  PROVE  Types' /\ Counts'
<1>1. Frame(t) /\ (Quiet(t) \/ Writing(t))
  BY ThreadStep
<1>2. th' \in [Kinds -> ThreadState] /\ \A u \in Kinds : u # t => th'[u] = th[u]
  BY <1>1 DEF Frame, Types
<1>3. late' \in [Kinds -> 0 .. 2] /\ stale' \in [Kinds -> 0 .. Interval + 1]
  <2>1. CASE Quiet(t) BY <2>1 DEF Quiet, Types
  <2>2. CASE Writing(t)
    BY <2>2, IntervalAssumption DEF IntervalAssumption, Writing, Bump, Types
  <2> QED BY <1>1, <2>1, <2>2
<1>4. Counts'
  <2>1. \A u \in Kinds : u # t => (th[u].k < Writes(u) /\ (~InCall(u) => th[u].k = 0))'
    BY <1>2 DEF Counts, InCall, Writes
  <2>2. th'[t].k < Writes(t) /\ (th'[t].pc \notin {"call", "write"} => th'[t].k = 0)
    <3>1. 0 < Writes(t) /\ Writes(t) \in Nat /\ th[t].k < Writes(t)
      BY IntervalAssumption DEF IntervalAssumption, Writes, Counts
    <3> QED BY <1>1, <3>1 DEF Quiet, Writing, Rests, Picks, Looks, Decides, Repeats, Counts, InCall
  <2> QED BY <2>1, <2>2 DEF Counts, InCall, Writes
<1> QED BY <1>1, <1>2, <1>3, <1>4 DEF Types, Frame

------------------------------------------------------------------------------
(* Steps of the menu's thread.                                              *)

SettingPcs == {"lock", "check", "copy", "clear", "mains", "subs", "publish",
               "static", "start", "unlock"}

(* main is a record of its four fields.                                     *)
LEMMA MainUpdates ==
  ASSUME Types, NEW p \in MainPcs
  PROVE  /\ Goto(p) => main' \in MainState /\ main'.pc = p /\ main'.arg = main.arg
         /\ Fail => main' \in MainState /\ main'.pc = "failed"
         /\ Rest \in MainState /\ Rest.pc = "menu"
         /\ \A n \in 1 .. 4 : LET r == [main EXCEPT !.pc = p, !.n = n]
                              IN  r \in MainState /\ r.pc = p
         /\ \A h \in {"menu", "resume"}, m \in AllModes :
              LET r == [main EXCEPT !.pc = p, !.arg = m, !.then = h]
              IN  r \in MainState /\ r.pc = p
<1> DEFINE r == main
<1>1. r \in MainState /\ r = main
  BY DEF Types
<1>2. NoMode \in AllModes /\ "menu" \in MainPcs /\ "failed" \in MainPcs /\ 1 \in 1 .. 4
  BY DEF AllModes, MainPcs
<1> HIDE DEF r
<1>3. /\ [r EXCEPT !.pc = p] \in MainState /\ [r EXCEPT !.pc = p].pc = p
      /\ [r EXCEPT !.pc = p].arg = r.arg
  BY <1>1 DEF MainState
<1>4. /\ [r EXCEPT !.pc = "menu", !.arg = NoMode, !.then = "menu", !.n = 1] \in MainState
      /\ [r EXCEPT !.pc = "menu", !.arg = NoMode, !.then = "menu", !.n = 1].pc = "menu"
  BY <1>1, <1>2 DEF MainState
<1>5. Rest \in MainState /\ Rest.pc = "menu"
  BY <1>1, <1>4, Zenon DEF Rest
<1>6. Fail => main' \in MainState /\ main'.pc = "failed"
  <2> DEFINE q == Rest
  <2>1. q \in MainState
    BY <1>5
  <2>2. Fail => main' = [q EXCEPT !.pc = "failed"]
    BY Zenon DEF Fail
  <2> HIDE DEF q
  <2>3. [q EXCEPT !.pc = "failed"] \in MainState /\ [q EXCEPT !.pc = "failed"].pc = "failed"
    BY <2>1, <1>2 DEF MainState
  <2> QED BY <2>2, <2>3, Zenon
<1>7. Goto(p) => main' \in MainState /\ main'.pc = p /\ main'.arg = main.arg
  BY <1>1, <1>3, Zenon DEF Goto
<1>8. \A n \in 1 .. 4 : /\ [r EXCEPT !.pc = p, !.n = n] \in MainState
                        /\ [r EXCEPT !.pc = p, !.n = n].pc = p
  BY <1>1 DEF MainState
<1>9. \A h \in {"menu", "resume"}, m \in AllModes :
        /\ [r EXCEPT !.pc = p, !.arg = m, !.then = h] \in MainState
        /\ [r EXCEPT !.pc = p, !.arg = m, !.then = h].pc = p
  BY <1>1 DEF MainState
<1> QED BY <1>1, <1>5, <1>6, <1>7, <1>8, <1>9, Zenon

(* The layout is that of the mode but for the four steps of a switch that   *)
(* rearrange it, and in these it is what the steps before have made of it.  *)
NoLayout == [i \in Pipes |-> NoPipe]
Good(m) == Enabled(m) \union Range(Mains(m))
GoodPipe(i) == mp[i].hdl \in Good(mode) /\ Range(mp[i].sub) \subseteq Good(mode)
Rearranged == main.pc \in {"clear", "mains", "subs", "publish"}

Arranged ==
  /\ ~Rearranged => mp = Laid(mode) /\ num = Len(Mains(mode))
  /\ main.pc = "mains" => mp = NoLayout
  /\ main.pc = "subs" => mp = WithMains(mode)
  /\ main.pc = "publish" => mp = Laid(mode)

(* A call finds the library initialised; before that no thread was started. *)
Started ==
  /\ main.pc \in SettingPcs \union {"resume", "deinit"} => init
  /\ ~init /\ main.pc = "menu" => \A t \in Kinds : th[t].pc = "none" /\ stale[t] = 0

(* What the steps of the menu's thread do to the threads: nothing, or one   *)
(* is created at the head of its loop.                                      *)
Creates == \E u \in Kinds : th' = [th EXCEPT ![u] = [Idle EXCEPT !.pc = "top"]]

LEMMA MainThreads ==
  ASSUME Types, Counts, th' = th \/ Creates
  PROVE  /\ th' \in [Kinds -> ThreadState] /\ Counts'
         /\ \A t \in Kinds : th'[t] = th[t] \/ (th'[t].pc = "top" /\ th'[t].k = 0)
<1>1. CASE th' = th
  BY <1>1 DEF Types, Counts, InCall, Writes
<1>2. CASE Creates
  <2>1. PICK u \in Kinds : th' = [th EXCEPT ![u] = [Idle EXCEPT !.pc = "top"]]
    BY <1>2 DEF Creates
  <2> DEFINE x == [Idle EXCEPT !.pc = "top"]
  <2>2. x \in ThreadState /\ x.pc = "top" /\ x.k = 0
    <3>1. "top" \in ThreadPcs
      BY DEF ThreadPcs
    <3> QED BY <3>1, IdleMoves
  <2> HIDE DEF x
  <2>3. th' = [th EXCEPT ![u] = x]
    BY <2>1 DEF x
  <2>4. th' \in [Kinds -> ThreadState] /\ \A t \in Kinds : th'[t] = IF t = u THEN x ELSE th[t]
    BY <2>2, <2>3 DEF Types
  <2>5. \A t \in Kinds : 0 < Writes(t) /\ Writes(t)' = Writes(t)
    BY IntervalAssumption DEF IntervalAssumption, Writes
  <2>6. Counts'
    BY <2>2, <2>4, <2>5 DEF Counts, InCall
  <2> QED BY <2>2, <2>4, <2>6
<1> QED BY <1>1, <1>2

LEMMA SetModeTypes ==
  ASSUME Types, Arranged, SetMode
  PROVE  /\ lock' \in {"free", "main", "luminance"}
         /\ mode' \in AllModes /\ mp' \in Layouts /\ num' \in 0 .. N
         /\ flag' \in [Kinds -> BOOLEAN] /\ main' \in MainState
         /\ stale' \in [Kinds -> 0 .. Interval + 1]
         /\ init' = init /\ isp' = isp /\ raw' = raw /\ late' = late
         /\ th' = th \/ Creates
<1> USE DEF Threading, layout, ghosts
<1>1. SettingPcs \subseteq MainPcs /\ "failed" \in MainPcs
  BY DEF SettingPcs, MainPcs
<1>2. main \in MainState /\ main.arg \in AllModes /\ main.n \in 1 .. 4 /\ main.then \in {"menu", "resume"}
  BY DEF Types, MainState
<1>3. \A p \in SettingPcs : Goto(p) => main' \in MainState
  BY <1>1, MainUpdates
<1>4. Fail => main' \in MainState
  BY <1>1, MainUpdates
<1>5. Abandon => lock' = "free" /\ main' \in MainState
  BY <1>4 DEF Abandon
<1>6. CASE Check
  BY <1>3, <1>4, <1>6 DEF Check, SettingPcs, Types, LockAfterRefusal
<1>7. CASE Copy
  <2>1. stale' \in [Kinds -> 0 .. Interval + 1]
    BY <1>7, IntervalAssumption DEF IntervalAssumption, Copy
  <2> QED BY <1>2, <1>3, <1>7, <2>1 DEF Copy, SettingPcs, Types
<1>8. CASE Clear \/ FillMains \/ FillSubs
  <2>1. mp' \in Layouts
    BY <1>8, LayoutTypes DEF Clear, FillMains, FillSubs, Arrange, Arranged, Types
  <2>2. main' \in MainState
    BY <1>3, <1>8 DEF Clear, FillMains, FillSubs, Arrange, SettingPcs
  <2> QED BY <1>8, <2>1, <2>2 DEF Clear, FillMains, FillSubs, Arrange, Types
<1>9. CASE Publish
  <2>1. num' \in 0 .. N
    BY <1>9, LayoutTypes DEF Publish, Types
  <2> QED BY <1>3, <1>9, <2>1 DEF Publish, SettingPcs, Types
<1>10. CASE SetStatic
  <2>1. "start" \in MainPcs /\ 1 \in 1 .. 4
    BY DEF MainPcs
  <2>2. [main EXCEPT !.pc = "start", !.n = 1] \in MainState
    BY <2>1, MainUpdates
  <2> QED BY <1>5, <1>10, <2>2 DEF SetStatic, Types
<1>11. CASE StartThread
  <2> DEFINE t == Threads[main.n]
  <2>1. t \in Kinds
    BY <1>2, FourThreads
  <2>2. Next4 => main' \in MainState
    <3>1. CASE main.n = Len(Threads)
      BY <1>3, <3>1 DEF Next4, SettingPcs
    <3>2. CASE main.n # Len(Threads)
      <4> DEFINE r == main  n == main.n + 1
      <4>1. r \in MainState /\ n \in 1 .. 4
        BY <1>2, <3>2, FourThreads
      <4>2. Next4 => main' = [r EXCEPT !.n = n]
        BY <3>2, Zenon DEF Next4
      <4> HIDE DEF r, n
      <4>3. [r EXCEPT !.n = n] \in MainState
        BY <4>1 DEF MainState
      <4> QED BY <4>2, <4>3
    <3> QED BY <3>1, <3>2
  <2>3. CASE Wanted(t)
    <3>1. flag' = [flag EXCEPT ![t] = TRUE]
      BY <1>11, <2>3 DEF StartThread
    <3>2. \/ Creates /\ Next4 /\ UNCHANGED lock
          \/ Abandon /\ UNCHANGED th
      BY <1>11, <2>1, <2>3 DEF StartThread, Creates
    <3>3. flag' \in [Kinds -> BOOLEAN]
      BY <3>1 DEF Types
    <3> QED BY <1>5, <1>11, <2>2, <3>2, <3>3 DEF StartThread, Types
  <2>4. CASE ~Wanted(t)
    <3>1. Next4 /\ UNCHANGED <<lock, flag, th>>
      BY <1>11, <2>4 DEF StartThread
    <3> QED BY <1>11, <2>2, <3>1 DEF StartThread, Types
  <2> QED BY <2>3, <2>4
<1>12. CASE Unlock
  <2> DEFINE q == Rest  p == main.then
  <2>1. q \in MainState /\ p \in MainPcs
    BY <1>2, MainUpdates DEF MainPcs
  <2>2. main' = [q EXCEPT !.pc = p]
    BY <1>12, Zenon DEF Unlock
  <2> HIDE DEF q, p
  <2>3. [q EXCEPT !.pc = p] \in MainState
    BY <2>1 DEF MainState
  <2> QED BY <1>12, <2>2, <2>3 DEF Unlock, Types
<1> QED BY <1>6, <1>7, <1>8, <1>9, <1>10, <1>11, <1>12 DEF SetMode

LEMMA ChooseTypes ==
  ASSUME Types, Choose \/ Waits
  PROVE  /\ lock' \in {"free", "main", "luminance"} /\ {init, isp, raw}' \subseteq BOOLEAN
         /\ mode' \in AllModes /\ mp' \in Layouts /\ num' \in 0 .. N
         /\ flag' \in [Kinds -> BOOLEAN] /\ main' \in MainState
         /\ late' \in [Kinds -> 0 .. 2]
         /\ stale' = stale /\ raw' = raw /\ th' = th
<1> USE DEF Threading, layout, ghosts
<1>1. Fail => main' \in MainState
  <2>1. "failed" \in MainPcs
    BY DEF MainPcs
  <2> QED BY <2>1, MainUpdates
<1>2. \A p \in MainPcs : Goto(p) => main' \in MainState
  BY MainUpdates
<1>3. \A m \in Modes, h \in {"menu", "resume"} :
        [main EXCEPT !.pc = "lock", !.arg = m, !.then = h] \in MainState
  <2>1. "lock" \in MainPcs
    BY DEF MainPcs
  <2> QED BY <2>1, MainUpdates DEF AllModes
<1>4. CASE \E m \in Modes : Choose1(m)
  <2>1. PICK m \in Modes : Choose1(m)
    BY <1>4
  <2>2. CASE init
    BY <1>1, <2>1, <2>2 DEF Choose1, Types
  <2>3. CASE ~init
    <3>1. main' = [main EXCEPT !.pc = "lock", !.arg = m, !.then = "menu"]
      BY <2>1, <2>3, Zenon DEF Choose1
    <3>2. main' \in MainState
      BY <1>3, <3>1
    <3>3. [i \in Pipes |-> NoPipe] \in Layouts /\ NoMode \in AllModes /\ 0 \in 0 .. N
      BY LayoutTypes, ModeTypes, NAssumption DEF NAssumption
    <3>4. /\ init' = TRUE /\ mode' = NoMode /\ mp' = [i \in Pipes |-> NoPipe] /\ num' = 0
          /\ flag' = [t \in Kinds |-> FALSE]
      BY <2>1, <2>3 DEF Choose1
    <3>5. flag' \in [Kinds -> BOOLEAN]
      BY <3>4
    <3> QED BY <2>1, <3>2, <3>3, <3>4, <3>5 DEF Choose1, Types
  <2> QED BY <2>2, <2>3
<1>5. CASE \E m \in Modes : Choose3(m)
  <2>1. PICK m \in Modes : Choose3(m)
    BY <1>5
  <2>2. main' \in MainState
    BY <1>1, <1>3, <2>1, Zenon DEF Choose3
  <2> QED BY <2>1, <2>2 DEF Choose3, Types
<1>6. CASE Choose2
  BY <1>1, <1>6 DEF Choose2, Types
<1>7. CASE Choose4
  <2>1. main' \in MainState
    BY <1>2, <1>7 DEF Choose4, MainPcs
  <2>2. flag' \in [Kinds -> BOOLEAN]
    BY <1>7 DEF Choose4, Types
  <2> QED BY <1>7, <2>1, <2>2 DEF Choose4, Types
<1>8. CASE Lock
  <2>1. main' \in MainState
    BY <1>2, <1>8 DEF Lock, MainPcs
  <2> QED BY <1>8, <2>1 DEF Lock, Types
<1>9. CASE Resume
  <2>1. main' \in MainState
    <3>1. "menu" \in MainPcs
      BY DEF MainPcs
    <3> QED BY <1>9, <3>1, MainUpdates DEF Resume
  <2>2. late' \in [Kinds -> 0 .. 2]
    BY <1>9 DEF Resume
  <2> QED BY <1>9, <2>1, <2>2 DEF Resume, Types
<1>10. CASE Deinit
  <2>1. main' \in MainState
    BY <1>2, <1>10 DEF Deinit, MainPcs
  <2> QED BY <1>10, <2>1 DEF Deinit, Types
<1> QED BY <1>4, <1>5, <1>6, <1>7, <1>8, <1>9, <1>10 DEF Choose, Waits

(* Where a step of the menu's thread leads.                                 *)
LEMMA Moves ==
  ASSUME Types
  PROVE  /\ \A p \in MainPcs : Goto(p) => main'.pc = p
         /\ Fail => main'.pc = "failed"
         /\ Next4 => main'.pc \in {"start", "unlock"} \/ main'.pc = main.pc
<1>1. \A p \in MainPcs : Goto(p) => main'.pc = p
  BY MainUpdates
<1>2. Fail => main'.pc = "failed"
  <2>1. "failed" \in MainPcs
    BY DEF MainPcs
  <2> QED BY <2>1, MainUpdates
<1>3. Next4 => main'.pc \in {"start", "unlock"} \/ main'.pc = main.pc
  <2>1. CASE main.n = Len(Threads)
    BY <1>1, <2>1 DEF Next4, MainPcs
  <2>2. CASE main.n # Len(Threads)
    <3>1. Next4 => main' = [main EXCEPT !.n = main.n + 1]
      BY <2>2, Zenon DEF Next4
    <3> DEFINE r == main  n == main.n + 1
    <3>2. r \in MainState
      BY DEF Types
    <3> HIDE DEF r, n
    <3>3. [r EXCEPT !.n = n].pc = r.pc
      BY <3>2 DEF MainState
    <3>4. [main EXCEPT !.n = main.n + 1].pc = main.pc
      BY <3>3 DEF r, n
    <3> QED BY <3>1, <3>4
  <2> QED BY <2>1, <2>2
<1> QED BY <1>1, <1>2, <1>3

(* The steps of the menu's thread by what they do to the layout.            *)
Kept == mode' = mode /\ mp' = mp /\ num' = num
Initialises ==
  /\ main.pc = "menu" /\ ~init /\ main'.pc = "lock" /\ init'
  /\ mode' = NoMode /\ mp' = NoLayout /\ num' = 0
  /\ stale' = stale /\ th' = th /\ late' = late /\ isp' = isp
Copies ==
  /\ main.pc = "copy" /\ main'.pc = "clear" /\ init' = init
  /\ stale' = [t \in Kinds |-> 0] /\ th' = th /\ late' = late /\ isp' = isp
Arranges ==
  /\ \/ main.pc = "clear" /\ main'.pc = "mains" /\ mp' = NoLayout /\ num' = num
     \/ main.pc = "mains" /\ main'.pc = "subs" /\ mp' = WithMains(mode) /\ num' = num
     \/ main.pc = "subs" /\ main'.pc = "publish" /\ num' = num
        /\ mp' = WithSubs(mode, mp, Len(Mains(mode)))
     \/ main.pc = "publish" /\ main'.pc = "static" /\ mp' = mp /\ num' = MainCount(mode)
  /\ mode' = mode /\ init' = init
  /\ stale' = stale /\ th' = th /\ late' = late /\ isp' = isp
Passes ==
  /\ Kept /\ stale' = stale
  /\ main.pc \notin {"copy", "clear", "mains", "subs", "publish"}
  /\ main'.pc \notin {"clear", "mains", "subs", "publish"}
  /\ main'.pc \in {"static", "start", "unlock"} => main.pc \in {"static", "start", "unlock"}
  /\ main'.pc \in SettingPcs \union {"resume", "deinit", "menu"} =>
       init' /\ (init \/ main.pc \in SettingPcs \union {"resume"})
  /\ th' = th \/ (Creates /\ main.pc = "start")
  /\ \/ late' = late /\ (isp' = isp \/ isp')
     \/ late' = [t \in Kinds |-> 0]

LEMMA SetModeFlow ==
  ASSUME Types, Started, SetMode
  PROVE  Copies \/ Arranges \/ Passes
<1> USE Moves DEF Threading, layout, ghosts, MainPcs
<1>1. main.pc \in SettingPcs /\ init
  BY DEF SetMode, Check, Copy, Clear, FillMains, FillSubs, Arrange, Publish, SetStatic,
         StartThread, Unlock, Started, SettingPcs
<1>2. CASE Copy
  BY <1>2 DEF Copy, Copies
<1>3. CASE Clear \/ FillMains \/ FillSubs \/ Publish
  BY <1>3 DEF Clear, FillMains, FillSubs, Arrange, Publish, Arranges, NoLayout
<1>4. CASE Check
  BY <1>1, <1>4 DEF Check, Passes, Kept, SettingPcs
<1>5. CASE SetStatic
  <2>1. "start" \in MainPcs /\ 1 \in 1 .. 4
    OBVIOUS
  <2>2. [main EXCEPT !.pc = "start", !.n = 1].pc = "start"
    BY <2>1, MainUpdates
  <2>3. main'.pc \in {"start", "failed"}
    BY <1>5, <2>2 DEF SetStatic, Abandon
  <2> QED BY <1>1, <1>5, <2>3 DEF SetStatic, Passes, Kept, SettingPcs
<1>6. CASE StartThread
  <2>1. main'.pc \in {"start", "unlock", "failed"} /\ main.pc = "start"
    BY <1>6 DEF StartThread, Abandon
  <2>2. th' = th \/ Creates
    <3>1. main.n \in 1 .. 4
      BY DEF Types, MainState
    <3> QED BY <1>6, <3>1, FourThreads DEF StartThread, Creates
  <2> QED BY <1>1, <1>6, <2>1, <2>2 DEF StartThread, Passes, Kept, SettingPcs
<1>7. CASE Unlock
  <2>1. main'.pc = main.then /\ main.then \in {"menu", "resume"}
    <3> DEFINE q == Rest  p == main.then
    <3>1. q \in MainState /\ p \in MainPcs /\ p \in {"menu", "resume"}
      <4>1. "menu" \in MainPcs
        OBVIOUS
      <4> QED BY <4>1, MainUpdates DEF Types, MainState
    <3>2. main' = [q EXCEPT !.pc = p]
      BY <1>7, Zenon DEF Unlock
    <3> HIDE DEF q, p
    <3>3. [q EXCEPT !.pc = p].pc = p
      BY <3>1 DEF MainState
    <3>4. main'.pc = p /\ p \in {"menu", "resume"}
      BY <3>1, <3>2, <3>3
    <3> QED BY <3>4 DEF p
  <2> QED BY <1>1, <1>7, <2>1 DEF Unlock, Passes, Kept, SettingPcs
<1> QED BY <1>2, <1>3, <1>4, <1>5, <1>6, <1>7 DEF SetMode

LEMMA ChooseFlow ==
  ASSUME Types, Started, Choose \/ Waits
  PROVE  Initialises \/ Passes
<1> USE Moves DEF Threading, layout, ghosts, MainPcs
<1>1. \A m \in Modes, h \in {"menu", "resume"} :
        [main EXCEPT !.pc = "lock", !.arg = m, !.then = h].pc = "lock"
  <2> DEFINE r == main  p == "lock"
  <2>1. r \in MainState
    BY DEF Types
  <2>2. p \in MainPcs /\ Modes \subseteq AllModes
    BY DEF AllModes
  <2> HIDE DEF r, p
  <2>3. \A m \in Modes, h \in {"menu", "resume"} : [r EXCEPT !.pc = p, !.arg = m, !.then = h].pc = p
    BY <2>1, <2>2 DEF MainState
  <2> QED BY <2>3 DEF r, p
<1>2. Asked => main.pc = "menu"
  BY DEF Asked
<1>3. CASE \E m \in Modes : Choose1(m)
  <2>1. PICK m \in Modes : Choose1(m)
    BY <1>3
  <2>2. CASE init
    BY <1>2, <2>1, <2>2 DEF Choose1, Passes, Kept, SettingPcs
  <2>3. CASE ~init
    <3>1. main' = [main EXCEPT !.pc = "lock", !.arg = m, !.then = "menu"]
      BY <2>1, <2>3, Zenon DEF Choose1
    <3>2. main'.pc = "lock"
      BY <1>1, <3>1
    <3> QED BY <1>2, <2>1, <2>3, <3>2 DEF Choose1, Initialises, NoLayout
  <2> QED BY <2>2, <2>3
<1>4. CASE \E m \in Modes : Choose3(m)
  <2>1. PICK m \in Modes : Choose3(m)
    BY <1>4
  <2>2. IF init THEN main'.pc = "lock" ELSE main'.pc = "failed"
    <3>1. CASE init
      <4>1. main' = [main EXCEPT !.pc = "lock", !.arg = m, !.then = "resume"]
        BY <2>1, <3>1, Zenon DEF Choose3
      <4> QED BY <1>1, <3>1, <4>1
    <3>2. CASE ~init
      BY <2>1, <3>2 DEF Choose3
    <3> QED BY <3>1, <3>2
  <2> QED BY <1>2, <2>1, <2>2 DEF Choose3, Passes, Kept, SettingPcs
<1>5. CASE Choose2
  BY <1>2, <1>5 DEF Choose2, Passes, Kept, SettingPcs
<1>6. CASE Choose4
  BY <1>2, <1>6 DEF Choose4, Passes, Kept, SettingPcs
<1>7. CASE Lock
  BY <1>7 DEF Lock, Passes, Kept, SettingPcs, Started
<1>8. CASE Resume
  <2>1. main'.pc = "menu"
    <3>1. "menu" \in MainPcs
      OBVIOUS
    <3> QED BY <1>8, <3>1, MainUpdates DEF Resume
  <2> QED BY <1>8, <2>1 DEF Resume, Passes, Kept, SettingPcs, Started
<1>9. CASE Deinit
  BY <1>9 DEF Deinit, Passes, Kept, SettingPcs
<1> QED BY <1>3, <1>4, <1>5, <1>6, <1>7, <1>8, <1>9 DEF Choose, Waits

------------------------------------------------------------------------------
(* The layout.                                                              *)

LEMMA GoodPipes ==
  ASSUME Types, Arranged, ~Rearranged, NEW i \in Pipes, i < num
  PROVE  GoodPipe(i)
<1> DEFINE M == Mains(mode)  h == M[i + 1]
<1>1. mode \in AllModes /\ i < Len(M) /\ mp[i] = Laid(mode)[i]
  BY DEF Types, Arranged
<1>2. h \in Range(M)
  <2>1. M \in Seq(Pipes) /\ Len(M) \in 0 .. N
    BY <1>1, MainsFacts
  <2>2. i + 1 \in DOMAIN M
    BY <1>1, <2>1 DEF Pipes
  <2> QED BY <2>2 DEF Range
<1>3. mp[i] = [hdl |-> h, sub |-> Subs(mode, h)]
  BY <1>1, LaidPipes
<1>4. Range(Subs(mode, h)) \subseteq Enabled(mode)
  BY SubsFacts DEF Under
<1> HIDE DEF h, M
<1>5. mp[i].hdl = h /\ mp[i].sub = Subs(mode, h)
  BY <1>3
<1> QED BY <1>2, <1>4, <1>5 DEF GoodPipe, Good, M

LEMMA ArrangedThread ==
  ASSUME Types, Arranged, NEW t \in Kinds, Frame(t)
  PROVE  Arranged'
BY DEF Arranged, Frame, Rearranged, Laid, WithSubs, WithMains

LEMMA ArrangedMain ==
  ASSUME Types, Arranged, Initialises \/ Copies \/ Arranges \/ Passes
  PROVE  Arranged'
<1>1. CASE Initialises
  BY <1>1, NothingLaid DEF Initialises, Arranged, Rearranged, NoLayout
<1>2. CASE Copies
  BY <1>2 DEF Copies, Arranged, Rearranged
<1>3. CASE Arranges
  <2>1. CASE main.pc = "publish"
    BY <1>3, <2>1 DEF Arranges, Arranged, MainCount, Rearranged
  <2>2. CASE main.pc # "publish"
    BY <1>3, <2>2 DEF Arranges, Arranged, Rearranged, Laid
  <2> QED BY <2>1, <2>2
<1>4. CASE Passes
  BY <1>4 DEF Passes, Kept, Arranged, Rearranged
<1> QED BY <1>1, <1>2, <1>3, <1>4

LEMMA StartedMain ==
  ASSUME Types, Started, Initialises \/ Copies \/ Arranges \/ Passes
  PROVE  Started'
<1>1. CASE Initialises
  BY <1>1 DEF Initialises, Started
<1>2. CASE Copies \/ Arranges
  BY <1>2 DEF Copies, Arranges, Started, SettingPcs
<1>3. CASE Passes
  BY <1>3 DEF Passes, Started
<1> QED BY <1>1, <1>2, <1>3

------------------------------------------------------------------------------
(* The pause and the switch.                                                *)

(* Only a thread that had looked before the pause still writes, and then it *)
(* is no longer about to.                                                   *)
LateInv == \A t \in Kinds : late[t] <= 1 /\ (late[t] = 1 => isp /\ th[t].pc # "write")

(* A pair the mode does not have is written by the one call that was begun  *)
(* with it, as often as the call has written; once a thread has done so it  *)
(* takes pipes from the new layout.                                         *)
Behind(t) ==
  /\ stale[t] <= Writes(t)
  /\ InCall(t) => stale[t] <= th[t].k \/ <<th[t].pipe, th[t].idx>> \in Pairs(mode)
  /\ th[t].pc = "read" /\ stale[t] > 0 => th[t].pipe \in Good(mode)

StaleInv ==
  /\ main.pc \in {"clear", "mains", "subs", "publish", "static", "start", "unlock"} =>
       \A t \in Kinds : stale[t] = 0
  /\ \A t \in Kinds : Behind(t)

LEMMA LateThread ==
  ASSUME Types, LateInv, NEW t \in Kinds, Frame(t), Quiet(t) \/ Writing(t)
  PROVE  LateInv'
<1>1. isp' = isp /\ \A u \in Kinds : u # t => th'[u] = th[u]
  BY DEF Frame, Types
<1>2. CASE Quiet(t)
  BY <1>1, <1>2 DEF Quiet, Rests, Picks, Looks, Decides, LateInv
<1>3. CASE Writing(t)
  <2>1. late[t] = 0 /\ th'[t].pc # "write"
    BY <1>3 DEF Writing, Rests, Repeats, LateInv, Types
  <2>2. \A u \in Kinds : late'[u] = IF u = t /\ isp THEN 1 ELSE late[u]
    BY <1>3, <2>1 DEF Writing, Bump, Types
  <2> QED BY <1>1, <2>1, <2>2 DEF LateInv
<1> QED BY <1>2, <1>3

LEMMA LateMain ==
  ASSUME Types, Counts, LateInv, Initialises \/ Copies \/ Arranges \/ Passes
  PROVE  LateInv'
<1>1. th' = th \/ Creates
  BY DEF Initialises, Copies, Arranges, Passes
<1>2. \A t \in Kinds : th'[t] = th[t] \/ th'[t].pc = "top"
  BY <1>1, MainThreads
<1>3. \/ late' = late /\ (isp => isp')
      \/ late' = [t \in Kinds |-> 0]
  BY DEF Initialises, Copies, Arranges, Passes, Types
<1> QED BY <1>2, <1>3 DEF LateInv

LEMMA StaleThread ==
  ASSUME Types, Counts, Arranged, StaleInv, NEW t \in Kinds, Frame(t), Quiet(t) \/ Writing(t)
  PROVE  StaleInv'
<1>1. /\ main' = main /\ mode' = mode /\ \A u \in Kinds : u # t => th'[u] = th[u]
      /\ stale[t] \in Nat /\ th[t].k \in Nat
  BY DEF Frame, Types, ThreadState
<1>2. Writes(t) \in Nat /\ Writes(t) <= Interval /\ Interval \in Nat /\ \A u \in Kinds : Writes(u)' = Writes(u)
  BY IntervalAssumption DEF IntervalAssumption, Writes
<1>3. CASE Quiet(t)
  <2>1. Behind(t)'
    <3>1. CASE Rests(t)
      BY <1>1, <1>2, <1>3, <3>1 DEF Quiet, Rests, StaleInv, Behind, InCall
    <3>2. CASE Picks(t)
      <4>1. PICK i \in Pipes : i < num /\ th'[t].pipe \in {mp[i].hdl} \union Range(mp[i].sub)
        BY <3>2 DEF Picks
      <4>2. stale[t] > 0 => ~Rearranged
        BY DEF StaleInv, Rearranged
      <4>3. stale[t] > 0 => th'[t].pipe \in Good(mode)
        BY <4>1, <4>2, GoodPipes DEF GoodPipe
      <4> QED BY <1>1, <1>2, <1>3, <3>2, <4>3 DEF Quiet, Picks, StaleInv, Behind, InCall
    <3>3. CASE Looks(t)
      <4>1. stale[t] > 0 => <<th'[t].pipe, th'[t].idx>> \in Pairs(mode)
        BY <3>3 DEF Looks, StaleInv, Behind, Pairs, Good
      <4>2. stale'[t] = stale[t] /\ th'[t].k = 0 /\ th'[t].pc = "call" /\ stale[t] <= Writes(t)
        BY <1>3, <3>3 DEF Quiet, Looks, StaleInv, Behind
      <4>3. stale'[t] <= th'[t].k \/ <<th'[t].pipe, th'[t].idx>> \in Pairs(mode')
        BY <1>1, <4>1, <4>2
      <4> QED BY <1>2, <4>2, <4>3 DEF Behind, InCall
    <3>4. CASE Decides(t)
      BY <1>1, <1>2, <1>3, <3>4 DEF Quiet, Decides, StaleInv, Behind, InCall
    <3> QED BY <1>3, <3>1, <3>2, <3>3, <3>4 DEF Quiet
  <2>2. \A u \in Kinds : u # t => Behind(u)'
    BY <1>1, <1>2, <1>3 DEF Quiet, StaleInv, Behind, InCall
  <2> QED BY <1>1, <1>3, <2>1, <2>2 DEF Quiet, StaleInv
<1>4. CASE Writing(t)
  <2> DEFINE bad == ~Switching /\ <<th[t].pipe, th[t].idx>> \notin Pairs(mode)
  <2>1. stale' = Bump(stale, t, bad, Interval + 1)
    BY <1>4 DEF Writing
  <2>2. /\ \A u \in Kinds : u # t => stale'[u] = stale[u]
        /\ bad => stale'[t] <= stale[t] + 1
        /\ ~bad => stale'[t] = stale[t]
        /\ stale'[t] \in Nat
    BY <1>1, <2>1 DEF Bump, Types
  <2>3. th[t].k < Writes(t) /\ InCall(t)
    BY <1>4 DEF Counts, Writing, InCall
  <2>4. Behind(t)
    BY DEF StaleInv
  <2>5. bad => stale[t] <= th[t].k
    BY <2>3, <2>4 DEF Behind
  <2>6. stale'[t] <= Writes(t)
    BY <1>1, <1>2, <2>2, <2>3, <2>4, <2>5 DEF Behind
  <2>7. CASE Rests(t)
    <3>1. Behind(t)'
      BY <1>2, <2>6, <2>7 DEF Rests, Behind, InCall
    <3>2. \A u \in Kinds : u # t => Behind(u)'
      BY <1>1, <1>2, <2>2 DEF StaleInv, Behind, InCall
    <3>3. main.pc \in {"clear", "mains", "subs", "publish", "static", "start", "unlock"} => ~bad
      BY DEF Switching
    <3> QED BY <1>1, <2>2, <3>1, <3>2, <3>3 DEF StaleInv
  <2>8. CASE Repeats(t)
    <3>1. Behind(t)'
      <4>1. <<th'[t].pipe, th'[t].idx>> \in Pairs(mode) \/ stale'[t] <= th'[t].k
        BY <1>1, <2>2, <2>3, <2>4, <2>5, <2>8 DEF Repeats, Behind
      <4>2. <<th'[t].pipe, th'[t].idx>> \in Pairs(mode') \/ stale'[t] <= th'[t].k
        BY <1>1, <4>1
      <4>3. th'[t].pc = "call"
        BY <2>8 DEF Repeats
      <4> QED BY <1>2, <2>6, <4>2, <4>3 DEF Behind, InCall
    <3>2. \A u \in Kinds : u # t => Behind(u)'
      BY <1>1, <1>2, <2>2 DEF StaleInv, Behind, InCall
    <3>3. main.pc \in {"clear", "mains", "subs", "publish", "static", "start", "unlock"} => ~bad
      BY DEF Switching
    <3> QED BY <1>1, <2>2, <3>1, <3>2, <3>3 DEF StaleInv
  <2> QED BY <1>4, <2>7, <2>8 DEF Writing
<1> QED BY <1>3, <1>4

LEMMA StaleMain ==
  ASSUME Types, Counts, Started, StaleInv, Initialises \/ Copies \/ Arranges \/ Passes
  PROVE  StaleInv'
<1>1. \A t \in Kinds : Writes(t) \in Nat /\ Writes(t)' = Writes(t) /\ th[t].k \in Nat
  BY IntervalAssumption DEF IntervalAssumption, Writes, Types, ThreadState
<1>2. CASE Initialises
  <2>1. \A t \in Kinds : th[t].pc = "none" /\ stale[t] = 0
    BY <1>2 DEF Initialises, Started
  <2> QED BY <1>1, <1>2, <2>1 DEF Initialises, StaleInv, Behind, InCall
<1>3. CASE Copies
  BY <1>1, <1>3 DEF Copies, StaleInv, Behind, InCall
<1>4. CASE Arranges
  BY <1>1, <1>4 DEF Arranges, StaleInv, Behind, InCall
<1>5. CASE Passes
  <2>1. \A t \in Kinds : th'[t] = th[t] \/ (th'[t].pc = "top" /\ th'[t].k = 0)
    BY <1>5, MainThreads DEF Passes
  <2>2. \A t \in Kinds : Behind(t)'
    BY <1>1, <1>5, <2>1 DEF Passes, Kept, StaleInv, Behind, InCall
  <2> QED BY <1>5, <2>2 DEF Passes, StaleInv
<1> QED BY <1>2, <1>3, <1>4, <1>5

------------------------------------------------------------------------------
IInv == Types /\ Counts /\ Arranged /\ Started /\ LateInv /\ StaleInv

LEMMA InitInv == Init => IInv
<1> SUFFICES ASSUME Init PROVE IInv
  OBVIOUS
<1>1. Idle \in ThreadState /\ Idle.pc = "none" /\ Idle.k = 0
  BY ModeTypes DEF Idle, ThreadState, ThreadPcs
<1>2. NoMode \in AllModes /\ [i \in Pipes |-> NoPipe] \in Layouts
  BY ModeTypes, LayoutTypes
<1>3. \A t \in Kinds : Writes(t) \in Nat /\ Writes(t) > 0
  BY IntervalAssumption DEF IntervalAssumption, Writes
<1>4. main \in MainState /\ main.pc = "menu" /\ ~init /\ num = 0
  BY <1>2 DEF Init, MainState, MainPcs
<1>5. /\ th \in [Kinds -> ThreadState] /\ \A t \in Kinds : th[t].pc = "none" /\ th[t].k = 0
      /\ \A t \in Kinds : late[t] = 0 /\ stale[t] = 0
  BY <1>1 DEF Init
<1>6. Types
  <2>1. /\ flag \in [Kinds -> BOOLEAN] /\ late \in [Kinds -> 0 .. 2]
        /\ stale \in [Kinds -> 0 .. Interval + 1]
    BY IntervalAssumption DEF IntervalAssumption, Init
  <2>2. 0 \in 0 .. N
    BY NAssumption DEF NAssumption
  <2>3. mode \in AllModes /\ mp \in Layouts
    BY <1>2 DEF Init
  <2> QED BY <1>4, <1>5, <2>1, <2>2, <2>3 DEF Init, Types
<1>7. Counts /\ Started /\ LateInv /\ StaleInv
  BY <1>3, <1>4, <1>5 DEF Counts, InCall, Started, SettingPcs, LateInv, StaleInv, Behind
<1>8. Arranged
  BY <1>4, NothingLaid DEF Init, Arranged, Rearranged
<1> QED BY <1>6, <1>7, <1>8 DEF IInv

LEMMA StepInv == IInv /\ [Next]_vars => IInv'
<1> SUFFICES ASSUME IInv, [Next]_vars PROVE IInv'
  OBVIOUS
<1>1. Types /\ Counts /\ Arranged /\ Started /\ LateInv /\ StaleInv
  BY DEF IInv
<1>2. ASSUME NEW t \in Kinds, Thread(t) \/ (t = "luminance" /\ TakeLock)
      PROVE  IInv'
  <2>1. Frame(t) /\ (Quiet(t) \/ Writing(t)) /\ main.pc # "failed"
    BY <1>1, <1>2, ThreadStep DEF TakeLock, Thread, Top, Pick, ReadIndex, Call, Write, SetNr3d, SetRc, GiveLock, At
  <2>2. Types' /\ Counts'
    BY <1>1, <1>2, ThreadTypes
  <2>3. Started'
    <3>1. ~init /\ main.pc = "menu" => th[t].pc = "none"
      BY <1>1 DEF Started
    <3>2. th[t].pc # "none"
      BY <1>2 DEF TakeLock, Thread, Top, Pick, ReadIndex, Call, Write, SetNr3d, SetRc, GiveLock, At
    <3> QED BY <1>1, <2>1, <3>1, <3>2 DEF Started, Frame
  <2>4. Arranged' /\ LateInv' /\ StaleInv'
    BY <1>1, <2>1, ArrangedThread, LateThread, StaleThread
  <2> QED BY <2>2, <2>3, <2>4 DEF IInv
<1>3. CASE SetMode \/ Choose \/ Waits
  <2>1. Initialises \/ Copies \/ Arranges \/ Passes
    BY <1>1, <1>3, SetModeFlow, ChooseFlow
  <2>2. Types'
    <3>1. CASE SetMode
      <4>1. th' \in [Kinds -> ThreadState]
        BY <1>1, <3>1, SetModeTypes, MainThreads
      <4> QED BY <1>1, <3>1, <4>1, SetModeTypes DEF Types
    <3>2. CASE Choose \/ Waits
      BY <1>1, <3>2, ChooseTypes DEF Types
    <3> QED BY <1>3, <3>1, <3>2
  <2>3. Counts'
    <3>1. th' = th \/ Creates
      BY <2>1 DEF Initialises, Copies, Arranges, Passes
    <3> QED BY <1>1, <3>1, MainThreads
  <2>4. Arranged' /\ Started' /\ LateInv' /\ StaleInv'
    BY <1>1, <2>1, ArrangedMain, StartedMain, LateMain, StaleMain
  <2> QED BY <2>2, <2>3, <2>4 DEF IInv
<1>4. CASE UNCHANGED vars
  <2>1. UNCHANGED <<init, isp, lock, mode, mp, num, flag, th, main, late, raw, stale>>
    BY <1>4 DEF vars, layout, ghosts
  <2>2. Types' /\ Counts' /\ Started' /\ LateInv'
    BY <1>1, <2>1 DEF Types, Counts, InCall, Writes, Started, LateInv
  <2>3. Arranged' /\ StaleInv'
    BY <1>1, <2>1 DEF Arranged, Rearranged, StaleInv, Behind, InCall, Writes
  <2> QED BY <2>2, <2>3 DEF IInv
<1>5. CASE TakeLock
  BY <1>2, <1>5, FourThreads
<1> QED BY <1>2, <1>3, <1>4, <1>5 DEF Next

(* What is so in every state of the library and its threads.                *)
THEOREM SceneInvariant == Spec => []IInv
BY InitInv, StepInv, PTL DEF Spec

(* Every variable keeps to its type, for any configuration.                 *)
THEOREM SceneTypes == Spec => []TypeOK
<1>1. IInv => TypeOK
  BY FourThreads DEF IInv, Types, TypeOK, MainState, AllModes, MainPcs, ThreadState, ThreadPcs, Layouts
<1> QED BY <1>1, SceneInvariant, PTL

(* A thread writes at most once after the pause was set, in each pause and  *)
(* however the menu and the threads are scheduled.                          *)
THEOREM LateOnce == Spec => []OneLateWrite
<1>1. IInv => OneLateWrite
  BY DEF IInv, LateInv, OneLateWrite
<1> QED BY <1>1, SceneInvariant, PTL

(* A thread works with a pair of the mode before at most in the setter call *)
(* it was in when the mode was switched, for any modes and pipes.           *)
THEOREM StaleOnce == Spec => []OneStaleCall
<1>1. IInv => OneStaleCall
  BY DEF IInv, StaleInv, Behind, OneStaleCall, Writes
<1> QED BY <1>1, SceneInvariant, PTL

(* But while a call rearranges it, the layout is that of the mode: a main   *)
(* pipe for each that the mode names, and every enabled pipe at one place,  *)
(* under the main pipe it names, for any modes and any number of pipes.     *)
THEOREM LayoutKept == Spec => []LayoutFollowsMode
<1>1. ASSUME IInv, ~Rearranged
      PROVE  /\ num = Cardinality({mode.attr[p].main : p \in Enabled(mode)})
             /\ \A i \in Pipes : i >= num => mp[i] = NoPipe
             /\ \A p \in Pipes :
                  Cardinality({at \in Pipes \X (1 .. N) :
                                 at[2] <= Len(mp[at[1]].sub) /\ mp[at[1]].sub[at[2]] = p})
                    = (IF mode.attr[p].on THEN 1 ELSE 0)
             /\ \A i \in 0 .. num - 1 : \A p \in Range(mp[i].sub) : mode.attr[p].main = mp[i].hdl
  <2>1. /\ mode \in AllModes /\ mp = Laid(mode) /\ num = Len(Mains(mode))
        /\ num \in 0 .. N /\ N \in Nat
    BY <1>1, NAssumption DEF NAssumption, IInv, Types, Arranged
  <2>2. num = Cardinality({mode.attr[p].main : p \in Enabled(mode)})
    BY <2>1, MainsFacts DEF MainsOf
  <2>3. \A i \in Pipes : i >= num => mp[i] = NoPipe
    <3> SUFFICES ASSUME NEW i \in Pipes, i >= num PROVE mp[i] = NoPipe
      OBVIOUS
    <3>1. ~(i < num)
      BY <2>1 DEF Pipes
    <3> QED BY <2>1, <3>1, LaidPipes
  <2>4. \A p \in Pipes : Cardinality(Places(mode, p)) = IF mode.attr[p].on THEN 1 ELSE 0
    BY <2>1, OnePlace
  <2>5. ASSUME NEW i \in 0 .. num - 1, NEW p \in Range(mp[i].sub)
        PROVE  mode.attr[p].main = mp[i].hdl
    <3> DEFINE h == Mains(mode)[i + 1]
    <3>1. i \in Pipes /\ i < num
      BY <2>1 DEF Pipes
    <3>2. mp[i] = [hdl |-> h, sub |-> Subs(mode, h)]
      BY <2>1, <3>1, LaidPipes
    <3> HIDE DEF h
    <3>3. mp[i].hdl = h /\ mp[i].sub = Subs(mode, h)
      BY <3>2
    <3> QED BY <2>5, <3>3, SubsFacts DEF Under
  <2> QED BY <2>1, <2>2, <2>3, <2>4, <2>5 DEF Places
<1>2. IInv => LayoutFollowsMode
  BY <1>1 DEF LayoutFollowsMode, Rearranged
<1> QED BY <1>2, SceneInvariant, PTL
=============================================================================
