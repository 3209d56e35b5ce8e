---------------------------- MODULE BringupFlow ----------------------------
(***************************************************************************)
(* What a program may hold in front of each of its steps, and what it holds *)
(* there in any case, given as tables and not as behaviours: a program      *)
(* whose tables agree with its steps gives back what it must, once and in   *)
(* order, however many of its calls fail (Bringup_proofs).                  *)
(***************************************************************************)
EXTENDS Bringup

CONSTANTS Certified,   \* the programs that have such a table
          Bound(_),    \* Bound(p).main[i]: what p may hold in front of its step i;
                       \* Bound(p).undo[i][k]: in front of step k of the rollback of step i
          Straight(_), \* what p holds in front of the steps it comes by when nothing fails
          Guarded,     \* those that have a table of what they surely hold, too
          Sure(_)      \* that table, with the places of Bound

\* The table m covers every way through the steps of seq, and nothing that it has
\* in front of a step is obtained there again, but for the kinds in ok.
Flows(seq, m, ok) ==
  /\ Len(seq) \in Nat
  /\ \A i \in 1..Len(seq) :
       /\ seq[i].op \in {"get", "note"} => m[i] \cup {seq[i].res} \subseteq m[i + 1]
       /\ seq[i].op = "try" => m[i] \subseteq m[i + 1]
       /\ seq[i].op = "free" =>
            /\ m[i] \ {seq[i].res} \subseteq m[i + 1]
            /\ i + seq[i].next \in 1..(Len(seq) + 1)
            /\ m[i] \ {seq[i].res} \subseteq m[i + seq[i].next]
       /\ seq[i].op = "ask" =>
            /\ m[i] \subseteq m[i + 1]
            /\ i + seq[i].next \in 1..(Len(seq) + 1)
            /\ m[i] \ {seq[i].res} \subseteq m[i + seq[i].next]
       /\ seq[i].op = "get" /\ seq[i].res \in m[i] => seq[i].res[1] \in ok
       /\ seq[i].next \in Nat

\* A rollback starts with what its step started with, and hands over to where the program goes on.
Returns(p, b) ==
  \A i \in 1..Len(p.code) : p.code[i].op \in {"get", "try"} =>
    LET s == p.code[i]
        n == IF s.next = 0 THEN Len(p.code) + 1 ELSE i + s.next
    IN /\ b.main[i] \subseteq b.undo[i][1]
       /\ Flows(s.on, b.undo[i], p.leaks \cup p.forgets)
       /\ n \in 1..(Len(p.code) + 1)
       /\ b.undo[i][Len(s.on) + 1] \subseteq b.main[n]

\* Where step s at place i goes on when it does not fail, and what is held then.
Onward(s, i, H) == IF s.op = "ask" /\ s.res \notin H THEN i + s.next ELSE i + 1
OwnedBy(t)      == {Owns(t)[k] : k \in DOMAIN Owns(t)}
GoneWith(t, H)  == IF t \in H THEN OwnedBy(t) ELSE {}
After(s, H) ==
  CASE s.op \in {"get", "note"} -> H \cup {s.res}
    [] s.op = "free"            -> H \ ({s.res} \cup GoneWith(s.res, H))
    [] OTHER                    -> H

\* The one way through the program on which nothing fails.
GoesStraight(p, f) ==
  /\ 1 \in DOMAIN f /\ f[1] = {}
  /\ \A i \in DOMAIN f \cap (1..Len(p.code)) :
       /\ Onward(p.code[i], i, f[i]) \in DOMAIN f
       /\ f[Onward(p.code[i], i, f[i])] = After(p.code[i], f[i])
       /\ p.code[i].op = "get" /\ p.code[i].res \in f[i] => p.code[i].res[1] \in p.forgets
  /\ Len(p.code) + 1 \in DOMAIN f => \A r \in f[Len(p.code) + 1] : r[1] \in p.forgets

Covers(p, b) ==
  /\ Flows(p.code, b.main, p.leaks \cup p.forgets)
  /\ Returns(p, b)
  /\ \A r \in b.main[Len(p.code) + 1] : r[1] \in p.leaks \cup p.forgets

ASSUME CertifiedAssumption ==
  \A p \in Certified : Covers(p, Bound(p)) /\ GoesStraight(p, Straight(p))

------------------------------------------------------------------------------
\* What the threads in H may give up at any time.
Taken(H) == UNION {OwnedBy(t) : t \in H}

\* Threads can be joined for sure, share nothing of what they give up, and nothing
\* else is part of it.
Orderly(H) ==
  LET T == {t \in H : Owns(t) # <<>>} IN
  /\ \A t \in T :
       /\ t[1] \in Local /\ t \notin Taken(H)
       /\ Len(Owns(t)) \in Nat /\ DOMAIN Owns(t) = 1..Len(Owns(t))
       /\ \A k, l \in DOMAIN Owns(t) : Owns(t)[k] = Owns(t)[l] => k = l
       /\ \A u \in T : u # t => OwnedBy(t) \cap OwnedBy(u) = {}
  /\ \A r \in H : Inside(r) \in Taken(H) => Inside(r) = r

\* The table a names what is held on every way to each step of seq, of which no
\* thread can take anything away.
Assures(seq, a, m) ==
  /\ \A i \in 1..Len(seq) :
       /\ seq[i].op \in {"get", "note", "ask"} => a[i + 1] \subseteq a[i] \cup {seq[i].res}
       /\ seq[i].op = "try" => a[i + 1] \subseteq a[i]
       /\ seq[i].op = "ask" => a[i + seq[i].next] \subseteq a[i]
       /\ seq[i].op = "free" =>
            a[i + 1] \cup a[i + seq[i].next] \subseteq
              a[i] \ ({seq[i].res} \cup OwnedBy(seq[i].res))
  /\ \A i \in 1..(Len(seq) + 1) : Orderly(m[i]) /\ a[i] \cap Taken(m[i]) = {}

\* A part is obtained in its whole and the whole is given back behind its parts, but for
\* the kinds in ok; what must be given back once is held then, but for the kinds in twice.
Proper(seq, a, m, ok, twice) ==
  \A i \in 1..Len(seq) :
    /\ seq[i].op \in {"get", "note"} =>
         Inside(seq[i].res) \in a[i] \cup {seq[i].res} \/ seq[i].res[1] \in ok
    /\ seq[i].op = "free" =>
         \A r \in m[i] : Inside(r) = seq[i].res /\ r # seq[i].res => r[1] \in ok
    /\ seq[i].op = "free" /\ seq[i].res[1] \in Fragile =>
         /\ seq[i].res \in a[i] \/ seq[i].res[1] \in twice
         /\ seq[i].res \notin Taken(m[i])

Guards(p, a, b) ==
  LET ok == p.leaks \cup p.forgets IN
  /\ a.main[1] = {}
  /\ Assures(p.code, a.main, b.main) /\ Proper(p.code, a.main, b.main, ok, p.twice)
  /\ \A i \in 1..Len(p.code) : p.code[i].op \in {"get", "try"} =>
       LET s == p.code[i]
           n == IF s.next = 0 THEN Len(p.code) + 1 ELSE i + s.next
       IN /\ a.undo[i][1] \subseteq a.main[i]
          /\ Assures(s.on, a.undo[i], b.undo[i]) /\ Proper(s.on, a.undo[i], b.undo[i], ok, p.twice)
          /\ a.main[n] \subseteq a.undo[i][Len(s.on) + 1]

\* The same on the way on which nothing fails, where leaks and twice excuse nothing.
StraightProper(p, f) ==
  \A i \in DOMAIN f :
    /\ \A r \in f[i] : Inside(r) \in f[i] \/ r[1] \in p.forgets
    /\ i \in 1..Len(p.code) /\ p.code[i].op = "free" /\ p.code[i].res[1] \in Fragile =>
         p.code[i].res \in f[i]

ASSUME GuardedAssumption ==
  /\ Guarded \subseteq Certified
  /\ \A p \in Guarded : Guards(p, Sure(p), Bound(p)) /\ StraightProper(p, Straight(p))
=============================================================================
