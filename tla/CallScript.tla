----------------------------- MODULE CallScript -----------------------------
(***************************************************************************)
(* The notation in which the Scripts modules write down the start, rollback *)
(* and stop functions of the repository.  A function is a sequence of       *)
(* steps, one per call of the media library (MPI), of the C library or of   *)
(* pthread_create/join that can be told apart:                              *)
(*   get   obtains a resource, or fails;                                    *)
(*   try   obtains nothing (attributes are set), or fails;                  *)
(*   free  gives a resource back, or fails and keeps it;                    *)
(*   note  sets a flag of the program's own, which cannot fail;             *)
(*   ask   looks at such a flag, and skips what it guards if it is not set. *)
(* "on" is what the code runs when the step fails (the statements after its *)
(* goto label); "next" says where it goes on then: that many steps further, *)
(* 0 for leaving every function on the stack.  A resource is <<kind, index>>.*)
(* Calls are inlined: Do(f, on) is the sequence of f, every failure of      *)
(* which goes on with the caller's own rollback.                            *)
(* A start function and the stop function next to it are one definition, a  *)
(* rung with the name of the start function: f.up is the start function,    *)
(* f.down the stop function.  A helper with one caller is local to it.      *)
(***************************************************************************)
EXTENDS Integers, Sequences

LOCAL INSTANCE SequencesExt


None == <<"none", 0>>

Step(op, res, on, next) == [op |-> op, res |-> res, on |-> on, next |-> next]

Get(kind, i, on) == <<Step("get", <<kind, i>>, on, 0)>>
Try(on)          == <<Step("try", None, on, 0)>>
Free(kind, i)    == <<Step("free", <<kind, i>>, <<>>, 1)>>
Note(kind, i)    == <<Step("note", <<kind, i>>, <<>>, 1)>>

\* if (flag) f();
IfHeld(kind, i, f) == <<Step("ask", <<kind, i>>, <<>>, Len(f) + 1)>> \o f

\* ret = f(); if (ret != TD_SUCCESS) { on; return ret; }
Do(f, on) ==
  [i \in DOMAIN f |-> IF f[i].next = 0 THEN [f[i] EXCEPT !.on = @ \o on] ELSE f[i]]

\* f(), its result ignored: the caller goes on behind it.
Lax(f) ==
  [i \in DOMAIN f |-> IF f[i].next = 0 THEN [f[i] EXCEPT !.next = Len(f) - i + 1]
                                       ELSE f[i]]

\* A stop function that returns at the first release that fails.
Strict(f) ==
  [i \in DOMAIN f |-> IF f[i].op = "free" THEN [f[i] EXCEPT !.next = Len(f) - i + 1] ELSE f[i]]

\* if (free() != TD_SUCCESS) return; rest: the rest only runs if the release succeeds.
IfFreed(kind, i, rest) == <<[Free(kind, i)[1] EXCEPT !.next = Len(rest) + 1]>> \o rest

\* if (f() != TD_SUCCESS) continue; rest: a failure skips the rest of this round.
OrSkip(f, rest) ==
  [i \in DOMAIN f |-> IF f[i].next = 0 THEN [f[i] EXCEPT !.next = Len(f) - i + 1 + Len(rest)]
                                       ELSE f[i]] \o rest

When(cond, f) == IF cond THEN f ELSE <<>>

\* for (i = 0; i < n; i++) f(i)
Each(n, F(_)) == FlattenSeq([i \in 1..n |-> F(i - 1)])

\* for (i = n - 1; i >= 0; i--) f(i)
EachBack(n, F(_)) == FlattenSeq([i \in 1..n |-> F(n - i)])

\* The same loop with the usual rollback: those before i are undone, last first.
EachOrUndo(n, Start(_), Stop(_)) ==
  FlattenSeq([i \in 1..n |-> Do(Start(i - 1), EachBack(i - 1, Stop))])

(***************************************************************************)
(* The goto ladder most functions are written as: each rung has the call    *)
(* that starts a part and the one that stops it, and the labels at the end  *)
(* stop the parts started so far, last first.                               *)
(***************************************************************************)
Rung(up, down) == [up |-> up, down |-> down]

DownFrom(rungs, n) == FlattenSeq([j \in 1..n |-> rungs[n + 1 - j].down])
Up(rungs)          == FlattenSeq([k \in DOMAIN rungs |-> Do(rungs[k].up, DownFrom(rungs, k - 1))])
Down(rungs)        == DownFrom(rungs, Len(rungs))

\* A whole program: up, then (a key having been pressed) down again.
Ladder(rungs) == Up(rungs) \o Down(rungs)

\* A program with what is known to go wrong in it when a call fails: the kinds it leaves
\* behind (leaks) and gives back twice (twice); forgets is left behind even without.
Program(code, leaks) == [code |-> code, leaks |-> leaks, forgets |-> {}, twice |-> {}]
Flawed(code, leaks, forgets, twice) ==
  [code |-> code, leaks |-> leaks, forgets |-> forgets, twice |-> twice]
=============================================================================
