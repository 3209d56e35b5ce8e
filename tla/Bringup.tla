------------------------------- MODULE Bringup -------------------------------
(***************************************************************************)
(* One program of the repository run from its first call to its last, with *)
(* calls that fail: every start function, the rollback behind its goto      *)
(* labels, and the stop functions.  The programs are data (the Scripts      *)
(* modules say what each of them is); this module says how C runs them, and *)
(* that a thread the program started may end by itself beside it.           *)
(***************************************************************************)
EXTENDS Integers, Sequences, FiniteSets

CONSTANTS Programs,    \* records with the name of a program, its steps (code), and what may go
                       \* wrong in it: the kinds it may leave behind when a call of it fails
                       \* (leaks) or even when none does (forgets), and those it may then give
                       \* back without holding them (twice)
          Resources,   \* what can be held: channels, buffers, threads, files
          Local,       \* kinds whose release cannot fail: memory, files and threads
          Fragile,     \* kinds that must not be given back twice
          Inside(_),   \* Inside(r): the resource r is part of, or r itself
          Owns(_),     \* Owns(t): what the thread t gives up when it ends, in this order
          MaxFaults    \* how many calls may fail and threads end by themselves in one run

VARIABLES prog,    \* the program that runs
          pos,     \* the step of it that comes next, or that failed
          undo,    \* 0, or the step of its rollback that comes next
          held,    \* the resources obtained and not given back
          lost,    \* the resources whose release failed
          ending,  \* threads that are ending by themselves: <<thread, what it gives up next>>
          faults   \* calls that failed and threads that ended so far

vars == <<prog, pos, undo, held, lost, ending, faults>>

Script  == prog.code
Ended   == pos = Len(Script) + 1
Failed  == undo # 0
Now     == IF Failed THEN Script[pos].on[undo] ELSE Script[pos]
Running == ~Ended /\ (Failed => undo <= Len(Script[pos].on))

\* Where the program goes on when step i failed and its rollback is over.
Resume(i) == IF Script[i].next = 0 THEN Len(Script) + 1 ELSE i + Script[i].next

Go(n) == IF Failed THEN undo' = undo + n /\ UNCHANGED pos
                   ELSE pos' = pos + n /\ UNCHANGED undo

------------------------------------------------------------------------------
Init ==
  /\ prog \in Programs
  /\ pos = 1 /\ undo = 0
  /\ held = {} /\ lost = {} /\ ending = {} /\ faults = 0

Obtain ==
  /\ Running /\ Now.op \in {"get", "note"}
  /\ held' = held \cup {Now.res}
  /\ lost' = lost \ {Now.res}
  /\ Go(1)
  /\ UNCHANGED <<prog, ending, faults>>

Configure ==
  /\ Running /\ Now.op = "try"
  /\ Go(1)
  /\ UNCHANGED <<prog, held, lost, ending, faults>>

\* A thread that is joined has ended, and given up all it owns.
Joined == IF Now.res \in held THEN {Owns(Now.res)[k] : k \in DOMAIN Owns(Now.res)} ELSE {}

Release ==
  /\ Running /\ Now.op = "free"
  /\ held' = held \ ({Now.res} \cup Joined)
  /\ lost' = lost \ ({Now.res} \cup Joined)
  /\ ending' = {e \in ending : e[1] # Now.res}
  /\ Go(1)
  /\ UNCHANGED <<prog, faults>>

Branch ==
  /\ Running /\ Now.op = "ask"
  /\ Go(IF Now.res \in held THEN 1 ELSE Now.next)
  /\ UNCHANGED <<prog, held, lost, ending, faults>>

\* A call that starts something fails: its rollback begins.
StartFails ==
  /\ Running /\ ~Failed /\ Now.op \in {"get", "try"} /\ faults < MaxFaults
  /\ undo' = 1
  /\ faults' = faults + 1
  /\ UNCHANGED <<prog, pos, held, lost, ending>>

\* A call that stops something fails: the resource stays.
StopFails ==
  /\ Running /\ Now.op = "free" /\ faults < MaxFaults
  /\ Now.res \in held /\ Now.res[1] \notin Local
  /\ lost' = lost \cup {Now.res}
  /\ Go(Now.next)
  /\ faults' = faults + 1
  /\ UNCHANGED <<prog, held, ending>>

RollbackEnds ==
  /\ Failed /\ ~Running
  /\ pos' = Resume(pos)
  /\ undo' = 0
  /\ UNCHANGED <<prog, held, lost, ending, faults>>

\* A thread leaves its loop though nobody told it to, while the program goes on.  Threads that
\* have not come to their loop yet, and those that were told to end, are with the program's steps.
ThreadBreaks ==
  /\ faults < MaxFaults
  /\ \E t \in held :
       /\ Owns(t) # <<>> /\ \A k \in DOMAIN Owns(t) : Owns(t)[k] \in held
       /\ \A e \in ending : e[1] # t
       /\ ending' = ending \cup {<<t, 1>>}
  /\ faults' = faults + 1
  /\ UNCHANGED <<prog, pos, undo, held, lost>>

ThreadGivesUp ==
  /\ \E e \in ending :
       /\ e[2] <= Len(Owns(e[1]))
       /\ held' = held \ {Owns(e[1])[e[2]]}
       /\ lost' = lost \ {Owns(e[1])[e[2]]}
       /\ ending' = (ending \ {e}) \cup {<<e[1], e[2] + 1>>}
  /\ UNCHANGED <<prog, pos, undo, faults>>

Next == Obtain \/ Configure \/ Release \/ Branch \/ StartFails \/ StopFails \/ RollbackEnds
        \/ ThreadBreaks \/ ThreadGivesUp

Spec == Init /\ [][Next]_vars

------------------------------------------------------------------------------
TypeOK ==
  /\ prog \in Programs
  /\ pos \in 1..(Len(Script) + 1)
  /\ undo \in Nat /\ (Failed => pos <= Len(Script) /\ undo <= Len(Script[pos].on) + 1)
  /\ held \subseteq Resources /\ lost \subseteq held
  /\ \A e \in ending : e[2] \in 1..(Len(Owns(e[1])) + 1)
  /\ faults \in 0..MaxFaults

Excused ==
  lost \cup {r \in held : r[1] \in prog.forgets \/ (faults > 0 /\ r[1] \in prog.leaks)}

\* A program that ends, whichever of its calls failed and wherever, has given back all it
\* obtained: the goto labels of its start functions and its stop functions together miss
\* nothing but what its leaks name, and its forgets when every call succeeds.
NothingLeft == Ended => held \subseteq Excused

\* Nothing is created, mapped, opened or started a second time: a retry, a mode switch or
\* the next route of a program finds what the one before it had taken down.
GetsOnce == Running /\ Now.op = "get" => Now.res \notin held \ Excused

\* Memory, files, threads and frames are given back once: no rollback frees what was not
\* obtained yet, what the function it called had freed already, or what a thread that ended
\* by itself gave up; nor does such a thread give up what its owner has taken from it.
FreesOnlyHeld ==
  /\ Running /\ Now.op = "free" /\ Now.res[1] \in Fragile =>
       Now.res \in held \/ (faults > 0 /\ Now.res[1] \in prog.twice)
  /\ \A e \in ending : e[2] <= Len(Owns(e[1])) /\ Owns(e[1])[e[2]][1] \in Fragile =>
       Owns(e[1])[e[2]] \in held

\* A part never outlives the whole: a channel is held only while its group, device or
\* pipe is, in every start, rollback and stop order.
NothingDangles == \A r \in held \ Excused : Inside(r) \in held
==============================================================================
