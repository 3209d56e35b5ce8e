--------------------------- MODULE Bringup_proofs ---------------------------
(***************************************************************************)
(* Programs whose table of BringupFlow agrees with their steps end with      *)
(* nothing left, and obtain nothing twice, however many of their calls fail. *)
(* Those that have a table of what they surely hold as well give back only   *)
(* what they hold, and the parts of a thing before the thing itself.         *)
(***************************************************************************)
EXTENDS BringupFlow, TLAPS

\* The sequence the program is in, where it is in it, and the table that goes with it.
Code  == IF Failed THEN Script[pos].on ELSE Script
At    == IF Failed THEN undo ELSE pos
Table == IF Failed THEN Bound(prog).undo[pos] ELSE Bound(prog).main

Places ==
  /\ pos \in 1..(Len(Script) + 1)
  /\ undo \in Nat
  /\ Failed => /\ pos \in 1..Len(Script) /\ Script[pos].op \in {"get", "try"}
               /\ undo \in 1..(Len(Script[pos].on) + 1)

\* While nothing has failed the program is on its straight way, and holds what is on it.
OnTrack ==
  faults = 0 => /\ undo = 0 /\ lost = {} /\ ending = {}
                /\ pos \in DOMAIN Straight(prog) /\ held = Straight(prog)[pos]

Kept == Places /\ held \ lost \subseteq Table[At] /\ OnTrack

FlowInv ==
  /\ faults \in Nat
  /\ prog \in Certified => Kept

\* The table that goes with the sequence a program is in covers it.
LEMMA TableFlows ==
  ASSUME prog \in Certified, Places
  PROVE  /\ Flows(Code, Table, prog.leaks \cup prog.forgets)
         /\ Len(Code) \in Nat
         /\ At \in 1..(Len(Code) + 1)
         /\ Running <=> At \in 1..Len(Code)
         /\ Running => Now = Code[At]
<1>1. Covers(prog, Bound(prog))
  BY CertifiedAssumption
<1>2. Flows(Script, Bound(prog).main, prog.leaks \cup prog.forgets) /\ Len(Script) \in Nat
  BY <1>1 DEF Covers, Script, Flows
<1>3. CASE Failed
  <2>1. Flows(Script[pos].on, Bound(prog).undo[pos], prog.leaks \cup prog.forgets)
    BY <1>1, <1>3 DEF Covers, Returns, Places, Script
  <2>2. Len(Script[pos].on) \in Nat
    BY <2>1 DEF Flows
  <2> QED
    BY <1>2, <1>3, <2>1, <2>2 DEF Code, At, Table, Places, Running, Ended, Now, Failed
<1>4. CASE ~Failed
  BY <1>2, <1>4 DEF Code, At, Table, Places, Running, Ended, Now, Failed
<1> QED
  BY <1>3, <1>4

\* A step forward by n within the sequence.
LEMMA GoesOn ==
  ASSUME prog \in Certified, Places, Running, NEW n \in Nat, Go(n), prog' = prog,
         At + n \in 1..(Len(Code) + 1)
  PROVE  Places' /\ Code' = Code /\ Table' = Table /\ At' = At + n /\ (Failed' <=> Failed)
<1>1. CASE Failed
  <2>1. At = undo /\ undo' = undo + n /\ pos' = pos /\ Code = Script[pos].on
    BY <1>1 DEF At, Go, Code
  <2>2. undo \in 1..(Len(Script[pos].on) + 1) /\ Script' = Script
    BY <1>1 DEF Places, Script
  <2>3. undo' \in 1..(Len(Script[pos].on) + 1)
    BY <2>1
  <2>4. Failed' /\ undo' \in Nat
    BY <2>2, <2>3, <2>1 DEF Failed
  <2> QED
    BY <1>1, <2>1, <2>2, <2>3, <2>4 DEF Places, Code, Table, At, Script
<1>2. CASE ~Failed
  BY <1>2 DEF Places, Code, Table, At, Script, Go, Failed
<1> QED
  BY <1>1, <1>2

\* Where nothing has failed, the next step is one of the straight way.
LEMMA StraightStep ==
  ASSUME prog \in Certified, Places, OnTrack, faults = 0, Running
  PROVE  /\ ~Failed /\ Now = Script[pos]
         /\ Onward(Now, pos, held) \in DOMAIN Straight(prog)
         /\ Straight(prog)[Onward(Now, pos, held)] = After(Now, held)
         /\ Now.op = "get" /\ Now.res \in held => Now.res[1] \in prog.forgets
<1>1. GoesStraight(prog, Straight(prog))
  BY CertifiedAssumption
<1>2. undo = 0 /\ pos \in DOMAIN Straight(prog) /\ held = Straight(prog)[pos]
  BY DEF OnTrack
<1>3. ~Failed /\ Now = Script[pos] /\ pos \in 1..Len(Script)
  BY <1>2, TableFlows DEF Failed, Code, At, Now
<1>4. pos \in DOMAIN Straight(prog) \cap (1..Len(prog.code))
  BY <1>2, <1>3 DEF Script
<1> QED
  BY <1>1, <1>2, <1>3, <1>4 DEF GoesStraight, Script

LEMMA FlowInit == Init => FlowInv
<1> SUFFICES ASSUME Init, prog \in Certified
             PROVE  Kept
  BY DEF Init, FlowInv
<1> USE DEF Init
<1>1. Covers(prog, Bound(prog)) /\ GoesStraight(prog, Straight(prog))
  BY CertifiedAssumption
<1>2. Len(Script) \in Nat
  BY <1>1 DEF Covers, Flows, Script
<1>3. Places
  BY <1>2 DEF Places, Failed
<1>4. OnTrack
  BY <1>1 DEF OnTrack, GoesStraight
<1> QED
  BY <1>3, <1>4 DEF Kept

\* One step for each action: where the program is, what it holds, and its straight way.
LEMMA FlowStep == FlowInv /\ [Next]_vars => FlowInv'
<1> SUFFICES ASSUME FlowInv, [Next]_vars
             PROVE  FlowInv'
  OBVIOUS
<1>1. prog' = prog /\ faults' \in Nat
  BY DEF FlowInv, Next, vars, Obtain, Configure, Release, Branch, StartFails, StopFails,
         RollbackEnds, ThreadBreaks, ThreadGivesUp
<1> SUFFICES ASSUME prog \in Certified
             PROVE  Kept'
  BY <1>1 DEF FlowInv
<1>2. Places /\ held \ lost \subseteq Table[At] /\ OnTrack /\ faults \in Nat
  BY DEF FlowInv, Kept
<1>3. /\ Flows(Code, Table, prog.leaks \cup prog.forgets)
      /\ Len(Code) \in Nat
      /\ At \in 1..(Len(Code) + 1)
      /\ Running <=> At \in 1..Len(Code)
      /\ Running => Now = Code[At]
  BY <1>2, TableFlows
<1>4. CASE Obtain
  <2>1. Places' /\ Code' = Code /\ Table' = Table /\ At' = At + 1 /\ (Failed' <=> Failed)
    BY <1>1, <1>2, <1>3, <1>4, GoesOn DEF Obtain
  <2>2. Table[At] \cup {Now.res} \subseteq Table[At + 1]
    BY <1>3, <1>4 DEF Obtain, Flows
  <2>3. (held \ lost)' \subseteq (Table[At])'
    BY <1>2, <1>4, <2>1, <2>2 DEF Obtain
  <2>4. OnTrack'
    <3> SUFFICES ASSUME faults' = 0
                 PROVE  /\ undo' = 0 /\ lost' = {} /\ ending' = {}
                        /\ pos' \in DOMAIN Straight(prog) /\ held' = Straight(prog)[pos']
      BY <1>1 DEF OnTrack
    <3>1. faults = 0 /\ ~Failed
      BY <1>2, <1>4 DEF Obtain, OnTrack, Failed
    <3> QED
      BY <1>2, <1>4, <3>1, StraightStep DEF Obtain, Go, OnTrack, Onward, After
  <2> QED
    BY <2>1, <2>3, <2>4 DEF Kept
<1>5. CASE Configure
  <2>1. Places' /\ Code' = Code /\ Table' = Table /\ At' = At + 1 /\ (Failed' <=> Failed)
    BY <1>1, <1>2, <1>3, <1>5, GoesOn DEF Configure
  <2>2. (held \ lost)' \subseteq (Table[At])'
    BY <1>2, <1>3, <1>5, <2>1 DEF Configure, Flows
  <2>3. OnTrack'
    <3> SUFFICES ASSUME faults' = 0
                 PROVE  /\ undo' = 0 /\ lost' = {} /\ ending' = {}
                        /\ pos' \in DOMAIN Straight(prog) /\ held' = Straight(prog)[pos']
      BY <1>1 DEF OnTrack
    <3>1. faults = 0 /\ ~Failed
      BY <1>2, <1>5 DEF Configure, OnTrack, Failed
    <3> QED
      BY <1>2, <1>5, <3>1, StraightStep DEF Configure, Go, OnTrack, Onward, After
  <2> QED
    BY <2>1, <2>2, <2>3 DEF Kept
<1>6. CASE Release
  <2>1. Places' /\ Code' = Code /\ Table' = Table /\ At' = At + 1 /\ (Failed' <=> Failed)
    BY <1>1, <1>2, <1>3, <1>6, GoesOn DEF Release
  <2>2. Table[At] \ {Now.res} \subseteq Table[At + 1]
    BY <1>3, <1>6 DEF Release, Flows
  <2>3. (held \ lost)' \subseteq (Table[At])'
    BY <1>2, <1>6, <2>1, <2>2 DEF Release
  <2>4. OnTrack'
    <3> SUFFICES ASSUME faults' = 0
                 PROVE  /\ undo' = 0 /\ lost' = {} /\ ending' = {}
                        /\ pos' \in DOMAIN Straight(prog) /\ held' = Straight(prog)[pos']
      BY <1>1 DEF OnTrack
    <3>1. faults = 0 /\ ~Failed /\ lost = {} /\ ending = {}
      BY <1>2, <1>6 DEF Release, OnTrack, Failed
    <3>2. lost' = {} /\ ending' = {}
      BY <1>6, <3>1 DEF Release
    <3> QED
      BY <1>2, <1>6, <3>1, <3>2, StraightStep
         DEF Release, Joined, Go, OnTrack, Onward, After, GoneWith, OwnedBy
  <2> QED
    BY <2>1, <2>3, <2>4 DEF Kept
<1>7. CASE Branch
  <2> DEFINE n == IF Now.res \in held THEN 1 ELSE Now.next
  <2>1. n \in Nat /\ At + n \in 1..(Len(Code) + 1)
    BY <1>3, <1>7 DEF Branch, Flows
  <2>2. Places' /\ Code' = Code /\ Table' = Table /\ At' = At + n /\ (Failed' <=> Failed)
    BY <1>1, <1>2, <1>7, <2>1, GoesOn DEF Branch
  <2>3. IF Now.res \in held THEN Table[At] \subseteq Table[At + n]
                            ELSE Table[At] \ {Now.res} \subseteq Table[At + n]
    BY <1>3, <1>7 DEF Branch, Flows
  <2>4. (held \ lost)' \subseteq (Table[At])'
    BY <1>2, <1>7, <2>2, <2>3 DEF Branch
  <2>5. OnTrack'
    <3> SUFFICES ASSUME faults' = 0
                 PROVE  /\ undo' = 0 /\ lost' = {} /\ ending' = {}
                        /\ pos' \in DOMAIN Straight(prog) /\ held' = Straight(prog)[pos']
      BY <1>1 DEF OnTrack
    <3>1. faults = 0 /\ ~Failed
      BY <1>2, <1>7 DEF Branch, OnTrack, Failed
    <3> QED
      BY <1>2, <1>7, <3>1, StraightStep DEF Branch, Go, OnTrack, Onward, After
  <2> QED
    BY <2>2, <2>4, <2>5 DEF Kept
<1>8. CASE StartFails
  <2>1. Covers(prog, Bound(prog))
    BY CertifiedAssumption
  <2>2. /\ ~Failed /\ undo' = 1 /\ pos' = pos /\ held' = held /\ lost' = lost
        /\ pos \in 1..Len(Script) /\ Script[pos].op \in {"get", "try"}
    BY <1>3, <1>8 DEF StartFails, Code, At, Now
  <2>3. /\ Bound(prog).main[pos] \subseteq Bound(prog).undo[pos][1]
        /\ Len(Script[pos].on) \in Nat
    BY <2>1, <2>2 DEF Covers, Returns, Script, Flows
  <2>4. Places'
    BY <1>1, <1>2, <2>2, <2>3 DEF Places, Script, Failed
  <2>5. (held \ lost)' \subseteq (Table[At])'
    BY <1>1, <1>2, <2>2, <2>3 DEF Table, At, Failed
  <2>6. OnTrack'
    BY <1>2, <1>8 DEF StartFails, OnTrack
  <2> QED
    BY <2>4, <2>5, <2>6 DEF Kept
<1>9. CASE StopFails
  <2>1. Now.next \in Nat /\ At + Now.next \in 1..(Len(Code) + 1)
    BY <1>3, <1>9 DEF StopFails, Flows
  <2>2. Places' /\ Code' = Code /\ Table' = Table /\ At' = At + Now.next /\ (Failed' <=> Failed)
    BY <1>1, <1>2, <1>9, <2>1, GoesOn DEF StopFails
  <2>3. Table[At] \ {Now.res} \subseteq Table[At + Now.next]
    BY <1>3, <1>9 DEF StopFails, Flows
  <2>4. (held \ lost)' \subseteq (Table[At])'
    BY <1>2, <1>9, <2>2, <2>3 DEF StopFails
  <2>5. OnTrack'
    BY <1>2, <1>9 DEF StopFails, OnTrack
  <2> QED
    BY <2>2, <2>4, <2>5 DEF Kept
<1>10. CASE RollbackEnds
  <2>1. Covers(prog, Bound(prog))
    BY CertifiedAssumption
  <2>2. /\ Failed /\ undo = Len(Script[pos].on) + 1
        /\ pos \in 1..Len(Script) /\ Script[pos].op \in {"get", "try"}
        /\ undo' = 0 /\ pos' = Resume(pos) /\ held' = held /\ lost' = lost
    BY <1>2, <1>3, <1>10 DEF RollbackEnds, Code, At, Places
  <2>3. /\ Resume(pos) \in 1..(Len(Script) + 1)
        /\ Bound(prog).undo[pos][undo] \subseteq Bound(prog).main[Resume(pos)]
    BY <2>1, <2>2 DEF Covers, Returns, Script, Resume
  <2>4. Places'
    BY <1>1, <2>2, <2>3 DEF Places, Script, Failed
  <2>5. (held \ lost)' \subseteq (Table[At])'
    BY <1>1, <1>2, <2>2, <2>3 DEF Table, At, Failed
  <2>6. OnTrack'
    BY <1>2, <1>10, <2>2 DEF RollbackEnds, OnTrack, Failed
  <2> QED
    BY <2>4, <2>5, <2>6 DEF Kept
<1>11. CASE ThreadBreaks
  <2>1. pos' = pos /\ undo' = undo /\ held' = held /\ lost' = lost /\ faults' = faults + 1
    BY <1>11 DEF ThreadBreaks
  <2> QED
    BY <1>1, <1>2, <2>1 DEF Kept, Places, OnTrack, Table, At, Failed, Script
<1>12. CASE ThreadGivesUp
  <2>1. pos' = pos /\ undo' = undo /\ faults' = faults
    BY <1>12 DEF ThreadGivesUp
  <2>2. (held \ lost)' \subseteq held \ lost
    BY <1>12 DEF ThreadGivesUp
  <2>3. Places' /\ (Table[At])' = Table[At]
    BY <1>1, <1>2, <2>1 DEF Places, Table, At, Failed, Script
  <2>4. OnTrack'
    BY <1>2, <1>12, <2>1 DEF ThreadGivesUp, OnTrack
  <2> QED
    BY <1>2, <2>2, <2>3, <2>4 DEF Kept
<1>13. CASE UNCHANGED vars
  BY <1>1, <1>2, <1>13 DEF vars, Kept, Places, OnTrack, Table, At, Failed, Script
<1> QED
  BY <1>4, <1>5, <1>6, <1>7, <1>8, <1>9, <1>10, <1>11, <1>12, <1>13 DEF Next

\* A certified program holds no more than its table says, and on a run where nothing
\* fails exactly what its straight way says.
THEOREM FlowInvariant == Spec => []FlowInv
BY FlowInit, FlowStep, PTL DEF Spec

\* Whichever calls of a certified program fail, how many of them and in which of its
\* start, rollback and stop functions: when it ends it has given back all it obtained.
THEOREM CertifiedLeaveNothing == Spec => [](prog \in Certified => NothingLeft)
<1>1. FlowInv => (prog \in Certified => NothingLeft)
  <2> SUFFICES ASSUME FlowInv, prog \in Certified, Ended, NEW r \in held
               PROVE  r \in Excused
    BY DEF NothingLeft
  <2>1. Places /\ held \ lost \subseteq Table[At] /\ OnTrack /\ faults \in Nat
    BY DEF FlowInv, Kept
  <2>2. Covers(prog, Bound(prog)) /\ GoesStraight(prog, Straight(prog)) /\ Len(Script) \in Nat
    BY CertifiedAssumption DEF Covers, Flows, Script
  <2>3. ~Failed /\ Table[At] = Bound(prog).main[Len(Script) + 1]
    BY <2>1, <2>2 DEF Ended, Places, Table, At
  <2>4. CASE faults = 0
    BY <2>1, <2>2, <2>4 DEF OnTrack, GoesStraight, Ended, Script, Excused
  <2>5. CASE faults > 0 /\ r \notin lost
    BY <2>1, <2>2, <2>3, <2>5 DEF Covers, Excused, Script
  <2>6. CASE r \in lost
    BY <2>6 DEF Excused
  <2> QED
    BY <2>1, <2>4, <2>5, <2>6
<1> QED
  BY <1>1, FlowInvariant, PTL

\* Nor does such a program obtain what it still holds, on any way through it.
THEOREM CertifiedGetOnce == Spec => [](prog \in Certified => GetsOnce)
<1>1. FlowInv => (prog \in Certified => GetsOnce)
  <2> SUFFICES ASSUME FlowInv, prog \in Certified, Running, Now.op = "get",
                      Now.res \in held, Now.res \notin lost
               PROVE  Now.res \in Excused
    BY DEF GetsOnce, Excused
  <2>1. Places /\ held \ lost \subseteq Table[At] /\ OnTrack /\ faults \in Nat
    BY DEF FlowInv, Kept
  <2>2. Now.res[1] \in prog.leaks \cup prog.forgets
    BY <2>1, TableFlows DEF Flows
  <2>3. CASE faults = 0
    BY <2>1, <2>3, StraightStep DEF Excused
  <2>4. CASE faults > 0
    BY <2>2, <2>4 DEF Excused
  <2> QED
    BY <2>1, <2>3, <2>4
<1> QED
  BY <1>1, FlowInvariant, PTL

------------------------------------------------------------------------------
\* What a guarded program surely holds where it is.
SureTable == IF Failed THEN Sure(prog).undo[pos] ELSE Sure(prog).main

\* Each thread ends once, and what it has not given up yet is still there.
EndsOnce ==
  \A e \in ending :
    /\ e[1] \in held /\ Owns(e[1]) # <<>> /\ e[2] \in 1..(Len(Owns(e[1])) + 1)
    /\ \A k \in DOMAIN Owns(e[1]) :
         k >= e[2] /\ Owns(e[1])[k][1] \in Fragile => Owns(e[1])[k] \in held
    /\ \A f \in ending : f[1] = e[1] => f = e

Safe ==
  /\ \A r \in lost : Owns(r) = <<>>
  /\ SureTable[At] \subseteq held
  /\ EndsOnce
  /\ NothingDangles

GuardInv == FlowInv /\ (prog \in Guarded => Safe)

\* A table that goes with the sequence a program is in agrees with it.
LEMMA TableGuards ==
  ASSUME prog \in Guarded, Places
  PROVE  /\ Assures(Code, SureTable, Table)
         /\ Proper(Code, SureTable, Table, prog.leaks \cup prog.forgets, prog.twice)
         /\ Orderly(Table[At]) /\ SureTable[At] \cap Taken(Table[At]) = {}
<1>1. Guards(prog, Sure(prog), Bound(prog)) /\ prog \in Certified
  BY GuardedAssumption
<1>2. At \in 1..(Len(Code) + 1)
  BY <1>1, TableFlows
<1>3. /\ Assures(Code, SureTable, Table)
      /\ Proper(Code, SureTable, Table, prog.leaks \cup prog.forgets, prog.twice)
  <2>1. CASE Failed
    BY <1>1, <2>1 DEF Guards, Places, Code, SureTable, Table, Script
  <2>2. CASE ~Failed
    BY <1>1, <2>2 DEF Guards, Code, SureTable, Table, Script
  <2> QED BY <2>1, <2>2
<1> QED BY <1>2, <1>3 DEF Assures

\* A step forward keeps the table.
LEMMA SureGoesOn ==
  ASSUME prog \in Certified, Places, Running, NEW n \in Nat, Go(n), prog' = prog,
         At + n \in 1..(Len(Code) + 1)
  PROVE  SureTable' = SureTable /\ At' = At + n
<1>1. At' = At + n /\ (Failed' <=> Failed)
  BY GoesOn
<1>2. Failed => pos' = pos
  BY DEF Go
<1> QED BY <1>1, <1>2 DEF SureTable

\* A thread with something to give up is in the table.
LEMMA ThreadKnown ==
  ASSUME FlowInv, prog \in Guarded, Safe, NEW t \in held, Owns(t) # <<>>
  PROVE  t \in Table[At]
<1>1. held \ lost \subseteq Table[At]
  BY GuardedAssumption DEF FlowInv, Kept
<1> QED BY <1>1 DEF Safe

\* While nothing has failed the parts are with their wholes; when something has, they
\* are if nothing that stays is a part of what goes.
LEMMA Undangled ==
  ASSUME FlowInv', prog' = prog, prog \in Guarded,
         faults' # 0 => NothingDangles'
  PROVE  NothingDangles'
<1>1. CASE faults' = 0
  <2>1. OnTrack' /\ StraightProper(prog, Straight(prog))
    BY GuardedAssumption DEF FlowInv, Kept
  <2> QED BY <1>1, <2>1 DEF OnTrack, StraightProper, NothingDangles, Excused
<1> QED BY <1>1

LEMMA SafeInit == Init => GuardInv
<1> SUFFICES ASSUME Init, prog \in Guarded PROVE Safe
  BY FlowInit DEF GuardInv
<1>1. Guards(prog, Sure(prog), Bound(prog))
  BY GuardedAssumption
<1>2. SureTable[At] = {}
  BY <1>1 DEF Init, SureTable, At, Failed, Guards
<1> QED BY <1>2 DEF Init, Safe, EndsOnce, NothingDangles

\* What is obtained is a part of something that is surely held, or excused.
LEMMA SafeObtain ==
  ASSUME GuardInv, FlowInv', prog \in Guarded, Obtain PROVE Safe'
<1>1. /\ Places /\ held \ lost \subseteq Table[At] /\ faults \in Nat /\ Safe /\ prog \in Certified
  BY GuardedAssumption DEF GuardInv, FlowInv, Kept
<1>2. /\ At \in 1..Len(Code) /\ Len(Code) \in Nat /\ Now = Code[At]
  BY <1>1, TableFlows DEF Obtain
<1>3. /\ Assures(Code, SureTable, Table)
      /\ Proper(Code, SureTable, Table, prog.leaks \cup prog.forgets, prog.twice)
  BY <1>1, TableGuards
<1>4. /\ prog' = prog /\ faults' = faults /\ ending' = ending /\ Go(1) /\ Running
      /\ held' = held \cup {Now.res} /\ lost' = lost \ {Now.res} /\ Now.op \in {"get", "note"}
  BY DEF Obtain
<1>5. SureTable' = SureTable /\ At' = At + 1
  BY <1>1, <1>2, <1>4, SureGoesOn
<1>6. (SureTable[At])' \subseteq held'
  <2>1. SureTable[At + 1] \subseteq SureTable[At] \cup {Now.res}
    BY <1>2, <1>3, <1>4 DEF Assures
  <2> QED BY <1>1, <1>4, <1>5, <2>1 DEF Safe
<1>7. EndsOnce'
  BY <1>1, <1>4 DEF Safe, EndsOnce
<1>8. faults' # 0 => NothingDangles'
  <2> SUFFICES ASSUME faults' # 0, NEW r \in held', r \notin Excused' PROVE Inside(r) \in held'
    BY DEF NothingDangles
  <2>1. r[1] \notin prog.leaks \cup prog.forgets /\ r \notin lost'
    BY <1>1, <1>4 DEF Excused
  <2>2. CASE r = Now.res
    <3>1. Inside(r) \in SureTable[At] \cup {r}
      BY <1>2, <1>3, <1>4, <2>1, <2>2 DEF Proper
    <3> QED BY <1>1, <1>4, <2>2, <3>1 DEF Safe
  <2>3. CASE r # Now.res
    <3>1. r \in held \ Excused
      BY <1>1, <1>4, <2>1, <2>3 DEF Excused
    <3> QED BY <1>1, <1>4, <3>1 DEF Safe, NothingDangles
  <2> QED BY <2>2, <2>3
<1>9. NothingDangles'
  BY <1>4, <1>8, Undangled
<1>10. \A r \in lost' : Owns(r) = <<>>
  BY <1>1, <1>4 DEF Safe
<1> QED BY <1>6, <1>7, <1>9, <1>10 DEF Safe

\* What is given back, with what its thread gave up, is no whole of anything that stays,
\* and no thread that is ending still has it to give up.
LEMMA SafeRelease ==
  ASSUME GuardInv, FlowInv', prog \in Guarded, Release PROVE Safe'
<1> DEFINE w == Now.res
<1>1. /\ FlowInv /\ Places /\ held \ lost \subseteq Table[At] /\ faults \in Nat /\ Safe
      /\ prog \in Certified
  BY GuardedAssumption DEF GuardInv, FlowInv, Kept
<1>2. /\ At \in 1..Len(Code) /\ Len(Code) \in Nat /\ Now = Code[At]
  BY <1>1, TableFlows DEF Release
<1>3. /\ Assures(Code, SureTable, Table)
      /\ Proper(Code, SureTable, Table, prog.leaks \cup prog.forgets, prog.twice)
      /\ Orderly(Table[At])
  BY <1>1, TableGuards
<1>4. /\ prog' = prog /\ faults' = faults /\ ending' = {e \in ending : e[1] # w} /\ Go(1)
      /\ Running /\ Now.op = "free"
      /\ held' = held \ ({w} \cup Joined) /\ lost' = lost \ ({w} \cup Joined)
  BY DEF Release
<1>5. SureTable' = SureTable /\ At' = At + 1
  BY <1>1, <1>2, <1>4, SureGoesOn
<1>6. /\ Joined \subseteq OwnedBy(w)
      /\ Joined # {} => w \in Table[At] /\ Owns(w) # <<>>
  <2>1. Joined \subseteq OwnedBy(w) /\ (Joined # {} => w \in held)
    BY DEF Joined, OwnedBy
  <2>2. OwnedBy(w) # {} => Owns(w) # <<>>
    BY DEF OwnedBy
  <2> QED BY <1>1, <2>1, <2>2, ThreadKnown
<1>7. (SureTable[At])' \subseteq held'
  <2>1. SureTable[At + 1] \subseteq SureTable[At] \ ({w} \cup OwnedBy(w))
    BY <1>2, <1>3, <1>4 DEF Assures
  <2> QED BY <1>1, <1>4, <1>5, <1>6, <2>1 DEF Safe
<1>8. w[1] \in Fragile => w \notin Taken(Table[At])
  BY <1>2, <1>3, <1>4 DEF Proper
<1>9. EndsOnce'
  <2> SUFFICES ASSUME NEW e \in ending, e[1] # w
               PROVE  /\ e[1] \in held' /\ Owns(e[1]) # <<>> /\ e[2] \in 1..(Len(Owns(e[1])) + 1)
                      /\ \A k \in DOMAIN Owns(e[1]) :
                           k >= e[2] /\ Owns(e[1])[k][1] \in Fragile => Owns(e[1])[k] \in held'
                      /\ \A f \in ending : f[1] = e[1] => f = e
    BY <1>4 DEF EndsOnce
  <2>1. /\ e[1] \in held /\ Owns(e[1]) # <<>> /\ e[2] \in 1..(Len(Owns(e[1])) + 1)
        /\ \A k \in DOMAIN Owns(e[1]) :
             k >= e[2] /\ Owns(e[1])[k][1] \in Fragile => Owns(e[1])[k] \in held
        /\ \A f \in ending : f[1] = e[1] => f = e
    BY <1>1 DEF Safe, EndsOnce
  <2>2. e[1] \in Table[At]
    BY <1>1, <2>1, ThreadKnown
  <2>3. e[1] \notin Joined
    BY <1>3, <1>6, <2>1, <2>2 DEF Orderly, Taken
  <2>4. ASSUME NEW k \in DOMAIN Owns(e[1]), k >= e[2], Owns(e[1])[k][1] \in Fragile
        PROVE  Owns(e[1])[k] \in held'
    <3>1. Owns(e[1])[k] \in OwnedBy(e[1]) /\ Owns(e[1])[k] \in held
      BY <2>1, <2>4 DEF OwnedBy
    <3>2. Owns(e[1])[k] # w
      BY <1>8, <2>2, <2>4, <3>1 DEF Taken
    <3>3. Owns(e[1])[k] \notin Joined
      <4>1. CASE Joined = {}
        BY <4>1
      <4>2. CASE Joined # {}
        <5>1. OwnedBy(e[1]) \cap OwnedBy(w) = {}
          BY <1>3, <1>6, <2>1, <2>2, <4>2 DEF Orderly
        <5> QED BY <1>6, <3>1, <5>1
      <4> QED BY <4>1, <4>2
    <3> QED BY <1>4, <3>1, <3>2, <3>3
  <2> QED BY <1>4, <2>1, <2>3, <2>4
<1>10. faults' # 0 => NothingDangles'
  <2> SUFFICES ASSUME faults' # 0, NEW r \in held', r \notin Excused' PROVE Inside(r) \in held'
    BY DEF NothingDangles
  <2>1. r[1] \notin prog.leaks \cup prog.forgets /\ r \notin lost'
    BY <1>1, <1>4 DEF Excused
  <2>2. r \in held /\ r # w /\ r \notin lost
    BY <1>4, <2>1
  <2>3. r \notin Excused /\ r \in Table[At]
    BY <1>1, <1>4, <2>1, <2>2 DEF Excused
  <2>4. Inside(r) \in held
    BY <1>1, <2>2, <2>3 DEF Safe, NothingDangles
  <2>5. Inside(r) # w
    BY <1>2, <1>3, <1>4, <2>1, <2>2, <2>3 DEF Proper
  <2>6. CASE Inside(r) \in Joined
    <3>1. Inside(r) \in Taken(Table[At])
      BY <1>6, <2>6 DEF Taken
    <3>2. Inside(r) = r
      BY <1>3, <2>3, <3>1 DEF Orderly
    <3> QED BY <3>2
  <2> QED BY <1>4, <2>4, <2>5, <2>6
<1>11. NothingDangles'
  BY <1>4, <1>10, Undangled
<1>12. \A r \in lost' : Owns(r) = <<>>
  BY <1>1, <1>4 DEF Safe
<1> QED BY <1>7, <1>9, <1>11, <1>12 DEF Safe

\* A step that changes neither what is held nor which threads end.
LEMMA SafeStays ==
  ASSUME GuardInv, FlowInv', prog \in Guarded, prog' = prog,
         UNCHANGED <<held, ending>>, lost \subseteq lost', faults' \in Nat, faults' >= faults,
         \A r \in lost' : Owns(r) = <<>>,
         (SureTable[At])' \subseteq SureTable[At]
  PROVE  Safe'
<1>1. Safe /\ faults \in Nat
  BY DEF GuardInv, FlowInv
<1>2. EndsOnce'
  BY <1>1 DEF Safe, EndsOnce
<1>3. Excused \subseteq Excused'
  BY <1>1 DEF Excused
<1>4. NothingDangles'
  BY <1>1, <1>3 DEF Safe, NothingDangles
<1> QED BY <1>1, <1>2, <1>4 DEF Safe

\* A thread that begins to end has all it is going to give up.
LEMMA SafeThreadBreaks ==
  ASSUME GuardInv, FlowInv', prog \in Guarded, ThreadBreaks PROVE Safe'
<1>1. FlowInv /\ Safe /\ faults \in Nat /\ held \ lost \subseteq Table[At] /\ Places
  BY GuardedAssumption DEF GuardInv, FlowInv, Kept
<1>2. PICK t \in held :
        /\ Owns(t) # <<>> /\ \A k \in DOMAIN Owns(t) : Owns(t)[k] \in held
        /\ \A e \in ending : e[1] # t
        /\ ending' = ending \cup {<<t, 1>>}
  BY DEF ThreadBreaks
<1>3. UNCHANGED <<prog, pos, undo, held, lost>> /\ faults' = faults + 1
  BY DEF ThreadBreaks
<1>4. Orderly(Table[At]) /\ t \in Table[At]
  BY <1>1, <1>2, ThreadKnown, TableGuards
<1>5. 1 \in 1..(Len(Owns(t)) + 1)
  BY <1>2, <1>4 DEF Orderly
<1>6. EndsOnce'
  BY <1>1, <1>2, <1>3, <1>5 DEF Safe, EndsOnce
<1>7. Excused \subseteq Excused'
  BY <1>1, <1>3 DEF Excused
<1>8. NothingDangles'
  BY <1>1, <1>3, <1>7 DEF Safe, NothingDangles
<1>9. (SureTable[At])' = SureTable[At]
  BY <1>3 DEF SureTable, At, Failed
<1> QED BY <1>1, <1>3, <1>6, <1>8, <1>9 DEF Safe

\* What a thread gives up is not counted on, and is its own.
LEMMA SafeThreadGivesUp ==
  ASSUME GuardInv, FlowInv', prog \in Guarded, ThreadGivesUp PROVE Safe'
<1>1. FlowInv /\ Safe /\ faults \in Nat /\ held \ lost \subseteq Table[At] /\ Places
  BY GuardedAssumption DEF GuardInv, FlowInv, Kept
<1>2. PICK e \in ending :
        /\ e[2] <= Len(Owns(e[1]))
        /\ held' = held \ {Owns(e[1])[e[2]]}
        /\ lost' = lost \ {Owns(e[1])[e[2]]}
        /\ ending' = (ending \ {e}) \cup {<<e[1], e[2] + 1>>}
  BY DEF ThreadGivesUp
<1> DEFINE t == e[1]
           x == Owns(t)[e[2]]
<1>3. UNCHANGED <<prog, pos, undo, faults>>
  BY DEF ThreadGivesUp
<1>4. /\ t \in held /\ Owns(t) # <<>> /\ e[2] \in 1..(Len(Owns(t)) + 1)
      /\ \A f \in ending : f[1] = t => f = e
  BY <1>1 DEF Safe, EndsOnce
<1>5. /\ Orderly(Table[At]) /\ t \in Table[At]
      /\ SureTable[At] \cap Taken(Table[At]) = {}
  BY <1>1, <1>4, ThreadKnown, TableGuards
<1>6. /\ Len(Owns(t)) \in Nat /\ DOMAIN Owns(t) = 1..Len(Owns(t))
      /\ \A k, l \in DOMAIN Owns(t) : Owns(t)[k] = Owns(t)[l] => k = l
  BY <1>4, <1>5 DEF Orderly
<1>7. e[2] \in DOMAIN Owns(t) /\ x \in OwnedBy(t) /\ x \in Taken(Table[At])
  <2>1. e[2] \in DOMAIN Owns(t)
    BY <1>2, <1>4, <1>6
  <2> QED BY <1>5, <2>1 DEF OwnedBy, Taken
<1>8. (SureTable[At])' \subseteq held'
  <2>1. (SureTable[At])' = SureTable[At]
    BY <1>3 DEF SureTable, At, Failed
  <2> QED BY <1>1, <1>2, <1>5, <1>7, <2>1 DEF Safe
<1>9. ASSUME NEW f \in ending, f # e
      PROVE  /\ f[1] \in held' /\ Owns(f[1]) # <<>> /\ f[2] \in 1..(Len(Owns(f[1])) + 1)
             /\ \A k \in DOMAIN Owns(f[1]) :
                  k >= f[2] /\ Owns(f[1])[k][1] \in Fragile => Owns(f[1])[k] \in held'
             /\ f[1] # t
             /\ \A g \in ending : g[1] = f[1] => g = f
  <2>1. /\ f[1] \in held /\ Owns(f[1]) # <<>> /\ f[2] \in 1..(Len(Owns(f[1])) + 1)
        /\ \A k \in DOMAIN Owns(f[1]) :
             k >= f[2] /\ Owns(f[1])[k][1] \in Fragile => Owns(f[1])[k] \in held
        /\ \A g \in ending : g[1] = f[1] => g = f
    BY <1>1 DEF Safe, EndsOnce
  <2>2. f[1] \in Table[At] /\ f[1] # t
    BY <1>1, <1>4, <1>9, <2>1, ThreadKnown
  <2>3. f[1] # x
    BY <1>5, <1>7, <2>1, <2>2 DEF Orderly
  <2>4. x \notin OwnedBy(f[1])
    BY <1>4, <1>5, <1>7, <2>1, <2>2 DEF Orderly
  <2> QED BY <1>2, <2>1, <2>2, <2>3, <2>4 DEF OwnedBy
<1>10. /\ t \in held' /\ e[2] + 1 \in 1..(Len(Owns(t)) + 1)
       /\ \A k \in DOMAIN Owns(t) :
            k >= e[2] + 1 /\ Owns(t)[k][1] \in Fragile => Owns(t)[k] \in held'
  <2>1. t # x
    BY <1>4, <1>5, <1>7 DEF Orderly
  <2>2. ASSUME NEW k \in DOMAIN Owns(t), k >= e[2] + 1, Owns(t)[k][1] \in Fragile
        PROVE  Owns(t)[k] \in held'
    <3>1. k # e[2] /\ k >= e[2]
      BY <1>4, <1>6, <2>2
    <3>2. Owns(t)[k] \in held
      BY <1>1, <2>2, <3>1 DEF Safe, EndsOnce
    <3>3. Owns(t)[k] # x
      BY <1>6, <1>7, <3>1
    <3> QED BY <1>2, <3>2, <3>3
  <2>3. e[2] + 1 \in 1..(Len(Owns(t)) + 1)
    BY <1>2, <1>4, <1>6
  <2> QED BY <1>2, <1>4, <2>1, <2>2, <2>3
<1>11. EndsOnce'
  <2> DEFINE n == <<t, e[2] + 1>>
  <2>1. n[1] = t /\ n[2] = e[2] + 1
    OBVIOUS
  <2>2. \A g \in ending' : g = n \/ (g \in ending /\ g # e)
    BY <1>2
  <2> HIDE DEF n
  <2> QED BY <1>4, <1>9, <1>10, <2>1, <2>2 DEF EndsOnce
<1>12. NothingDangles'
  <2> SUFFICES ASSUME NEW r \in held', r \notin Excused' PROVE Inside(r) \in held'
    BY DEF NothingDangles
  <2>1. r \in held /\ r # x /\ r \notin lost
    BY <1>2 DEF Excused
  <2>2. r \notin Excused /\ r \in Table[At]
    BY <1>1, <1>2, <1>3, <2>1 DEF Excused
  <2>3. Inside(r) \in held
    BY <1>1, <2>1, <2>2 DEF Safe, NothingDangles
  <2>4. Inside(r) = x => Inside(r) = r
    BY <1>5, <1>7, <2>2 DEF Orderly
  <2> QED BY <1>2, <2>1, <2>3, <2>4
<1>13. \A r \in lost' : Owns(r) = <<>>
  BY <1>1, <1>2 DEF Safe
<1> QED BY <1>8, <1>11, <1>12, <1>13 DEF Safe

LEMMA GuardStep == GuardInv /\ [Next]_vars => GuardInv'
<1> SUFFICES ASSUME GuardInv, [Next]_vars
             PROVE  GuardInv'
  OBVIOUS
<1>a. prog' = prog
  BY DEF Next, vars, Obtain, Configure, Release, Branch, StartFails, StopFails,
         RollbackEnds, ThreadBreaks, ThreadGivesUp
<1> SUFFICES ASSUME prog \in Guarded
             PROVE  Safe'
  BY <1>a, FlowStep DEF GuardInv
<1>1. /\ FlowInv /\ FlowInv' /\ Places /\ held \ lost \subseteq Table[At] /\ faults \in Nat /\ Safe
      /\ prog \in Certified
  BY FlowStep, GuardedAssumption DEF GuardInv, FlowInv, Kept
<1>2. /\ Flows(Code, Table, prog.leaks \cup prog.forgets)
      /\ Len(Code) \in Nat
      /\ Running <=> At \in 1..Len(Code)
      /\ Running => Now = Code[At]
  BY <1>1, TableFlows
<1>3. Assures(Code, SureTable, Table) /\ Orderly(Table[At])
  BY <1>1, TableGuards
<1>4. Guards(prog, Sure(prog), Bound(prog))
  BY GuardedAssumption
<1>5. CASE Obtain
  BY <1>1, <1>5, SafeObtain
<1>6. CASE Release
  BY <1>1, <1>6, SafeRelease
<1>7. CASE ThreadBreaks
  BY <1>1, <1>7, SafeThreadBreaks
<1>8. CASE ThreadGivesUp
  BY <1>1, <1>8, SafeThreadGivesUp
<1>9. CASE Configure
  <2>1. /\ Running /\ Now.op = "try" /\ Go(1) /\ UNCHANGED <<prog, held, lost, ending, faults>>
    BY <1>9 DEF Configure
  <2>2. SureTable' = SureTable /\ At' = At + 1
    BY <1>1, <1>2, <2>1, SureGoesOn
  <2>3. SureTable[At + 1] \subseteq SureTable[At]
    BY <1>2, <1>3, <2>1 DEF Assures
  <2> QED BY <1>1, <2>1, <2>2, <2>3, SafeStays DEF Safe
<1>10. CASE Branch
  <2> DEFINE n == IF Now.res \in held THEN 1 ELSE Now.next
  <2>1. /\ Running /\ Now.op = "ask" /\ Go(n) /\ UNCHANGED <<prog, held, lost, ending, faults>>
    BY <1>10 DEF Branch
  <2>2. n \in Nat /\ At + n \in 1..(Len(Code) + 1)
    BY <1>2, <2>1 DEF Flows
  <2>3. SureTable' = SureTable /\ At' = At + n
    BY <1>1, <2>1, <2>2, SureGoesOn
  <2>4. SureTable[At + n] \subseteq held
    BY <1>1, <1>2, <1>3, <2>1 DEF Assures, Safe
  <2>5. (SureTable[At])' \subseteq held'
    BY <2>1, <2>3, <2>4
  <2>6. EndsOnce' /\ NothingDangles'
    BY <1>1, <2>1 DEF Safe, EndsOnce, NothingDangles, Excused
  <2> QED BY <1>1, <2>1, <2>5, <2>6 DEF Safe
<1>11. CASE StartFails
  <2>1. /\ ~Failed /\ undo' = 1 /\ faults' = faults + 1
        /\ UNCHANGED <<prog, pos, held, lost, ending>>
        /\ pos \in 1..Len(Script) /\ Script[pos].op \in {"get", "try"}
    BY <1>2, <1>11 DEF StartFails, Code, At, Now
  <2>2. Sure(prog).undo[pos][1] \subseteq Sure(prog).main[pos]
    BY <1>4, <2>1 DEF Guards, Script
  <2>3. (SureTable[At])' \subseteq SureTable[At]
    BY <2>1, <2>2 DEF SureTable, At, Failed
  <2> QED BY <1>1, <2>1, <2>3, SafeStays DEF Safe
<1>12. CASE StopFails
  <2>1. /\ Running /\ Now.op = "free" /\ Now.res \in held /\ Now.res[1] \notin Local
        /\ lost' = lost \cup {Now.res} /\ Go(Now.next) /\ faults' = faults + 1
        /\ UNCHANGED <<prog, held, ending>>
    BY <1>12 DEF StopFails
  <2>2. Now.next \in Nat /\ At + Now.next \in 1..(Len(Code) + 1)
    BY <1>2, <2>1 DEF Flows
  <2>3. SureTable' = SureTable /\ At' = At + Now.next
    BY <1>1, <2>1, <2>2, SureGoesOn
  <2>4. SureTable[At + Now.next] \subseteq SureTable[At]
    BY <1>2, <1>3, <2>1 DEF Assures
  <2>5. Owns(Now.res) = <<>>
    BY <1>1, <1>3, <2>1, ThreadKnown DEF Orderly
  <2> QED BY <1>1, <2>1, <2>3, <2>4, <2>5, SafeStays DEF Safe
<1>13. CASE RollbackEnds
  <2>1. /\ Failed /\ undo = Len(Script[pos].on) + 1
        /\ pos \in 1..Len(Script) /\ Script[pos].op \in {"get", "try"}
        /\ undo' = 0 /\ pos' = Resume(pos) /\ UNCHANGED <<prog, held, lost, ending, faults>>
    <3>1. Failed /\ ~Running /\ undo' = 0 /\ pos' = Resume(pos)
          /\ UNCHANGED <<prog, held, lost, ending, faults>>
      BY <1>13 DEF RollbackEnds
    <3>2. At \in 1..(Len(Code) + 1)
      BY <1>1, TableFlows
    <3> QED BY <1>1, <1>2, <3>1, <3>2 DEF Code, At, Places
  <2>2. Sure(prog).main[Resume(pos)] \subseteq Sure(prog).undo[pos][undo]
    BY <1>4, <2>1 DEF Guards, Script, Resume
  <2>3. (SureTable[At])' \subseteq SureTable[At]
    BY <2>1, <2>2 DEF SureTable, At, Failed
  <2> QED BY <1>1, <2>1, <2>3, SafeStays DEF Safe
<1>14. CASE UNCHANGED vars
  BY <1>1, <1>14 DEF vars, Safe, SureTable, At, Failed, EndsOnce, NothingDangles, Excused
<1> QED BY <1>5, <1>6, <1>7, <1>8, <1>9, <1>10, <1>11, <1>12, <1>13, <1>14 DEF Next

\* A guarded program holds what its second table says, whatever fails and whichever of its
\* threads end by themselves, and no part of anything is without its whole.
THEOREM GuardInvariant == Spec => []GuardInv
BY SafeInit, GuardStep, PTL DEF Spec

\* However many calls of a guarded program fail and threads of it end by themselves: memory,
\* files, threads and frames are given back once, by the program or by its threads.
THEOREM GuardedFreeOnlyHeld == Spec => [](prog \in Guarded => FreesOnlyHeld)
<1>1. GuardInv => (prog \in Guarded => FreesOnlyHeld)
  <2> SUFFICES ASSUME GuardInv, prog \in Guarded PROVE FreesOnlyHeld
    OBVIOUS
  <2>1. FlowInv /\ Safe /\ Places /\ OnTrack /\ prog \in Certified /\ faults \in Nat
    BY GuardedAssumption DEF GuardInv, FlowInv, Kept
  <2>2. ASSUME Running, Now.op = "free", Now.res[1] \in Fragile
        PROVE  Now.res \in held \/ (faults > 0 /\ Now.res[1] \in prog.twice)
    <3>1. At \in 1..Len(Code) /\ Now = Code[At]
      BY <2>1, <2>2, TableFlows
    <3>2. Now.res \in SureTable[At] \/ Now.res[1] \in prog.twice
      BY <2>1, <2>2, <3>1, TableGuards DEF Proper
    <3>3. CASE faults = 0
      <4>1. ~Failed /\ Now = Script[pos] /\ pos \in 1..Len(Script)
        BY <2>1, <2>2, <3>3, TableFlows DEF OnTrack, Failed, Code, At, Now
      <4>2. pos \in DOMAIN Straight(prog) /\ held = Straight(prog)[pos]
        BY <2>1, <3>3 DEF OnTrack
      <4>3. StraightProper(prog, Straight(prog))
        BY GuardedAssumption
      <4> QED BY <2>2, <4>1, <4>2, <4>3 DEF StraightProper, Script
    <3> QED BY <2>1, <3>2, <3>3 DEF Safe
  <2>3. ASSUME NEW e \in ending, e[2] <= Len(Owns(e[1])), Owns(e[1])[e[2]][1] \in Fragile
        PROVE  Owns(e[1])[e[2]] \in held
    <3>1. e[1] \in Table[At] /\ Owns(e[1]) # <<>> /\ e[2] \in 1..(Len(Owns(e[1])) + 1)
      BY <2>1, ThreadKnown DEF Safe, EndsOnce
    <3>2. e[2] \in DOMAIN Owns(e[1]) /\ e[2] >= e[2]
      <4>1. Len(Owns(e[1])) \in Nat /\ DOMAIN Owns(e[1]) = 1..Len(Owns(e[1]))
        BY <2>1, <3>1, TableGuards DEF Orderly
      <4> QED BY <2>3, <3>1, <4>1
    <3> QED BY <2>1, <2>3, <3>2 DEF Safe, EndsOnce
  <2> QED BY <2>2, <2>3 DEF FreesOnlyHeld
<1> QED BY <1>1, GuardInvariant, PTL

\* Nor is a group, device or pipe of it ever given back before its channels.
THEOREM GuardedNothingDangles == Spec => [](prog \in Guarded => NothingDangles)
<1>1. GuardInv => (prog \in Guarded => NothingDangles)
  BY DEF GuardInv, Safe
<1> QED BY <1>1, GuardInvariant, PTL
=============================================================================
