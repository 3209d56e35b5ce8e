------------------------------ MODULE SceneAuto ------------------------------
(***************************************************************************)
(* The automatic scene adaptation of scene_auto: the menu of scene_sample  *)
(* .c calls the library (ot_scene.c), whose four threads apply parameters  *)
(* of the current scene mode to the ISP, the VPSS and the encoder.  A call *)
(* holds g_scene_lock while it rewrites the mode and the layout of the     *)
(* main pipes; the threads read both without it.  What a setter writes is  *)
(* abstracted to the pipe and the parameter index it was called with;      *)
(* whether an exposure changed since the last time is a free choice, and   *)
(* so g_scene_state.pause, which only stops its measurement, is left out.  *)
(***************************************************************************)
EXTENDS Naturals, Sequences, SequencesExt, FiniteSets

CONSTANTS
  N,        \* OT_SCENE_PIPE_MAX_NUM
  Modes,    \* the video modes of the configuration
  Interval, \* how often the gamma setter writes on its way to a new curve
  Watches   \* sets of threads to look at together: the threads read what the
            \* calls write and meet each other only at the lock

Pipes == 0 .. N - 1
Attrs == [on : BOOLEAN, main : Pipes, vcap : Pipes, idx : Nat, snap : BOOLEAN]

ASSUME NAssumption == N \in Nat \ {0}
ASSUME ModesAssumption == Modes \subseteq [wdr : BOOLEAN, attr : [Pipes -> Attrs]]
ASSUME IntervalAssumption == Interval \in Nat \ {0}
ASSUME WatchesAssumption == Watches \subseteq SUBSET {"normal", "luminance", "not_linear", "venc"}

VARIABLES
  init,     \* scene_init of g_scene_state
  isp,      \* g_isp_pause
  lock,     \* who holds g_scene_lock
  mode,     \* g_scene_mode
  mp,       \* main_pipe of g_scene_state and
  num,      \* main_pipe_num
  flag,     \* thread_flag of each thread
  th,       \* the threads
  main,     \* where the menu's thread is, the mode it sets and what it does then
  watch,    \* the threads that are scheduled; the others stand still
  late,     \* sets of a thread since the pause, of setters that look at it
  raw,      \* a setter that does not look at the pause wrote during one
  stale     \* sets of a thread since the last switch that the mode has not

layout == <<mode, mp, num>>
ghosts == <<watch, late, raw, stale>>
vars == <<init, isp, lock, layout, flag, th, main, ghosts>>

Threads == <<"normal", "luminance", "not_linear", "venc">>
Kinds == Range(Threads)

NoPipe == [hdl |-> 0, sub |-> << >>]
NoAttr == [on |-> FALSE, main |-> 0, vcap |-> 0, idx |-> 0, snap |-> TRUE]
NoMode == [wdr |-> FALSE, attr |-> [p \in Pipes |-> NoAttr]]

(* ------------------------- the layout of a mode ------------------------- *)
Enabled(m) == {p \in Pipes : m.attr[p].on}

(* The loops over the pipes take them in the order of their numbers.        *)
InOrder(S) ==
  CHOOSE s \in [1 .. Cardinality(S) -> S] : \A i, j \in DOMAIN s : i < j => s[i] < s[j]

(* The main pipes in the order of the first pipe that names them.           *)
Namers(m) ==
  {p \in Enabled(m) : \A q \in Enabled(m) : m.attr[q].main = m.attr[p].main => p <= q}

Mains(m) == [i \in 1 .. Cardinality(Namers(m)) |-> m.attr[InOrder(Namers(m))[i]].main]

Subs_all(m, h) == InOrder(Enabled(m))
Subs(m, h) == InOrder({p \in Enabled(m) : m.attr[p].main = h})
MainCount_last(m) == Len(Mains(m)) + 1
MainCount(m) == Len(Mains(m))

WithMains(m) ==
  [i \in Pipes |-> IF i < Len(Mains(m)) THEN [NoPipe EXCEPT !.hdl = Mains(m)[i + 1]]
                   ELSE NoPipe]

WithSubs(m, pipes, n) ==
  [i \in Pipes |-> IF i < n THEN [pipes[i] EXCEPT !.sub = Subs(m, pipes[i].hdl)]
                   ELSE pipes[i]]

AttrsFit(m) == \A p \in Pipes : m.attr[p].on => m.attr[p].vcap = p

(* What a setter may be called with while a mode rules.                     *)
Pairs(m) == {<<p, m.attr[p].idx>> : p \in Enabled(m) \union Range(Mains(m))}

(* -------------------------------- the menu ------------------------------- *)
Switching == main.pc \in {"lock", "check", "copy", "clear", "mains", "subs",
                          "publish", "static", "start", "unlock"}

Goto(pc) == main' = [main EXCEPT !.pc = pc]
Rest == [main EXCEPT !.pc = "menu", !.arg = NoMode, !.then = "menu", !.n = 1]
Fail == main' = [Rest EXCEPT !.pc = "failed"]   \* main returns: the process ends
Abandon == lock' = "free" /\ Fail
Threading == UNCHANGED <<flag, th, ghosts>>

(* scene_check_init_return: takes the lock only to read scene_init.         *)
Asked == main.pc = "menu" /\ lock = "free"

Choose1(m) ==
  /\ Asked
  /\ IF init THEN Fail /\ UNCHANGED <<init, layout, flag>>
     ELSE /\ init' = TRUE
          /\ mode' = NoMode
          /\ mp' = [i \in Pipes |-> NoPipe]
          /\ num' = 0
          /\ flag' = [t \in Kinds |-> FALSE]
          /\ main' = [main EXCEPT !.pc = "lock", !.arg = m, !.then = "menu"]
  /\ UNCHANGED <<isp, lock, th, ghosts>>

Choose2 ==
  /\ Asked
  /\ IF init THEN isp' = TRUE /\ UNCHANGED main ELSE Fail /\ UNCHANGED isp
  /\ UNCHANGED <<init, lock, layout>> /\ Threading

Choose3(m) ==
  /\ Asked
  /\ IF init THEN main' = [main EXCEPT !.pc = "lock", !.arg = m, !.then = "resume"]
     ELSE Fail
  /\ UNCHANGED <<init, isp, lock, layout>> /\ Threading

Resume ==
  /\ main.pc = "resume" /\ lock = "free"
  /\ isp' = FALSE
  /\ late' = [t \in Kinds |-> 0]
  /\ main' = Rest
  /\ UNCHANGED <<init, lock, layout, flag, th, raw, stale, watch>>

(* ------------------- ot_scene_set_scene_mode, step by step -------------- *)
Lock ==
  /\ main.pc = "lock" /\ lock = "free"
  /\ lock' = "main"
  /\ Goto("check")
  /\ UNCHANGED <<init, isp, layout>> /\ Threading

(* scene_check_pipe_attr gives the lock back itself.                        *)
LockAfterRefusal == "free"

Check ==
  /\ main.pc = "check"
  /\ IF AttrsFit(main.arg) THEN Goto("copy") /\ UNCHANGED lock
     ELSE lock' = LockAfterRefusal /\ Fail
  /\ UNCHANGED <<init, isp, layout>> /\ Threading

Copy ==
  /\ main.pc = "copy"
  /\ mode' = main.arg
  /\ stale' = [t \in Kinds |-> 0]
  /\ Goto("clear")
  /\ UNCHANGED <<init, isp, lock, mp, num, flag, th, late, raw, watch>>

Arrange(from, to, pipes) ==
  /\ main.pc = from
  /\ mp' = pipes
  /\ Goto(to)
  /\ UNCHANGED <<init, isp, lock, mode, num>> /\ Threading

Clear == Arrange("clear", "mains", [i \in Pipes |-> NoPipe])
FillMains == Arrange("mains", "subs", WithMains(mode))
FillSubs == Arrange("subs", "publish", WithSubs(mode, mp, Len(Mains(mode))))

Publish ==
  /\ main.pc = "publish"
  /\ num' = MainCount(mode)
  /\ Goto("static")
  /\ UNCHANGED <<init, isp, lock, mode, mp>> /\ Threading

(* The static parameters are set whether or not the ISP is paused.          *)
SetStatic ==
  /\ main.pc = "static"
  /\ \/ main' = [main EXCEPT !.pc = "start", !.n = 1] /\ UNCHANGED lock
     \/ Abandon
  /\ UNCHANGED <<init, isp, layout>> /\ Threading

(* scene_start_auto_thread: the n-th thread, unless its flag is up.  The    *)
(* flag goes up first and stays up when the thread cannot be created.       *)
Wanted(t) == ~flag[t] /\ (t = "not_linear" => mode.wdr)
Idle == [pc |-> "none", i |-> 0, j |-> 0, pipe |-> 0, idx |-> 0, k |-> 0]

Next4 == IF main.n = Len(Threads) THEN Goto("unlock")
         ELSE main' = [main EXCEPT !.n = @ + 1]

StartThread ==
  /\ main.pc = "start"
  /\ LET t == Threads[main.n] IN
       IF Wanted(t)
       THEN /\ flag' = [flag EXCEPT ![t] = TRUE]
            /\ \/ th' = [th EXCEPT ![t] = [Idle EXCEPT !.pc = "top"]] /\ Next4 /\ UNCHANGED lock
               \/ Abandon /\ UNCHANGED th
       ELSE Next4 /\ UNCHANGED <<lock, flag, th>>
  /\ UNCHANGED <<init, isp, layout, ghosts>>

Unlock ==
  /\ main.pc = "unlock"
  /\ lock' = "free"
  /\ main' = [Rest EXCEPT !.pc = main.then]
  /\ UNCHANGED <<init, isp, layout>> /\ Threading

(* ot_scene_deinit, chosen in the menu or after SIGINT; main then returns   *)
(* and leaves the threads, which it does not join.                          *)
Stopped_two == {"normal", "luminance"}
Stopped == Kinds \ {"venc"}

Choose4 ==
  /\ Asked
  /\ IF init THEN /\ flag' = [t \in Kinds |-> flag[t] /\ t \notin Stopped]
                  /\ Goto("deinit")
     ELSE Goto("over") /\ UNCHANGED flag
  /\ UNCHANGED <<init, isp, lock, layout, th, ghosts>>

Deinit ==
  /\ main.pc = "deinit" /\ lock = "free"
  /\ init' = FALSE
  /\ Goto("over")
  /\ UNCHANGED <<isp, lock, layout>> /\ Threading

(* ------------------------------ the threads ----------------------------- *)
At(t, pc) == th[t].pc = pc /\ t \in watch /\ main.pc # "failed"
Move(t, pc) == th' = [th EXCEPT ![t] = [Idle EXCEPT !.pc = pc]]
Calling == UNCHANGED <<init, isp, layout, flag, main>>

(* The loop of a thread: its flag, then its first stage.                    *)
Top(t) ==
  /\ At(t, "top")
  /\ IF ~flag[t] THEN Move(t, "done")
     ELSE /\ t = "not_linear" => mode.wdr         \* else it sleeps and looks again
          /\ Move(t, CASE t = "luminance" -> "fps" [] t = "venc" -> "rc" [] OTHER -> "pick")
  /\ Calling /\ UNCHANGED <<lock, ghosts>>

(* The frame rate setter, which does nothing, is called under the lock.     *)
TakeLock ==
  /\ At("luminance", "fps") /\ lock = "free"
  /\ lock' = "luminance"
  /\ Move("luminance", "locked")
  /\ Calling /\ UNCHANGED ghosts

FpsDone_unpaused == ~isp
FpsDone == TRUE

GiveLock ==
  /\ At("luminance", "locked") /\ FpsDone
  /\ lock' = "free"
  /\ Move("luminance", "pick")
  /\ Calling /\ UNCHANGED ghosts

(* Where the loop over the main pipes and their sub pipes goes on.          *)
AfterSub(t) == [Idle EXCEPT !.pc = "pick", !.i = th[t].i, !.j = th[t].j + 1]
AfterMain(t) == [Idle EXCEPT !.pc = th[t].pc, !.i = th[t].i + 1]
AfterCall(t) == IF t = "not_linear" THEN [AfterMain(t) EXCEPT !.pc = "pick"] ELSE AfterSub(t)
AfterSetters(t) == IF t = "normal" THEN "nr3d" ELSE "top"

(* The next pipe a setter is called for; the not_linear thread takes main   *)
(* pipes, the others their sub pipes.                                       *)
Pick(t) ==
  /\ At(t, "pick")
  /\ LET i == th[t].i  j == th[t].j IN
       IF i >= num THEN Move(t, AfterSetters(t))
       ELSE IF t = "not_linear"
            THEN th' = [th EXCEPT ![t] = [@ EXCEPT !.pc = "read", !.pipe = mp[i].hdl]]
            ELSE IF j >= Len(mp[i].sub) THEN th' = [th EXCEPT ![t] = AfterMain(t)]
                 ELSE th' = [th EXCEPT ![t] = [@ EXCEPT !.pc = "read", !.pipe = mp[i].sub[j + 1]]]
  /\ Calling /\ UNCHANGED <<lock, ghosts>>

ReadIndex(t) ==
  /\ At(t, "read")
  /\ th' = [th EXCEPT ![t] = [@ EXCEPT !.pc = "call", !.idx = mode.attr[th[t].pipe].idx]]
  /\ Calling /\ UNCHANGED <<lock, ghosts>>

(* A setter returns at once when it is switched off or nothing changed, and *)
(* looks at g_isp_pause right before each write.                            *)
MayWrite_always == TRUE
MayWrite == ~isp

Call(t) ==
  /\ At(t, "call")
  /\ \/ th' = [th EXCEPT ![t] = AfterCall(t)]
     \/ MayWrite /\ th' = [th EXCEPT ![t].pc = "write"]
  /\ Calling /\ UNCHANGED <<lock, ghosts>>

Writes_more(t) == IF t = "luminance" THEN Interval + 1 ELSE 1
Writes(t) == IF t = "luminance" THEN Interval ELSE 1
Bump(count, t, yes, max) ==
  IF yes /\ count[t] < max THEN [count EXCEPT ![t] = @ + 1] ELSE count

Write(t) ==
  /\ At(t, "write")
  /\ late' = Bump(late, t, isp, 2)
  /\ stale' = Bump(stale, t, ~Switching /\ <<th[t].pipe, th[t].idx>> \notin Pairs(mode), Interval + 1)
  /\ LET k == th[t].k + 1 IN
       th' = [th EXCEPT ![t] = IF k < Writes(t) THEN [@ EXCEPT !.pc = "call", !.k = k]
                               ELSE AfterCall(t)]
  /\ Calling /\ UNCHANGED <<lock, raw, watch>>

(* The 3DNR setter of the normal thread does not look at the pause.         *)
SetNr3d ==
  /\ At("normal", "nr3d")
  /\ LET i == th["normal"].i  j == th["normal"].j IN
       IF i >= num THEN Move("normal", "top") /\ UNCHANGED raw
       ELSE IF j >= Len(mp[i].sub) THEN th' = [th EXCEPT !["normal"] = AfterMain("normal")] /\ UNCHANGED raw
       ELSE /\ th' = [th EXCEPT !["normal"].j = j + 1]
            /\ \/ UNCHANGED raw                        \* switched off
               \/ ~mode.attr[mp[i].sub[j + 1]].snap /\ raw' = (raw \/ isp)
  /\ Calling /\ UNCHANGED <<lock, late, stale, watch>>

(* Nor does the rate control setter of the venc thread.                     *)
SetRc ==
  /\ At("venc", "rc")
  /\ IF th["venc"].i >= num THEN Move("venc", "top") /\ UNCHANGED raw
     ELSE /\ th' = [th EXCEPT !["venc"].i = @ + 1]
          /\ raw' \in {raw, raw \/ isp}
  /\ Calling /\ UNCHANGED <<lock, late, stale, watch>>

(* ---------------------------- the specification ------------------------- *)
Init ==
  /\ init = FALSE /\ isp = FALSE /\ lock = "free"
  /\ mode = NoMode /\ mp = [i \in Pipes |-> NoPipe] /\ num = 0
  /\ flag = [t \in Kinds |-> FALSE]
  /\ th = [t \in Kinds |-> Idle]
  /\ main = [pc |-> "menu", arg |-> NoMode, then |-> "menu", n |-> 1]
  /\ watch \in Watches
  /\ late = [t \in Kinds |-> 0] /\ raw = FALSE /\ stale = [t \in Kinds |-> 0]

SetMode ==
  \/ Check \/ Copy \/ Clear \/ FillMains \/ FillSubs \/ Publish
  \/ SetStatic \/ StartThread \/ Unlock

Choose == (\E m \in Modes : Choose1(m) \/ Choose3(m)) \/ Choose2 \/ Choose4

(* What a thread does without waiting for anyone.                           *)
Thread(t) ==
  \/ Top(t) \/ Pick(t) \/ ReadIndex(t) \/ Call(t) \/ Write(t)
  \/ t = "normal" /\ SetNr3d
  \/ t = "venc" /\ SetRc
  \/ t = "luminance" /\ GiveLock

Waits == Lock \/ Resume \/ Deinit

Next == Choose \/ Waits \/ SetMode \/ TakeLock \/ \E t \in Kinds : Thread(t)

Spec == Init /\ [][Next]_vars

(* Every thread runs.  The lock is free for the 100 ms the luminance thread *)
(* sleeps, so whoever waits for it gets it in the end; the user need not    *)
(* choose anything.                                                         *)
FairSpec ==
  /\ Spec
  /\ WF_vars(SetMode)
  /\ SF_vars(Waits) /\ SF_vars(TakeLock)
  /\ \A t \in Kinds : WF_vars(Thread(t))

(* ------------------------------- properties ----------------------------- *)
TypeOK ==
  /\ {init, isp, raw} \subseteq BOOLEAN
  /\ lock \in {"free", "main", "luminance"}
  /\ mode \in Modes \union {NoMode}
  /\ mp \in [Pipes -> [hdl : Pipes, sub : Seq(Pipes)]]
  /\ num \in 0 .. N
  /\ flag \in [Kinds -> BOOLEAN]
  /\ th \in [Kinds -> [pc : {"none", "top", "fps", "locked", "pick", "read", "call", "write",
                             "nr3d", "rc", "done"},
                       i : Nat, j : Nat, pipe : Pipes, idx : Nat, k : Nat]]
  /\ main.arg \in Modes \union {NoMode}
  /\ main.n \in DOMAIN Threads
  /\ main.pc \in {"menu", "lock", "check", "copy", "clear", "mains", "subs", "publish",
                  "static", "start", "unlock", "resume", "deinit", "over", "failed"}
  /\ late \in [Kinds -> 0 .. 2]
  /\ stale \in [Kinds -> 0 .. Interval + 1]

(* But while a call rearranges it, and also after one that failed, the      *)
(* layout is that of the mode: its main pipes once each, every enabled pipe *)
(* under exactly one of them, and nothing left of the mode before.          *)
LayoutFollowsMode ==
  main.pc \notin {"clear", "mains", "subs", "publish"} =>
    /\ num = Cardinality({mode.attr[p].main : p \in Enabled(mode)})
    /\ \A i \in Pipes : i >= num => mp[i] = NoPipe
    /\ \A p \in Pipes :
         Cardinality({at \in Pipes \X (1 .. N) :
                        at[2] <= Len(mp[at[1]].sub) /\ mp[at[1]].sub[at[2]] = p})
           = (IF mode.attr[p].on THEN 1 ELSE 0)
    /\ \A i \in 0 .. num - 1 : \A p \in Range(mp[i].sub) : mode.attr[p].main = mp[i].hdl

(* After ot_scene_pause(TRUE) has returned, a setter that looks at the      *)
(* pause writes at most once more per thread: the one that had looked.      *)
OneLateWrite == \A t \in Kinds : late[t] <= 1

(* After ot_scene_set_scene_mode has returned, a thread writes a pair of    *)
(* pipe and parameter index that the mode does not have at most in the one  *)
(* setter call it was in.                                                   *)
OneStaleCall == \A t \in Kinds : stale[t] <= (IF t = "luminance" THEN Interval ELSE 1)

(* What ot_scene.h promises of the pause: "when Pause is true, the          *)
(* sceneauto thread can's set param executed".                              *)
PauseHolds == ~raw /\ \A t \in Kinds : late[t] = 0

(* A call of the library comes to an end although the luminance thread      *)
(* takes the same lock over and over.                                       *)
CallsReturn == Switching ~> main.pc \in {"menu", "failed"}

(* After ot_scene_deinit the threads of the ISP leave their loops.          *)
ThreadsEnd ==
  main.pc = "over" ~> \A t \in watch \ {"venc"} : th[t].pc \in {"none", "done"}
=============================================================================
