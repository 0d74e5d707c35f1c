------------------------ MODULE NodeLifecycleProofs ------------------------
(***************************************************************************)
(* What NodeLifecycle promises, for any goroutines and any number of       *)
(* attempts, processes, stops and crashes: which processes of the node a   *)
(* goroutine can leave behind, and when node.process may be nil.           *)
(***************************************************************************)
EXTENDS NodeLifecycle, TLAPS

-----------------------------------------------------------------------------
(* The inductive invariant                                                 *)

\* Crash handlers run inside a call or a restart and nowhere else; what a
\* handler returns to is what raised the crash event.
Nesting(t) ==
  /\ pc[t] \in {"idle", "failed", "send", "stopped", "exit"} => depth[t] = 0
  /\ pc[t] = "send" => base[t] = "send"
  /\ depth[t] > 0 => base[t] # "exit"
  /\ pc[t] \in {"destroy", "kill", "clear", "exec", "boot", "sync", "stopped"}
       /\ depth[t] = 0 => base[t] # "send"
  /\ pc[t] \notin {"destroy", "kill", "clear", "exit"} => base[t] # "exit"

\* A call has an attempt left until it has failed.
AttemptLeft(t) ==
  base[t] = "send" /\ pc[t] \notin {"idle", "failed"} => attempts[t] > 0

\* Between two handlers, one inside the other, a process was started.
DepthCounted(t) ==
  \/ depth[t] < npid
  \/ depth[t] = npid /\ pc[t] \in {"destroy", "kill", "clear", "exec"}

\* A goroutine that uses the node alone knows all its processes, and has
\* ended them before it starts another one or exits.
Sole(t) ==
  Alone(t) =>
    /\ alive \subseteq {process}
    /\ pc[t] \in {"clear", "exec", "stopped", "exit"} => alive = {}
    /\ status = "exited" => pc[t] = "exit"

\* Whoever finds or leaves node.process nil is about to set it, or exits.
Rebuilt ==
  process = 0 => \E t \in Threads : pc[t] \in {"exec", "stopped"} \/ base[t] = "exit"

Nested == \A t \in Threads : Nesting(t) /\ AttemptLeft(t) /\ DepthCounted(t)
IInv == TypeOK /\ Nested /\ (\A t \in Threads : Sole(t)) /\ Rebuilt

-----------------------------------------------------------------------------
(* Initially                                                               *)

\* One process, no handler, every goroutine idle.
THEOREM Initially == Init => IInv
<1> SUFFICES ASSUME Init PROVE IInv OBVIOUS
<1> USE NodeAssumption DEF Init, Threads
<1>1. PICK T \in ThreadSets : pc = [t \in T |-> "idle"] OBVIOUS
<1>2. TypeOK BY <1>1 DEF TypeOK, Pids
<1>3. Nested BY <1>1 DEF Nested, Nesting, AttemptLeft, DepthCounted
<1>4. \A t \in Threads : Sole(t) BY <1>1 DEF Sole
<1>5. Rebuilt BY DEF Rebuilt
<1> QED BY <1>2, <1>3, <1>4, <1>5 DEF IInv

-----------------------------------------------------------------------------
(* One step of one goroutine                                               *)

\* No step adds a goroutine or takes one away.
LEMMA SameThreads ==
  ASSUME IInv, [Next]_vars
  PROVE  Threads' = Threads
<1>1. CASE UNCHANGED vars BY <1>1 DEF vars, Threads
<1>2. ASSUME NEW t \in Threads, Step(t) PROVE Threads' = Threads
      BY <1>2 DEF Step, Call, Answered, TimedOut, Refused, RefusedInactive, Destroy,
         Kill, Clear, Stop, Start, Exec, Waited, Synced, Fail, StartFails, Exit,
         Goto, vars, Threads
<1>3. CASE NodeCrash \/ NodeListens
      BY <1>3 DEF NodeCrash, NodeListens, Threads
<1> QED BY <1>1, <1>2, <1>3 DEF Next, Ended, Idle

\* A step of a goroutine keeps the types of all there is.
LEMMA StepTypes ==
  ASSUME IInv, NEW t \in Threads, Step(t)
  PROVE  TypeOK'
<1> USE NodeAssumption DEF Threads, Goto, At, Pids
<1>1. TypeOK /\ Nesting(t) /\ AttemptLeft(t) /\ DepthCounted(t) BY DEF IInv, Nested
<1>2. CASE Call(t) BY <1>1, <1>2 DEF TypeOK, Call
<1>3. CASE Answered(t) BY <1>1, <1>3 DEF TypeOK, Answered
<1>4. CASE TimedOut(t) BY <1>1, <1>4 DEF TypeOK, TimedOut, Nesting, AttemptLeft
<1>5. CASE Refused(t) BY <1>1, <1>5 DEF TypeOK, Refused, DepthCounted
<1>6. CASE RefusedInactive(t) BY <1>1, <1>6 DEF TypeOK, RefusedInactive, vars
<1>7. CASE Destroy(t) BY <1>1, <1>7 DEF TypeOK, Destroy, Destroyed
<1>8. CASE Kill(t) BY <1>1, <1>8 DEF TypeOK, Kill
<1>9. CASE Clear(t) BY <1>1, <1>9 DEF TypeOK, Clear, Destroyed
<1>10. CASE Stop(t)
  <2>1. active' \in BOOLEAN BY <1>10 DEF Stop
  <2>2. stops' \in 0..MaxStops /\ base' \in [Threads -> {"send", "sync", "exit"}]
        BY <1>1, <1>10 DEF TypeOK, Stop
  <2> QED BY <1>1, <1>10, <2>1, <2>2 DEF TypeOK, Stop
<1>11. CASE Start(t) BY <1>1, <1>11 DEF TypeOK, Start
<1>12. CASE Exec(t) BY <1>1, <1>12 DEF TypeOK, Exec
<1>13. CASE Waited(t) BY <1>1, <1>13 DEF TypeOK, Waited
<1>14. CASE Synced(t) BY <1>1, <1>14 DEF TypeOK, Synced, Nesting
<1>15. CASE Fail(t) BY <1>1, <1>15 DEF TypeOK, Fail
<1>16. CASE StartFails(t) BY <1>1, <1>16 DEF TypeOK, StartFails
<1>17. CASE Exit(t) BY <1>1, <1>17 DEF TypeOK, Exit
<1> QED BY <1>2, <1>3, <1>4, <1>5, <1>6, <1>7, <1>8, <1>9, <1>10, <1>11, <1>12,
           <1>13, <1>14, <1>15, <1>16, <1>17 DEF Step

\* A step of a goroutine keeps the handlers of all of them in order: those of
\* the others are untouched, and their depth is counted by a number that only
\* grows.
LEMMA StepNested ==
  ASSUME IInv, NEW t \in Threads, Step(t), NEW u \in Threads
  PROVE  Nesting(u)' /\ AttemptLeft(u)' /\ DepthCounted(u)'
<1> USE NodeAssumption DEF Threads, Goto, At, Pids
<1>1. /\ TypeOK /\ Nesting(t) /\ AttemptLeft(t) /\ DepthCounted(t)
      /\ Nesting(u) /\ AttemptLeft(u) /\ DepthCounted(u)
      BY DEF IInv, Nested
<1>2. /\ DOMAIN base = Threads /\ depth \in [Threads -> Nat]
      /\ attempts \in [Threads -> 0..Attempts] /\ npid \in Nat \ {0}
      BY <1>1 DEF TypeOK
<1> USE <1>1, <1>2 DEF Nesting, AttemptLeft, DepthCounted
<1>3. CASE Call(t) BY <1>3 DEF Call
<1>4. CASE Answered(t) BY <1>4 DEF Answered
<1>5. CASE TimedOut(t) BY <1>5 DEF TimedOut
<1>6. CASE Refused(t) BY <1>6 DEF Refused
<1>7. CASE RefusedInactive(t) BY <1>7 DEF RefusedInactive, vars
<1>8. CASE Destroy(t) BY <1>8 DEF Destroy, Destroyed
<1>9. CASE Kill(t) BY <1>9 DEF Kill
<1>10. CASE Clear(t) BY <1>10 DEF Clear, Destroyed
<1>11. CASE Stop(t) BY <1>11 DEF Stop
<1>12. CASE Start(t) BY <1>12 DEF Start
<1>13. CASE Exec(t) BY <1>13 DEF Exec
<1>14. CASE Waited(t) BY <1>14 DEF Waited
<1>15. CASE Synced(t) BY <1>15 DEF Synced, TypeOK
<1>16. CASE Fail(t) BY <1>16 DEF Fail
<1>17. CASE StartFails(t) BY <1>17 DEF StartFails
<1>18. CASE Exit(t) BY <1>18 DEF Exit
<1> QED BY <1>3, <1>4, <1>5, <1>6, <1>7, <1>8, <1>9, <1>10, <1>11, <1>12, <1>13,
           <1>14, <1>15, <1>16, <1>17, <1>18 DEF Step

\* A goroutine that is alone with the node keeps track of its processes.
LEMMA StepSole ==
  ASSUME IInv, NEW t \in Threads, Step(t), NEW u \in Threads
  PROVE  Sole(u)'
<1> USE NodeAssumption DEF Threads, Goto, At, Pids
<1>1. Threads' = Threads BY SameThreads DEF Next
<1>2. SUFFICES ASSUME Alone(t), u = t, Sole(t) PROVE Sole(t)'
      BY <1>1 DEF Sole, Alone, IInv
<1>3. TypeOK /\ Nesting(t) BY DEF IInv, Nested
<1>4. /\ alive \subseteq {process} /\ alive \subseteq 1..npid
      /\ pc[t] \in {"clear", "exec", "stopped", "exit"} => alive = {}
      /\ status = "exited" => pc[t] = "exit"
      /\ depth \in [Threads -> Nat] /\ npid \in Nat
      BY <1>2, <1>3 DEF Sole, TypeOK
<1> USE <1>4 DEF Sole
<1>5. CASE Call(t) BY <1>5 DEF Call
<1>6. CASE Answered(t) BY <1>6 DEF Answered
<1>7. CASE TimedOut(t) BY <1>7 DEF TimedOut
<1>8. CASE Refused(t) BY <1>8 DEF Refused
<1>9. CASE RefusedInactive(t) BY <1>9 DEF RefusedInactive, vars
<1>10. CASE Destroy(t) BY <1>10 DEF Destroy, Destroyed
<1>11. CASE Kill(t) BY <1>11 DEF Kill
<1>12. CASE Clear(t) BY <1>12 DEF Clear, Destroyed
<1>13. CASE Stop(t) BY <1>3, <1>13 DEF Stop, Nesting
<1>14. CASE Start(t) BY <1>14 DEF Start
<1>15. CASE Exec(t) BY <1>15 DEF Exec
<1>16. CASE Waited(t) BY <1>16 DEF Waited
<1>17. CASE Synced(t) BY <1>3, <1>17 DEF Synced, TypeOK, Nesting
<1>18. CASE Fail(t) BY <1>18 DEF Fail
<1>19. CASE StartFails(t) BY <1>19 DEF StartFails
<1>20. CASE Exit(t) BY <1>20 DEF Exit
<1> QED BY <1>5, <1>6, <1>7, <1>8, <1>9, <1>10, <1>11, <1>12, <1>13, <1>14, <1>15,
           <1>16, <1>17, <1>18, <1>19, <1>20 DEF Step

\* Whoever clears node.process goes on to set it, or to end the bot, whoever
\* else is at work.
LEMMA StepRebuilt ==
  ASSUME IInv, NEW t \in Threads, Step(t)
  PROVE  Rebuilt'
<1> USE NodeAssumption DEF Threads, Goto, At
<1>1. TypeOK /\ Nesting(t) /\ Rebuilt BY DEF IInv, Nested
<1>2. Threads' = Threads BY SameThreads DEF Next
<1> DEFINE Setting == pc[t] \in {"exec", "stopped"} \/ base[t] = "exit"
<1>3. DOMAIN base = Threads BY <1>1 DEF TypeOK
<1>4. CASE Exec(t) BY <1>1, <1>4 DEF Exec, Rebuilt, TypeOK, Pids
<1>5. CASE Clear(t)
  <2>1. Setting' BY <1>1, <1>5 DEF Clear, Destroyed, Nesting
  <2> QED BY <1>2, <2>1 DEF Rebuilt
<1>6. CASE /\ Setting => Setting'
           /\ \A u \in Threads \ {t} : pc'[u] = pc[u] /\ base'[u] = base[u]
           /\ process' = process
      BY <1>1, <1>2, <1>6 DEF Rebuilt
<1>7. CASE Call(t) \/ Answered(t) \/ TimedOut(t) \/ Refused(t) \/ RefusedInactive(t)
      BY <1>1, <1>3, <1>6, <1>7
         DEF Nesting, Call, Answered, TimedOut, Refused, RefusedInactive, vars
<1>8. CASE Destroy(t) \/ Kill(t) \/ Stop(t) \/ Start(t)
      BY <1>1, <1>3, <1>6, <1>8 DEF Nesting, Destroy, Kill, Stop, Start
<1>9. CASE Waited(t) \/ Synced(t) \/ Fail(t) \/ StartFails(t) \/ Exit(t)
      BY <1>3, <1>6, <1>9 DEF Waited, Synced, Fail, StartFails, Exit
<1> QED BY <1>4, <1>5, <1>7, <1>8, <1>9 DEF Step

-----------------------------------------------------------------------------
(* The theorems                                                            *)

\* A node that crashes or begins to listen disturbs no goroutine.
LEMMA NodeKeeps == IInv /\ (NodeCrash \/ NodeListens) => IInv'
<1> SUFFICES ASSUME IInv, NodeCrash \/ NodeListens PROVE IInv' OBVIOUS
<1> USE NodeAssumption DEF NodeCrash, NodeListens, Threads
<1>1. TypeOK' BY DEF IInv, TypeOK, Pids
<1>2. Nested' BY DEF IInv, Nested, Nesting, AttemptLeft, DepthCounted
<1>3. \A t \in Threads' : Sole(t)' BY DEF IInv, Sole, Alone
<1>4. Rebuilt' BY DEF IInv, Rebuilt
<1> QED BY <1>1, <1>2, <1>3, <1>4 DEF IInv

\* Every interleaving of calls, stops, starts, crashes and exits keeps the
\* inductive invariant.
THEOREM Invariance == Spec => []IInv
<1>1. IInv /\ [Next]_vars => IInv'
  <2> SUFFICES ASSUME IInv, [Next]_vars PROVE IInv' OBVIOUS
  <2>1. Threads' = Threads BY SameThreads
  <2>2. ASSUME NEW t \in Threads, Step(t) PROVE IInv'
    <3>1. TypeOK' BY <2>2, StepTypes
    <3>2. Nested' BY <2>1, <2>2, StepNested DEF Nested
    <3>3. \A u \in Threads' : Sole(u)' BY <2>1, <2>2, StepSole
    <3>4. Rebuilt' BY <2>2, StepRebuilt
    <3> QED BY <3>1, <3>2, <3>3, <3>4 DEF IInv
  <2>3. CASE NodeCrash \/ NodeListens BY <2>3, NodeKeeps
  <2>4. CASE UNCHANGED vars
        BY <2>4 DEF vars, IInv, TypeOK, Nested, Nesting, AttemptLeft, DepthCounted,
                    Sole, Alone, Rebuilt, Threads
  <2> QED BY <2>2, <2>3, <2>4 DEF Next, Ended, Idle
<1> QED BY <1>1, Initially, PTL DEF Spec

\* Node, user, client and crash handler are type correct; the handlers inside
\* one another are never more than the processes started.
THEOREM TypeCorrect == Spec => []TypeOK
<1>1. IInv => TypeOK BY DEF IInv
<1> QED BY <1>1, Invariance, PTL

\* A goroutine that uses a node alone never loses a running process of it:
\* killProcess ends what Start has started, through any number of crashes,
\* restarts inside restarts and stops.
THEOREM NothingOrphaned == Spec => []NoOrphan
<1>1. IInv => NoOrphan BY DEF IInv, Sole, NoOrphan
<1> QED BY <1>1, Invariance, PTL

\* handleError leaves no process behind.
THEOREM ExitEndsAll == Spec => []NothingSurvives
<1>1. IInv => NothingSurvives BY DEF IInv, Sole, NothingSurvives
<1> QED BY <1>1, Invariance, PTL

\* Whatever the goroutines do to one another's restarts, node.process is set
\* once nobody restarts the node.
THEOREM AlwaysManaged == Spec => []Managed
<1>1. IInv => Managed BY DEF IInv, Rebuilt, Managed, Nested, Nesting
<1> QED BY <1>1, Invariance, PTL
=============================================================================
