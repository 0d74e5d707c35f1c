--------------------------- MODULE NodeLifecycle ---------------------------
(***************************************************************************)
(* One user's node and the goroutines that use it: Node.Start, Stop and    *)
(* Destroy, user.Start and Stop, the RPC retry loop of the client, and the *)
(* handler of the node-crashed event, which runs inside the call that      *)
(* noticed the crash.  Nothing in the code serialises these goroutines.    *)
(***************************************************************************)
EXTENDS Naturals, FiniteSets

CONSTANTS
  ThreadSets,   (* the sets of goroutines that may use the node            *)
  Callers,      (* those that send RPC requests                            *)
  Switchers,    (* those that stop and start the node by the scenario      *)
  Exiters,      (* those that may end in handleError                       *)
  Attempts,     (* attempts of sendRequest (5 in the code)                 *)
  MaxPid,       (* bounds the processes ever started                       *)
  MaxStops,     (* bounds the stops of the scenario                        *)
  MaxCrashes    (* bounds the crashes and the slow starts of the node      *)

ASSUME NodeAssumption ==
  /\ UNION ThreadSets = Callers \cup Switchers \cup Exiters
  /\ Attempts \in Nat \ {0} /\ MaxPid \in Nat \ {0}
  /\ MaxStops \in Nat /\ MaxCrashes \in Nat

VARIABLES
  active,       (* user.active                                             *)
  process,      (* node.process: the pid, or 0 for nil                     *)
  alive,        (* pids of running processes of this node                  *)
  up,           (* pids that have begun to accept connections              *)
  npid,         (* last pid given out                                      *)
  crashes,      (* crashes and slow starts so far                          *)
  stops,        (* stops so far                                            *)
  pc,           (* per goroutine, where it is                              *)
  base,         (* per goroutine, what it does: a call ("send"), a restart
                   ("sync") or handleError ("exit")                        *)
  depth,        (* per goroutine, number of crash handlers it is inside    *)
  attempts,     (* per goroutine, sendRequest's counter                    *)
  status        (* "running", "panicked" or "exited"                       *)

vars == <<active, process, alive, up, npid, crashes, stops, pc, base, depth,
          attempts, status>>

Pids == 1..MaxPid

\* The goroutines that use the node; one that does so alone.
Threads == DOMAIN pc
Alone(t) == Threads = {t}

\* The node is up before a session begins (createEpochNewUsers started it).
Init ==
  /\ active = TRUE
  /\ process = 1 /\ alive = {1} /\ up = {1} /\ npid = 1
  /\ crashes = 0 /\ stops = 0
  /\ \E T \in ThreadSets : pc = [t \in T |-> "idle"]
  /\ base = [t \in Threads |-> "send"]
  /\ depth = [t \in Threads |-> 0]
  /\ attempts = [t \in Threads |-> Attempts]
  /\ status = "running"

At(t, p) == status = "running" /\ pc[t] = p
Goto(t, p) == pc' = [pc EXCEPT ![t] = p]

\* Some process of the node accepts connections.
Answers == alive \cap up # {}

-----------------------------------------------------------------------------
(* Client.sendRequest with retry                                           *)

\* The session tests IsActive() before it uses the node.
Call(t) ==
  /\ At(t, "idle") /\ t \in Callers /\ active
  /\ base' = [base EXCEPT ![t] = "send"]
  /\ attempts' = [attempts EXCEPT ![t] = Attempts]
  /\ Goto(t, "send")
  /\ UNCHANGED <<active, process, alive, up, npid, crashes, stops, depth, status>>

Answered(t) ==
  /\ At(t, "send") /\ Answers
  /\ Goto(t, "idle")
  /\ UNCHANGED <<active, process, alive, up, npid, crashes, stops, base, depth,
                 attempts, status>>

\* A request that times out uses up an attempt; the last one is an error.
TimedOut(t) ==
  /\ At(t, "send") /\ Answers
  /\ attempts' = [attempts EXCEPT ![t] = @ - 1]
  /\ Goto(t, IF attempts[t] > 1 THEN "send" ELSE "failed")
  /\ UNCHANGED <<active, process, alive, up, npid, crashes, stops, base, depth,
                 status>>

\* Mutant: the event is lost, and no subscriber restarts the node.
RefusedUnheard(t) == At(t, "send") /\ ~Answers /\ UNCHANGED vars

\* Connection refused, by the request itself or by CheckSyncing of
\* waitForSync: the crash event is published and handled at once.  No attempt
\* is used up.  The handler leaves a user alone that is not active.
Refused(t) ==
  /\ status = "running" /\ pc[t] \in {"send", "sync"} /\ ~Answers
  /\ active
  /\ depth' = [depth EXCEPT ![t] = @ + 1]
  /\ Goto(t, "destroy")
  /\ UNCHANGED <<active, process, alive, up, npid, crashes, stops, base, attempts,
                 status>>

RefusedInactive(t) ==
  /\ status = "running" /\ pc[t] \in {"send", "sync"} /\ ~Answers
  /\ ~active
  /\ UNCHANGED vars

-----------------------------------------------------------------------------
(* Node.Destroy: nil check, Kill, process = nil                            *)

\* Where the goroutine that destroyed the node goes on.
Destroyed(t) == IF depth[t] > 0 THEN "exec"
                ELSE IF base[t] = "exit" THEN "exit" ELSE "stopped"

\* Mutant: The nil check of Destroy is inverted.
DestroyInverted(t) ==
  /\ At(t, "destroy")
  /\ Goto(t, IF process # 0 THEN Destroyed(t) ELSE "kill")
  /\ UNCHANGED <<active, process, alive, up, npid, crashes, stops, base, depth,
                 attempts, status>>

Destroy(t) ==
  /\ At(t, "destroy")
  /\ Goto(t, IF process = 0 THEN Destroyed(t) ELSE "kill")
  /\ UNCHANGED <<active, process, alive, up, npid, crashes, stops, base, depth,
                 attempts, status>>

\* node.process is read again; a nil process panics.
Kill(t) ==
  /\ At(t, "kill")
  /\ IF process = 0
     THEN status' = "panicked" /\ UNCHANGED <<alive, pc>>
     ELSE alive' = alive \ {process} /\ Goto(t, "clear") /\ UNCHANGED status
  /\ UNCHANGED <<active, process, up, npid, crashes, stops, base, depth, attempts>>

Clear(t) ==
  /\ At(t, "clear")
  /\ process' = 0
  /\ Goto(t, Destroyed(t))
  /\ UNCHANGED <<active, alive, up, npid, crashes, stops, base, depth, attempts,
                 status>>

-----------------------------------------------------------------------------
(* user.Start and user.Stop                                                *)

\* user.Stop: active is cleared before the node is killed.
Stop(t) ==
  /\ At(t, "idle") /\ t \in Switchers /\ active /\ stops < MaxStops
  /\ active' = FALSE
  /\ stops' = stops + 1
  /\ base' = [base EXCEPT ![t] = "sync"]
  /\ Goto(t, "destroy")
  /\ UNCHANGED <<process, alive, up, npid, crashes, depth, attempts, status>>

\* The scenario starts the node again.
Start(t) ==
  /\ At(t, "stopped")
  /\ Goto(t, "exec")
  /\ UNCHANGED <<active, process, alive, up, npid, crashes, stops, base, depth,
                 attempts, status>>

\* Mutant: Node.Start forgets to keep command.Process.
ExecUnrecorded(t) ==
  /\ At(t, "exec") /\ npid < MaxPid
  /\ npid' = npid + 1
  /\ alive' \in IF alive = {} THEN {{npid'}} ELSE {alive, {npid'}}
  /\ Goto(t, "boot")
  /\ UNCHANGED <<active, process, up, crashes, stops, base, depth, attempts, status>>

\* Node.Start: a process is started and remembered.  Of two processes of one
\* node only one gets its ports and its database; the other ends.
Exec(t) ==
  /\ At(t, "exec") /\ npid < MaxPid
  /\ npid' = npid + 1
  /\ process' = npid'
  /\ alive' \in IF alive = {} THEN {{npid'}} ELSE {alive, {npid'}}
  /\ Goto(t, "boot")
  /\ UNCHANGED <<active, up, crashes, stops, base, depth, attempts, status>>

\* The end of startWaitingTime: as a rule the node has come up by then, or
\* ended; a slow start takes longer, and waitForSync is refused.
Waited(t) ==
  /\ At(t, "boot")
  /\ IF process \in alive \ up THEN crashes < MaxCrashes /\ crashes' = crashes + 1
                              ELSE crashes' = crashes
  /\ Goto(t, "sync")
  /\ UNCHANGED <<active, process, alive, up, npid, stops, base, depth, attempts,
                 status>>

\* waitForSync answered: the user is active, and the outermost request or
\* waitForSync that met the crash is tried again.
Synced(t) ==
  /\ At(t, "sync") /\ Answers
  /\ active' = TRUE
  /\ depth' = [depth EXCEPT ![t] = IF @ = 0 THEN 0 ELSE @ - 1]
  /\ Goto(t, CASE depth[t] = 0 -> "idle"
               [] depth[t] = 1 -> base[t]
               [] OTHER        -> "sync")
  /\ UNCHANGED <<process, alive, up, npid, crashes, stops, base, attempts, status>>

-----------------------------------------------------------------------------
(* handleError: destroy(), then os.Exit; and the world outside             *)

\* Mutant: handleError exits without destroy().
FailAtOnce(t) ==
  /\ status = "running" /\ pc[t] \in {"idle", "failed"} /\ t \in Exiters
  /\ base' = [base EXCEPT ![t] = "exit"]
  /\ Goto(t, "exit")
  /\ UNCHANGED <<active, process, alive, up, npid, crashes, stops, depth,
                 attempts, status>>

Fail(t) ==
  /\ status = "running" /\ pc[t] \in {"idle", "failed"} /\ t \in Exiters
  /\ base' = [base EXCEPT ![t] = "exit"]
  /\ Goto(t, "destroy")
  /\ UNCHANGED <<active, process, alive, up, npid, crashes, stops, depth,
                 attempts, status>>

\* Node.Start or the answer to CheckSyncing is an error: handleError, wherever
\* the node is started, also in the crash handler inside a call.
StartFails(t) ==
  /\ At(t, "exec") \/ (At(t, "sync") /\ Answers)
  /\ base' = [base EXCEPT ![t] = "exit"]
  /\ depth' = [depth EXCEPT ![t] = 0]
  /\ Goto(t, "destroy")
  /\ UNCHANGED <<active, process, alive, up, npid, crashes, stops, attempts, status>>

Exit(t) ==
  /\ At(t, "exit")
  /\ status' = "exited"
  /\ UNCHANGED <<active, process, alive, up, npid, crashes, stops, pc, base,
                 depth, attempts>>

NodeCrash ==
  /\ status = "running" /\ crashes < MaxCrashes
  /\ \E p \in alive : alive' = alive \ {p}
  /\ crashes' = crashes + 1
  /\ UNCHANGED <<active, process, up, npid, stops, pc, base, depth, attempts,
                 status>>

NodeListens ==
  /\ status = "running"
  /\ \E p \in alive \ up : up' = up \cup {p}
  /\ UNCHANGED <<active, process, alive, npid, crashes, stops, pc, base, depth,
                 attempts, status>>

\* The process ended, or every goroutine waits for something that is bounded.
Ended == status # "running" /\ UNCHANGED vars
Idle  == /\ \A t \in Threads : \/ pc[t] \in {"idle", "failed"}
                               \/ pc[t] = "exec" /\ npid = MaxPid
         /\ UNCHANGED vars

Step(t) ==
  \/ Call(t) \/ Answered(t) \/ TimedOut(t) \/ Refused(t) \/ RefusedInactive(t)
  \/ Destroy(t) \/ Kill(t) \/ Clear(t) \/ Stop(t) \/ Start(t) \/ Exec(t)
  \/ Waited(t) \/ Synced(t) \/ Fail(t) \/ StartFails(t) \/ Exit(t)

Next == (\E t \in Threads : Step(t)) \/ NodeCrash \/ NodeListens \/ Ended \/ Idle

Spec == Init /\ [][Next]_vars

\* What a goroutine has begun it goes on with; nobody has to begin a call, a
\* stop or an exit, and a node need not crash or time out.
Progress(t) == \/ Answered(t) \/ TimedOut(t) \/ Refused(t) \/ Destroy(t) \/ Kill(t)
               \/ Clear(t) \/ Start(t) \/ Exec(t) \/ Waited(t) \/ Synced(t)
               \/ Exit(t)
FairSpec == /\ Spec /\ WF_vars(NodeListens)
            /\ \A t \in UNION ThreadSets : WF_vars(t \in Threads /\ Progress(t))

-----------------------------------------------------------------------------
(* Properties                                                              *)

TypeOK ==
  /\ active \in BOOLEAN
  /\ process \in 0..MaxPid /\ npid \in Pids /\ alive \subseteq 1..npid /\ up \subseteq 1..npid
  /\ crashes \in 0..MaxCrashes /\ stops \in 0..MaxStops
  /\ pc \in [Threads -> {"idle", "send", "failed", "destroy", "kill", "clear",
                         "exec", "boot", "sync", "stopped",
                         "exit"}]
  /\ base \in [Threads -> {"send", "sync", "exit"}]
  /\ depth \in [Threads -> 0..MaxPid]
  /\ attempts \in [Threads -> 0..Attempts]
  /\ status \in {"running", "panicked", "exited"}

\* As long as one goroutine uses the node, every running process of it is the
\* one node.process refers to, so that Stop and destroy can end it.
NoOrphan == \A t \in Threads : Alone(t) => alive \subseteq {process}

\* Whoever restarts the node, once nobody is at work on it node.process is
\* set, and Stop or destroy can reach the process it refers to: Destroy's
\* process = nil never outlives the restart that it precedes.
Managed == (\A t \in Threads : pc[t] \in {"idle", "send", "failed"}) =>
             process # 0

\* Nothing survives the end of the bot: handleError destroys every node, if
\* nobody starts it meanwhile.
NothingSurvives ==
  \A t \in Threads : Alone(t) => (status = "exited" => alive = {})

Calling(t) == Alone(t) /\ base[t] = "send" /\ pc[t] \notin {"idle", "failed"}

\* Every call ends, in an answer, in an error or with the bot, although refused
\* connections use up no attempt and every restart may meet another crash or be
\* slow: the crash handlers, one inside the other, bring the node back.
CallEnds == \A t \in Callers : Calling(t) ~> ~Calling(t)

=============================================================================
