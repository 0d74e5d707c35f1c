------------------------------ MODULE EpochRun ------------------------------
(***************************************************************************)
(* The main loop of a bot: Process.Start, createEpochNewUsers, test and    *)
(* the verification session goroutines started by testUsers, as far as     *)
(* they share process.users, process.wg, process.es, process.mutex and     *)
(* process.testCounter.  What a session does to its node and to the chain  *)
(* is left to other modules; here it takes steps, may skip the epoch, may  *)
(* create users after its flips and may fail.                              *)
(***************************************************************************)
EXTENDS Integers, Sequences, FiniteSets

CONSTANTS
  GodMode,      (* TRUE for the bot that runs the god node (user 0)        *)
  MaxEpoch,     (* bounds testCounter: the code's loop never ends          *)
  Before,       (* per epoch, the counts of sc.EpochNewUsersBeforeFlips    *)
  After,        (* all sections of sc.EpochNewUsersAfterFlips, in order    *)
  Skips,        (* <<epoch, user>>: the user skips that ceremony           *)
  Switches,     (* <<epoch, user>>: scenario starts or stops its node      *)
  Faulty,       (* users on whose behalf an operation may fail             *)
  Patient       (* TRUE: the test timeout outlasts every running session   *)

SectionT == [epoch : Nat, inviter : Nat, count : Nat \ {0}]

ASSUME ScenarioAssumption ==
  /\ GodMode \in BOOLEAN /\ Patient \in BOOLEAN
  /\ MaxEpoch \in Nat
  /\ Before \in [0..MaxEpoch -> Seq(Nat \ {0})]
  /\ After \in Seq(SectionT)

VARIABLES
  testCounter,  (* process.testCounter                                     *)
  nusers,       (* len(process.users); a user's index is its position      *)
  active,       (* users u with u.IsActive()                               *)
  locked,       (* process.mutex is held by a thread that is exiting       *)
  wg,           (* counter of process.wg                                   *)
  recorded,     (* keys of process.es.userStates                           *)
  mpc,          (* where the main goroutine is                             *)
  bidx,         (* main: next section of Before[testCounter]               *)
  pc,           (* per session of this epoch, where it is                  *)
  usr,          (* per session, the user it tests                          *)
  todo,         (* per session, after-flips sections it still has to run   *)
  fresh,        (* per session, users it created and has not yet tested    *)
  status        (* "running", "exited" (os.Exit) or "panicked"             *)

svars == <<pc, usr, todo, fresh>>
vars  == <<testCounter, nusers, active, locked, wg, recorded, mpc, bidx,
           pc, usr, todo, fresh, status>>

(***************************************************************************)
(* A session is named <<epoch, section, k, round>>: the k-th user of the   *)
(* testUsers call made for that section (section 0: the call of test()).   *)
(* round tells two calls for one section apart.                            *)
(***************************************************************************)
SessionName == (0..MaxEpoch) \X (0..Len(After)) \X Nat \X Nat
Sessions == DOMAIN pc
Live == {t \in Sessions : pc[t] # "done"}
SameCall(x, y) == x[1] = y[1] /\ x[2] = y[2] /\ x[4] = y[4]

\* Mutant: one session too many.
MainSessionsOffByOne(e, n) == {<<e, 0, k, 1>> : k \in 1..(n + 1)}

MainSessions(e, n) == {<<e, 0, k, 1>> : k \in 1..n}

\* Mutant: the tail of the user list begins one user too early.
TailSessionsShifted(e, s, r) ==
  {<<e, s, k, r>> : k \in 0..(After[s].count - 1)}

TailSessions(e, s, r) == {<<e, s, k, r>> : k \in 1..After[s].count}
AfterSections(e) == {s \in DOMAIN After : After[s].epoch = e}

\* Mutants: wg.Add forgets newUsers; or newUsers adds up over the epochs.
AfterSessionsNotCounted(e) == {}
AfterSessionsCumulative(e) ==
  UNION {TailSessions(e, s, 1) : s \in UNION {AfterSections(d) : d \in 0..e}}

AfterSessions(e) == UNION {TailSessions(e, s, 1) : s \in AfterSections(e)}

\* The sections the inviter handles; a section without inviter has index 0.
SectionsOf(e, u) == {s \in AfterSections(e) : After[s].inviter = u}

\* excludeGodNode: the god node alone counts as the first of the new users.
NewUsers(count) == IF GodMode /\ nusers = 1 THEN count - 1 ELSE count

Running == status = "running"

Init ==
  /\ testCounter = 0
  /\ nusers = IF GodMode THEN 1 ELSE 0
  /\ active = IF GodMode THEN {0} ELSE {}
  /\ locked = FALSE
  /\ wg = 0
  /\ recorded = {}
  /\ mpc = "before" /\ bidx = 1
  /\ pc = [t \in {} |-> "done"] /\ usr = [t \in {} |-> 0]
  /\ todo = [t \in {} |-> {}] /\ fresh = [t \in {} |-> {}]
  /\ status = "running"

-----------------------------------------------------------------------------
(* The main goroutine                                                      *)

\* startNewNodesAndSendInvites for one section, before the flips.
CreateBefore ==
  /\ Running /\ mpc = "before" /\ ~locked
  /\ bidx <= Len(Before[testCounter])
  /\ LET n == NewUsers(Before[testCounter][bidx])
     IN  /\ nusers' = nusers + n
         /\ active' = active \cup (nusers .. nusers + n - 1)
  /\ bidx' = bidx + 1
  /\ UNCHANGED <<testCounter, locked, wg, recorded, mpc, svars, status>>

\* A node, an invite or an activation fails in createEpochNewUsers.
BeforeFails ==
  /\ Running /\ mpc = "before" /\ Faulty # {}
  /\ mpc' = "error"
  /\ UNCHANGED <<testCounter, nusers, active, locked, wg, recorded, bidx,
                 svars, status>>

\* checkActiveUser, then test() up to and including testUsers(process.users).
\* wg.Add(len(users) + newUsers): a session for every user and for every
\* user that some section is to create after the flips.
StartTest ==
  /\ Running /\ mpc = "before"
  /\ bidx > Len(Before[testCounter])
  /\ active # {}
  /\ LET main == MainSessions(testCounter, nusers)
     IN  /\ wg' = Cardinality(main \cup AfterSessions(testCounter))
         /\ pc' = [t \in Sessions \cup main |->
                     IF t \in main THEN "begin" ELSE pc[t]]
         /\ usr' = [t \in Sessions \cup main |->
                     IF t \in main THEN t[3] - 1 ELSE usr[t]]
         /\ todo' = [t \in Sessions \cup main |->
                     IF t \in main THEN {} ELSE todo[t]]
         /\ fresh' = [t \in Sessions \cup main |->
                     IF t \in main THEN {} ELSE fresh[t]]
  /\ recorded' = {}
  /\ mpc' = "wait"
  /\ UNCHANGED <<testCounter, nusers, active, locked, bidx, status>>

NoActiveUsers ==
  /\ Running /\ mpc = "before"
  /\ bidx > Len(Before[testCounter])
  /\ active = {}
  /\ mpc' = "error"
  /\ UNCHANGED <<testCounter, nusers, active, locked, wg, recorded, bidx,
                 svars, status>>

\* Mutant: the wait returns when one session is still counted.
WaitDoneEarly ==
  /\ Running /\ mpc = "wait" /\ wg <= 1
  /\ mpc' = "assert"
  /\ UNCHANGED <<testCounter, nusers, active, locked, wg, recorded, bidx,
                 svars, status>>

\* WaitWithTimeout returns true.
WaitDone ==
  /\ Running /\ mpc = "wait" /\ wg = 0
  /\ mpc' = "assert"
  /\ UNCHANGED <<testCounter, nusers, active, locked, wg, recorded, bidx,
                 svars, status>>

\* Mutant: the timeout is reported with a nil error, which handleError ignores.
WaitTimeoutNilError ==
  /\ Running /\ mpc = "wait"
  /\ Patient => Live = {} /\ wg # 0
  /\ UNCHANGED vars

\* WaitWithTimeout returns false: "verification sessions timeout".
WaitTimeout ==
  /\ Running /\ mpc = "wait"
  /\ Patient => Live = {} /\ wg # 0
  /\ mpc' = "error"
  /\ UNCHANGED <<testCounter, nusers, active, locked, wg, recorded, bidx,
                 svars, status>>

\* assert: logStats dereferences the recorded state of every active user;
\* then the next turn of the loop.  Ended sessions are forgotten here.
Assert ==
  /\ Running /\ mpc = "assert" /\ active \subseteq recorded
  /\ testCounter < MaxEpoch
  /\ testCounter' = testCounter + 1
  /\ mpc' = "before" /\ bidx' = 1
  /\ pc' = [t \in Live |-> pc[t]] /\ usr' = [t \in Live |-> usr[t]]
  /\ todo' = [t \in Live |-> todo[t]] /\ fresh' = [t \in Live |-> fresh[t]]
  /\ UNCHANGED <<nusers, active, locked, wg, recorded, status>>

\* assertion failed
AssertFails ==
  /\ Running /\ mpc = "assert" /\ active \subseteq recorded /\ Faulty # {}
  /\ mpc' = "error"
  /\ UNCHANGED <<testCounter, nusers, active, locked, wg, recorded, bidx,
                 svars, status>>

\* logStats meets an active user without a recorded state: nil dereference.
AssertPanics ==
  /\ Running /\ mpc = "assert" /\ ~(active \subseteq recorded)
  /\ status' = "panicked"
  /\ UNCHANGED <<testCounter, nusers, active, locked, wg, recorded, mpc, bidx,
                 svars>>

-----------------------------------------------------------------------------
(* A session goroutine: testUser, then the closure of testUsers            *)

At(t, p) == Running /\ pc[t] = p
Goto(t, p) == pc' = [pc EXCEPT ![t] = p]
MainSame == UNCHANGED <<testCounter, locked, wg, mpc, bidx, status>>

\* Possible sets of active users after switchNodeIfNeeded(u).
Switched(u) == IF <<testCounter, u>> \in Switches
               THEN {active \cup {u}, active \ {u}} ELSE {active}

\* testUser up to the first inactive check: an inactive user's node may be
\* switched on; a user that skips the epoch or is still inactive returns.
Begin(t) ==
  /\ At(t, "begin")
  /\ active' \in IF usr[t] \in active THEN {active} ELSE Switched(usr[t])
  /\ Goto(t, IF \/ <<testCounter, usr[t]>> \in Skips
                \/ usr[t] \notin active'
             THEN "lock"
             ELSE IF usr[t] \in active THEN "switch" ELSE "flips")
  /\ UNCHANGED <<nusers, recorded, usr, todo, fresh>> /\ MainSame

\* The user was active: switchNodeIfNeeded, and return if that stopped it.
SwitchNode(t) ==
  /\ At(t, "switch")
  /\ active' \in Switched(usr[t])
  /\ Goto(t, IF usr[t] \in active' THEN "flips" ELSE "lock")
  /\ UNCHANGED <<nusers, recorded, usr, todo, fresh>> /\ MainSame

\* submitFlips is over; the loop over the after-flips sections begins.
SubmitFlips(t) ==
  /\ At(t, "flips")
  /\ LET mine == SectionsOf(testCounter, usr[t])
     IN  /\ todo' = [todo EXCEPT ![t] = mine]
         /\ Goto(t, IF mine = {} THEN "ceremony" ELSE "create")
  /\ UNCHANGED <<nusers, active, recorded, usr, fresh>> /\ MainSame

IsNext(s, S) == s \in S /\ \A x \in S : s <= x

\* createUsers under process.mutex; currentUsers is read in the same section.
CreateUsers(t) ==
  /\ At(t, "create") /\ ~locked
  /\ \E s \in DOMAIN After :
       /\ IsNext(s, todo[t])
       /\ LET n == NewUsers(After[s].count)
          IN  /\ nusers' = nusers + n
              /\ fresh' = [fresh EXCEPT ![t] = nusers .. nusers + n - 1]
  /\ Goto(t, "start")
  /\ UNCHANGED <<active, recorded, usr, todo>> /\ MainSame

\* startNodes, invites, activation and the waits, without the mutex.
StartUsers(t) ==
  /\ At(t, "start")
  /\ active' = active \cup fresh[t]
  /\ Goto(t, "tail")
  /\ UNCHANGED <<nusers, recorded, usr, todo, fresh>> /\ MainSame

\* testUsers(process.users[len(process.users)-Count:]): the length is read
\* now, not when the users were created.
TestTail(t) ==
  /\ At(t, "tail")
  /\ \E s \in DOMAIN After :
       /\ IsNext(s, todo[t])
       /\ LET e    == testCounter
              r    == Cardinality({x \in Sessions : /\ x[1] = e /\ x[2] = s
                                                    /\ x[3] = 1}) + 1
              tail == TailSessions(e, s, r)
              rest == todo[t] \ {s}
          IN  /\ pc' = [x \in Sessions \cup tail |->
                          IF x \in tail THEN "begin"
                          ELSE IF x # t THEN pc[x]
                          ELSE IF rest = {} THEN "ceremony" ELSE "create"]
              /\ usr' = [x \in Sessions \cup tail |->
                          IF x \in tail
                          THEN nusers - After[s].count + x[3] - 1 ELSE usr[x]]
              /\ todo' = [x \in Sessions \cup tail |->
                          IF x \in tail THEN {}
                          ELSE IF x = t THEN rest ELSE todo[x]]
              /\ fresh' = [x \in Sessions \cup tail |->
                          IF x \in tail \/ x = t THEN {} ELSE fresh[x]]
  /\ UNCHANGED <<nusers, active, recorded>> /\ MainSame

\* The ceremony up to waitForSessionFinish; testUser returns.
EndSession(t) ==
  /\ At(t, "ceremony")
  /\ Goto(t, "lock")
  /\ UNCHANGED <<nusers, active, recorded, usr, todo, fresh>> /\ MainSame

\* mutex.Lock(): every call of testUsers has a mutex of its own.
LockStates(t) ==
  /\ At(t, "lock")
  /\ \A x \in Sessions : pc[x] = "record" => ~SameCall(x, t)
  /\ Goto(t, "record")
  /\ UNCHANGED <<nusers, active, recorded, usr, todo, fresh>> /\ MainSame

\* Mutant: the state is stored under the position in the testUsers call.
RecordByPosition(t) ==
  /\ At(t, "record")
  /\ recorded' = recorded \cup {t[3] - 1}
  /\ Goto(t, "leave")
  /\ UNCHANGED <<nusers, active, usr, todo, fresh>> /\ MainSame

\* process.es.userStates[u.GetIndex()] = ues; mutex.Unlock()
Record(t) ==
  /\ At(t, "record")
  /\ recorded' = recorded \cup {usr[t]}
  /\ Goto(t, "leave")
  /\ UNCHANGED <<nusers, active, usr, todo, fresh>> /\ MainSame

\* process.wg.Done(): a counter that is already zero is a panic.
Done(t) ==
  /\ At(t, "leave")
  /\ Goto(t, "done")
  /\ IF wg = 0 THEN status' = "panicked" /\ UNCHANGED wg
               ELSE wg' = wg - 1 /\ UNCHANGED status
  /\ UNCHANGED <<testCounter, nusers, active, locked, recorded, mpc, bidx,
                 usr, todo, fresh>>

\* Some call of the session reports an error through handleError.
SessionFails(t) ==
  /\ Running /\ usr[t] \in Faulty
  /\ pc[t] \in {"begin", "switch", "flips", "start", "ceremony"}
  /\ Goto(t, "error")
  /\ UNCHANGED <<nusers, active, recorded, usr, todo, fresh>> /\ MainSame

-----------------------------------------------------------------------------
(* handleError: process.mutex is taken and never released; os.Exit         *)

HandleError ==
  /\ Running /\ ~locked
  /\ mpc = "error" \/ \E t \in Sessions : pc[t] = "error"
  /\ locked' = TRUE
  /\ UNCHANGED <<testCounter, nusers, active, wg, recorded, mpc, bidx, svars,
                 status>>

Exit ==
  /\ Running /\ locked
  /\ status' = "exited"
  /\ UNCHANGED <<testCounter, nusers, active, locked, wg, recorded, mpc, bidx,
                 svars>>

\* The run is over: the process ended, or testCounter reached its bound.
Finished == mpc = "assert" /\ testCounter = MaxEpoch
            /\ active \subseteq recorded
Stop == (~Running \/ Finished) /\ UNCHANGED vars

Main == \/ CreateBefore \/ BeforeFails \/ StartTest \/ NoActiveUsers
        \/ WaitDone \/ WaitTimeout \/ Assert \/ AssertFails \/ AssertPanics
        \/ HandleError \/ Exit

SessionStep(t) ==
  \/ Begin(t) \/ SwitchNode(t) \/ SubmitFlips(t) \/ CreateUsers(t)
  \/ StartUsers(t) \/ TestTail(t) \/ EndSession(t) \/ LockStates(t)
  \/ Record(t) \/ Done(t) \/ SessionFails(t)

Next == Main \/ (\E t \in Sessions : SessionStep(t)) \/ Stop

Spec == Init /\ [][Next]_vars

\* The Go scheduler keeps running as long as some goroutine can run.
FairSpec == Spec /\ WF_vars(Main \/ \E t \in Sessions : SessionStep(t))

-----------------------------------------------------------------------------
(* Conditions on the scenario under which the loop keeps its promises      *)

\* All sections of one epoch name the same inviter, so that one session
\* creates all of its late users.
OneInviterPerEpoch ==
  \A i, j \in DOMAIN After :
     After[i].epoch = After[j].epoch => After[i].inviter = After[j].inviter

\* A god bot has a user besides the god node before any section runs.
GodIsNotAlone == GodMode => Before[0] # <<>> /\ Before[0][1] >= 2

-----------------------------------------------------------------------------
(* Properties                                                              *)

MainPC == {"before", "wait", "assert", "error"}
SessionPC == {"begin", "switch", "flips", "create", "start", "tail",
              "ceremony", "lock", "record", "leave", "done", "error"}

\* The types of the variables.
TypeOK ==
  /\ testCounter \in 0..MaxEpoch
  /\ nusers \in Nat
  /\ active \subseteq 0..nusers-1
  /\ locked \in BOOLEAN
  /\ wg \in Nat
  /\ recorded \subseteq 0..nusers-1
  /\ mpc \in MainPC
  /\ bidx \in Nat \ {0}
  /\ pc \in [Sessions -> SessionPC]
  /\ usr \in [Sessions -> 0..nusers-1]
  /\ todo \in [Sessions -> SUBSET DOMAIN After]
  /\ fresh \in [Sessions -> SUBSET (0..nusers-1)]
  /\ status \in {"running", "exited", "panicked"}

\* When the wait of test() has succeeded no session goroutine of the epoch is
\* left: none can write to the state of the next epoch or count down its
\* WaitGroup ("All verification sessions completed", verification.go:59).
SessionsCompleted ==
  mpc = "assert" \/ (mpc = "before" /\ Running) => Live = {}

\* The assertion of an epoch sees each user tested by exactly one session,
\* the users created after the flips of this very epoch included.
TestedOnce ==
  mpc = "assert" =>
    \A u \in 0..nusers-1 : Cardinality({t \in Sessions : usr[t] = u}) = 1

\* No run ends in a negative WaitGroup counter or in logStats dereferencing
\* the missing state of an active user.
NoPanic == status # "panicked"

\* The epoch loop is a fork-join barrier.
Barrier == INSTANCE EpochBarrier
             WITH Session <- SessionName,
                  epoch   <- testCounter,
                  forked  <- (Sessions # {}),
                  live    <- Live

ImplementsBarrier == Barrier!Spec

\* Every wait of test() ends: in the assertion or in the end of the process.
WaitEnds == mpc = "wait" ~> (mpc = "assert" \/ ~Running)

\* A scenario whose inviters all take part runs to its last epoch: neither
\* the WaitGroup nor a lock keeps the bot from finishing.
ScenarioCompletes == <>Finished

-----------------------------------------------------------------------------
(* The inductive strengthening of the properties above: what the sessions  *)
(* in flight, the users and the WaitGroup have to do with one another.     *)

\* Sessions the WaitGroup was set up for: one per user at the start of the
\* test, one per user that a section creates.
Expected == {t \in Sessions : t[2] = 0} \cup AfterSessions(testCounter)
DoneSessions == {t \in Sessions : pc[t] = "done"}

\* Every session belongs to this epoch and was counted in.
CountedIn ==
  /\ IsFiniteSet(Sessions)
  /\ Sessions \subseteq Expected \cap SessionName
  /\ \A t \in Sessions : t[1] = testCounter
  /\ Sessions # {} => wg = Cardinality(Expected \ DoneSessions)

\* Where the main goroutine is tells which sessions there are.
MainKnows ==
  /\ mpc = "before" => Sessions = {}
  /\ mpc = "wait" => Sessions # {}
  /\ mpc = "assert" => Sessions # {} /\ Expected \subseteq DoneSessions
  /\ GodMode /\ nusers < 2 =>
       /\ Sessions = {} /\ nusers = 1
       /\ testCounter = 0 /\ bidx = 1 /\ mpc \in {"before", "error"}

\* Users and sessions correspond, up to the users a session has just created.
OneSessionPerUser ==
  /\ \A x, y \in Sessions : usr[x] = usr[y] => x = y
  /\ Sessions # {} =>
       \A u \in 0..nusers-1 :
          \E t \in Sessions : usr[t] = u \/ u \in fresh[t]
  /\ \A t \in Sessions : pc[t] \in {"leave", "done"} => usr[t] \in recorded

\* What a session that still has sections to run may rely on: they are its
\* own, nobody ran them, and the users it created are the last ones.
Inviting ==
  /\ \A t \in Sessions : todo[t] \subseteq SectionsOf(testCounter, usr[t])
  /\ \A t \in Sessions :
       pc[t] \in {"create", "start", "tail"} => todo[t] # {}
  /\ \A t \in Sessions :
       pc[t] \notin {"create", "start", "tail", "error"} =>
         todo[t] = {} /\ fresh[t] = {}
  /\ \A t \in Sessions : pc[t] = "create" => fresh[t] = {}
  /\ \A t \in Sessions : \A s \in todo[t] :
       pc[t] \in {"start", "tail"} /\ IsNext(s, todo[t]) =>
         /\ After[s].count <= nusers
         /\ fresh[t] = nusers - After[s].count .. nusers - 1
         /\ \A x \in Sessions : usr[x] < nusers - After[s].count
  /\ \A x \in Sessions : x[2] # 0 =>
       \E t \in Sessions :
         /\ usr[t] = After[x[2]].inviter
         /\ x[2] \notin todo[t]
         /\ pc[t] \notin {"begin", "switch", "flips"}

IInv == TypeOK /\ CountedIn /\ MainKnows /\ OneSessionPerUser /\ Inviting
        /\ NoPanic
=============================================================================
