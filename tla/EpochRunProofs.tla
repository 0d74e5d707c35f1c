--------------------------- MODULE EpochRunProofs ---------------------------
(***************************************************************************)
(* Proofs about EpochRun: under the two conditions on the scenario, the    *)
(* epoch loop is a fork-join barrier in which every user is tested once    *)
(* and no goroutine panics, for any number of users, sections and epochs.  *)
(***************************************************************************)
EXTENDS EpochRun, FiniteSetTheorems, TLAPS

-----------------------------------------------------------------------------
(* The sessions a scenario can create are finitely many.                   *)

LEMMA SectionType ==
  /\ Len(After) \in Nat
  /\ DOMAIN After = 1..Len(After)
  /\ \A s \in DOMAIN After : After[s] \in SectionT
  /\ \A s \in DOMAIN After : After[s].count \in Nat \ {0}
<1>1. After \in Seq(SectionT)
  BY ScenarioAssumption
<1>2. Len(After) \in Nat /\ DOMAIN After = 1..Len(After)
  BY <1>1
<1>3. \A s \in DOMAIN After : After[s] \in SectionT
  BY <1>1
<1> QED
  BY <1>2, <1>3 DEF SectionT

LEMMA TailSessionsFinite ==
  ASSUME NEW e, NEW s \in DOMAIN After, NEW r
  PROVE  IsFiniteSet(TailSessions(e, s, r))
<1> DEFINE n == After[s].count
           f == [k \in 1..n |-> <<e, s, k, r>>]
<1>1. n \in Nat
  BY SectionType
<1>2. f \in Surjection(1..n, TailSessions(e, s, r))
  BY DEF Surjection, TailSessions
<1>3. IsFiniteSet(1..n)
  BY <1>1, FS_Interval
<1> QED
  BY <1>2, <1>3, FS_Surjection

LEMMA MainSessionsFinite ==
  ASSUME NEW e, NEW n \in Nat
  PROVE  IsFiniteSet(MainSessions(e, n))
<1> DEFINE f == [k \in 1..n |-> <<e, 0, k, 1>>]
<1>1. f \in Surjection(1..n, MainSessions(e, n))
  BY DEF Surjection, MainSessions
<1>2. IsFiniteSet(1..n)
  BY FS_Interval
<1> QED
  BY <1>1, <1>2, FS_Surjection

LEMMA AfterSessionsFinite ==
  ASSUME NEW e
  PROVE  IsFiniteSet(AfterSessions(e))
<1> DEFINE S == AfterSections(e)
           T == {TailSessions(e, s, 1) : s \in S}
           f == [s \in S |-> TailSessions(e, s, 1)]
<1>1. DOMAIN After = 1..Len(After) /\ Len(After) \in Nat
  BY ScenarioAssumption
<1>2. IsFiniteSet(S)
  <2>1. IsFiniteSet(1..Len(After))
    BY <1>1, FS_Interval
  <2>2. S \in SUBSET (1..Len(After))
    BY <1>1 DEF AfterSections
  <2> QED
    BY <2>1, <2>2, FS_Subset
<1>3. f \in Surjection(S, T)
  BY DEF Surjection
<1>4. IsFiniteSet(T)
  BY <1>2, <1>3, FS_Surjection
<1>5. \A x \in T : IsFiniteSet(x)
  BY TailSessionsFinite DEF AfterSections
<1> QED
  BY <1>4, <1>5, FS_UNION DEF AfterSessions

\* What a session of a section looks like.
LEMMA AfterSessionsShape ==
  ASSUME NEW e, NEW t \in AfterSessions(e)
  PROVE  /\ t[1] = e
         /\ t[2] \in DOMAIN After
         /\ t[2] # 0
         /\ t[3] \in 1..After[t[2]].count
         /\ t[4] = 1
         /\ t = <<e, t[2], t[3], 1>>
<1>1. PICK s \in AfterSections(e) : t \in TailSessions(e, s, 1)
  BY DEF AfterSessions
<1>2. PICK k \in 1..After[s].count : t = <<e, s, k, 1>>
  BY <1>1 DEF TailSessions
<1>3. s \in 1..Len(After) /\ DOMAIN After = 1..Len(After)
  BY ScenarioAssumption DEF AfterSections
<1> QED
  BY <1>2, <1>3

LEMMA ExpectedFinite ==
  ASSUME CountedIn
  PROVE  IsFiniteSet(Expected)
<1>1. IsFiniteSet({t \in Sessions : t[2] = 0})
  BY FS_Subset DEF CountedIn
<1>2. IsFiniteSet(AfterSessions(testCounter))
  BY AfterSessionsFinite
<1> QED
  BY <1>1, <1>2, FS_Union DEF Expected

-----------------------------------------------------------------------------
(* Initial states                                                          *)

LEMMA InitIInv ==
  ASSUME Init, GodIsNotAlone
  PROVE  IInv
<1>1. Sessions = {}
  BY DEF Init, Sessions
<1>2. TypeOK
  <2>1. /\ testCounter \in 0..MaxEpoch /\ nusers \in Nat /\ active \subseteq 0..nusers-1
        /\ locked \in BOOLEAN /\ wg \in Nat /\ recorded \subseteq 0..nusers-1
    <3>1. /\ testCounter = 0 /\ locked = FALSE /\ wg = 0 /\ recorded = {}
          /\ MaxEpoch \in Nat
      BY ScenarioAssumption DEF Init
    <3>2. nusers \in Nat /\ active \subseteq 0..nusers-1
      <4>1. CASE GodMode
        <5>1. nusers = 1 /\ active = {0} BY <4>1 DEF Init
        <5> QED BY <5>1
      <4>2. CASE ~GodMode
        <5>1. nusers = 0 /\ active = {} BY <4>2 DEF Init
        <5> QED BY <5>1
      <4> QED BY <4>1, <4>2
    <3>3. testCounter \in 0..MaxEpoch /\ wg \in Nat BY <3>1
    <3>4. locked \in BOOLEAN /\ recorded \subseteq 0..nusers-1 BY <3>1, Zenon
    <3> QED BY <3>2, <3>3, <3>4
  <2>2. mpc \in MainPC /\ bidx \in Nat \ {0} /\ status \in {"running", "exited", "panicked"}
    BY DEF Init, MainPC
  <2>3. /\ pc \in [Sessions -> SessionPC] /\ usr \in [Sessions -> 0..nusers-1]
        /\ todo \in [Sessions -> SUBSET DOMAIN After]
        /\ fresh \in [Sessions -> SUBSET (0..nusers-1)]
    BY <1>1 DEF Init
  <2> QED BY <2>1, <2>2, <2>3 DEF TypeOK
<1>3. CountedIn
  BY <1>1, FS_EmptySet DEF CountedIn
<1>4. MainKnows
  BY <1>1, ScenarioAssumption DEF Init, MainKnows
<1>5. OneSessionPerUser /\ Inviting
  BY <1>1 DEF OneSessionPerUser, Inviting
<1> QED
  BY <1>2, <1>3, <1>4, <1>5 DEF IInv, Init, NoPanic

-----------------------------------------------------------------------------
(* Most steps of a session change little more than where it is.            *)

Moving(t, p) ==
  /\ pc' = [pc EXCEPT ![t] = p]
  /\ UNCHANGED <<testCounter, nusers, wg, mpc, bidx, usr, todo, fresh, status>>
  /\ active' \subseteq 0..nusers-1
  /\ locked' = locked
  /\ recorded \subseteq recorded' /\ recorded' \subseteq 0..nusers-1

\* p may follow the place of t as far as the invariant is concerned.
MayMove(t, p) ==
  /\ p \in SessionPC \ {"done", "create"}
  /\ pc[t] # "done"
  /\ pc[t] \in {"create", "start", "tail", "error"} =>
       p = "error" \/ (p = "tail" /\ pc[t] = "start")
  /\ p \in {"start", "tail"} => p = "tail" /\ pc[t] = "start"
  /\ p \in {"begin", "switch", "flips"} =>
       pc[t] \in {"begin", "switch", "flips"}
  /\ p = "leave" => usr[t] \in recorded'

LEMMA MovingPreserves ==
  ASSUME IInv, NEW t \in Sessions, NEW p, Moving(t, p), MayMove(t, p)
  PROVE  IInv'
<1> USE DEF Moving, MayMove
<1>0. /\ TypeOK /\ CountedIn /\ MainKnows /\ OneSessionPerUser
      /\ Inviting /\ NoPanic
  BY DEF IInv
<1>1. /\ Sessions' = Sessions
      /\ pc'[t] = p
      /\ \A x \in Sessions : x # t => pc'[x] = pc[x]
  BY <1>0 DEF Sessions, TypeOK
<1>2. TypeOK'
  BY <1>0, <1>1 DEF TypeOK, Sessions
<1>3. Expected' = Expected
  BY <1>1 DEF Expected
<1>4. DoneSessions' = DoneSessions
  BY <1>1 DEF DoneSessions
<1>5. CountedIn'
  BY <1>0, <1>1, <1>3, <1>4 DEF CountedIn
<1>6. MainKnows'
  BY <1>0, <1>1, <1>3, <1>4 DEF MainKnows
<1>7. OneSessionPerUser'
  BY <1>0, <1>1 DEF OneSessionPerUser
<1>8. Inviting'
  <2>1. \A x \in Sessions : (todo[x] \subseteq SectionsOf(testCounter, usr[x]))'
    BY <1>0, <1>1 DEF Inviting, SectionsOf, AfterSections
  <2>2. (\A x \in Sessions :
            pc[x] \in {"create", "start", "tail"} => todo[x] # {})'
    BY <1>0, <1>1 DEF Inviting
  <2>3. (\A x \in Sessions :
            pc[x] \notin {"create", "start", "tail", "error"} =>
              todo[x] = {} /\ fresh[x] = {})'
    BY <1>0, <1>1 DEF Inviting, TypeOK
  <2>4. (\A x \in Sessions : pc[x] = "create" => fresh[x] = {})'
    BY <1>0, <1>1 DEF Inviting
  <2>5. (\A x \in Sessions : \A s \in todo[x] :
            pc[x] \in {"start", "tail"} /\ IsNext(s, todo[x]) =>
              /\ After[s].count <= nusers
              /\ fresh[x] = nusers - After[s].count .. nusers - 1
              /\ \A y \in Sessions : usr[y] < nusers - After[s].count)'
    BY <1>0, <1>1 DEF Inviting, IsNext
  <2>6. (\A x \in Sessions : x[2] # 0 =>
            \E y \in Sessions :
              /\ usr[y] = After[x[2]].inviter
              /\ x[2] \notin todo[y]
              /\ pc[y] \notin {"begin", "switch", "flips"})'
    BY <1>0, <1>1 DEF Inviting
  <2> QED
    BY <1>1, <2>1, <2>2, <2>3, <2>4, <2>5, <2>6 DEF Inviting
<1> QED
  BY <1>0, <1>2, <1>5, <1>6, <1>7, <1>8 DEF IInv, NoPanic

LEMMA QuietSteps ==
  ASSUME IInv, NEW t \in Sessions,
         \/ Begin(t) \/ SwitchNode(t) \/ StartUsers(t) \/ EndSession(t)
         \/ LockStates(t) \/ Record(t) \/ SessionFails(t)
  PROVE  IInv'
<1> USE DEF At, Goto, MainSame, MayMove, Moving, SessionPC
<1>1. /\ active \subseteq 0..nusers-1 /\ recorded \subseteq 0..nusers-1
      /\ usr[t] \in 0..nusers-1 /\ fresh[t] \subseteq 0..nusers-1
  BY DEF IInv, TypeOK
<1>2. CASE Begin(t)
  <2>1. \E p \in {"lock", "switch", "flips"} : Moving(t, p) /\ MayMove(t, p)
    BY <1>1, <1>2 DEF Begin, Switched
  <2> QED
    BY <2>1, MovingPreserves
<1>3. CASE SwitchNode(t)
  <2>1. \E p \in {"lock", "flips"} : Moving(t, p) /\ MayMove(t, p)
    BY <1>1, <1>3 DEF SwitchNode, Switched
  <2> QED
    BY <2>1, MovingPreserves
<1>4. CASE StartUsers(t)
  <2>1. Moving(t, "tail") /\ MayMove(t, "tail")
    BY <1>1, <1>4 DEF StartUsers
  <2> QED
    BY <2>1, MovingPreserves
<1>5. CASE EndSession(t)
  <2>1. Moving(t, "lock") /\ MayMove(t, "lock")
    BY <1>1, <1>5 DEF EndSession
  <2> QED
    BY <2>1, MovingPreserves
<1>6. CASE LockStates(t)
  <2>1. Moving(t, "record") /\ MayMove(t, "record")
    BY <1>1, <1>6 DEF LockStates
  <2> QED
    BY <2>1, MovingPreserves
<1>7. CASE Record(t)
  <2>1. Moving(t, "leave") /\ MayMove(t, "leave")
    BY <1>1, <1>7 DEF Record
  <2> QED
    BY <2>1, MovingPreserves
<1>8. CASE SessionFails(t)
  <2>1. Moving(t, "error") /\ MayMove(t, "error")
    BY <1>1, <1>8 DEF SessionFails
  <2> QED
    BY <2>1, MovingPreserves
<1> QED
  BY <1>2, <1>3, <1>4, <1>5, <1>6, <1>7, <1>8

-----------------------------------------------------------------------------
(* The steps of a session that creates users                               *)

LEMMA SubmitFlipsPreserves ==
  ASSUME IInv, NEW t \in Sessions, SubmitFlips(t)
  PROVE  IInv'
<1> DEFINE mine == SectionsOf(testCounter, usr[t])
<1>0. /\ TypeOK /\ CountedIn /\ MainKnows /\ OneSessionPerUser
      /\ Inviting /\ NoPanic
  BY DEF IInv
<1>1. /\ pc[t] = "flips"
      /\ todo' = [todo EXCEPT ![t] = mine]
      /\ pc' = [pc EXCEPT ![t] = IF mine = {} THEN "ceremony" ELSE "create"]
      /\ UNCHANGED <<testCounter, nusers, active, locked, wg, recorded, mpc,
                     bidx, usr, fresh, status>>
  BY DEF SubmitFlips, At, Goto, MainSame
<1>2. /\ Sessions' = Sessions
      /\ pc'[t] = IF mine = {} THEN "ceremony" ELSE "create"
      /\ todo'[t] = mine
      /\ \A x \in Sessions : x # t => pc'[x] = pc[x] /\ todo'[x] = todo[x]
  BY <1>0, <1>1 DEF Sessions, TypeOK
<1>3. mine \subseteq DOMAIN After
  BY DEF SectionsOf, AfterSections
<1>4. TypeOK'
  BY <1>0, <1>1, <1>2, <1>3 DEF TypeOK, SessionPC, Sessions
<1>5. Expected' = Expected /\ DoneSessions' = DoneSessions
  BY <1>1, <1>2 DEF Expected, DoneSessions
<1>6. CountedIn' /\ MainKnows'
  BY <1>0, <1>1, <1>2, <1>5 DEF CountedIn, MainKnows
<1>7. OneSessionPerUser'
  BY <1>0, <1>1, <1>2 DEF OneSessionPerUser
<1>8. Inviting'
  <2>1. \A x \in Sessions : (todo[x] \subseteq SectionsOf(testCounter, usr[x]))'
    BY <1>0, <1>1, <1>2 DEF Inviting, SectionsOf, AfterSections
  <2>2. (\A x \in Sessions :
            pc[x] \in {"create", "start", "tail"} => todo[x] # {})'
    BY <1>0, <1>1, <1>2 DEF Inviting
  <2>3. (\A x \in Sessions :
            pc[x] \notin {"create", "start", "tail", "error"} =>
              todo[x] = {} /\ fresh[x] = {})'
    BY <1>0, <1>1, <1>2 DEF Inviting
  <2>4. (\A x \in Sessions : pc[x] = "create" => fresh[x] = {})'
    BY <1>0, <1>1, <1>2 DEF Inviting
  <2>5. (\A x \in Sessions : \A s \in todo[x] :
            pc[x] \in {"start", "tail"} /\ IsNext(s, todo[x]) =>
              /\ After[s].count <= nusers
              /\ fresh[x] = nusers - After[s].count .. nusers - 1
              /\ \A y \in Sessions : usr[y] < nusers - After[s].count)'
    BY <1>0, <1>1, <1>2 DEF Inviting, IsNext
  \* No session of these sections is there: its inviter would be t itself.
  <2>6. (\A x \in Sessions : x[2] # 0 =>
            \E y \in Sessions :
              /\ usr[y] = After[x[2]].inviter
              /\ x[2] \notin todo[y]
              /\ pc[y] \notin {"begin", "switch", "flips"})'
    <3> SUFFICES ASSUME NEW x \in Sessions, x[2] # 0
                 PROVE  \E y \in Sessions :
                          /\ usr[y] = After[x[2]].inviter
                          /\ x[2] \notin todo'[y]
                          /\ pc'[y] \notin {"begin", "switch", "flips"}
      BY <1>1, <1>2
    <3>1. PICK y \in Sessions : /\ usr[y] = After[x[2]].inviter
                                /\ x[2] \notin todo[y]
                                /\ pc[y] \notin {"begin", "switch", "flips"}
      BY <1>0 DEF Inviting
    <3> QED
      BY <1>1, <1>2, <3>1
  <2> QED
    BY <1>2, <2>1, <2>2, <2>3, <2>4, <2>5, <2>6 DEF Inviting
<1> QED
  BY <1>0, <1>1, <1>4, <1>6, <1>7, <1>8 DEF IInv, NoPanic

\* Under OneInviterPerEpoch at most one session has sections left to run.
LEMMA OneInviterAtATime ==
  ASSUME IInv, OneInviterPerEpoch, NEW x \in Sessions, NEW y \in Sessions,
         todo[x] # {}, todo[y] # {}
  PROVE  x = y
<1>1. PICK i \in todo[x] : TRUE
  OBVIOUS
<1>2. PICK j \in todo[y] : TRUE
  OBVIOUS
<1>3. /\ i \in SectionsOf(testCounter, usr[x])
      /\ j \in SectionsOf(testCounter, usr[y])
  BY <1>1, <1>2 DEF IInv, Inviting
<1>4. usr[x] = usr[y]
  BY <1>3 DEF SectionsOf, AfterSections, OneInviterPerEpoch
<1> QED
  BY <1>4 DEF IInv, OneSessionPerUser

LEMMA CreateUsersPreserves ==
  ASSUME IInv, OneInviterPerEpoch, NEW t \in Sessions, CreateUsers(t)
  PROVE  IInv'
<1>0. /\ TypeOK /\ CountedIn /\ MainKnows /\ OneSessionPerUser
      /\ Inviting /\ NoPanic
  BY DEF IInv
<1>1. PICK s \in DOMAIN After :
        /\ IsNext(s, todo[t])
        /\ nusers' = nusers + NewUsers(After[s].count)
        /\ fresh' = [fresh EXCEPT ![t] =
                       nusers .. nusers + NewUsers(After[s].count) - 1]
  BY DEF CreateUsers
<1>2. /\ pc[t] = "create"
      /\ pc' = [pc EXCEPT ![t] = "start"]
      /\ UNCHANGED <<testCounter, active, locked, wg, recorded, mpc, bidx,
                     usr, todo, status>>
  BY DEF CreateUsers, At, Goto, MainSame
<1> DEFINE c == After[s].count
<1>3. c \in Nat \ {0} /\ nusers \in Nat
  BY <1>0, SectionType DEF TypeOK
<1>4. NewUsers(c) = c
  BY <1>0 DEF NewUsers, MainKnows
<1>5. /\ Sessions' = Sessions
      /\ pc'[t] = "start"
      /\ fresh'[t] = nusers' - c .. nusers' - 1
      /\ nusers' = nusers + c
      /\ \A x \in Sessions : x # t => pc'[x] = pc[x] /\ fresh'[x] = fresh[x]
  BY <1>0, <1>1, <1>2, <1>3, <1>4 DEF Sessions, TypeOK
<1>6. TypeOK'
  <2>1. 0..nusers-1 \subseteq 0..nusers'-1
    BY <1>3, <1>5
  <2>2. fresh' \in [Sessions -> SUBSET (0..nusers'-1)]
    <3>1. nusers .. nusers + c - 1 \subseteq 0..nusers'-1
      BY <1>3, <1>5
    <3> QED
      BY <1>0, <1>1, <1>4, <2>1, <3>1 DEF TypeOK
  <2>3. usr \in [Sessions -> 0..nusers'-1]
    BY <1>0, <2>1 DEF TypeOK
  <2>4. pc' \in [Sessions -> SessionPC]
    BY <1>0, <1>2 DEF TypeOK, SessionPC
  <2>5. nusers' \in Nat
    BY <1>3, <1>5
  <2> QED
    BY <1>0, <1>2, <1>5, <2>1, <2>2, <2>3, <2>4, <2>5 DEF TypeOK
<1>7. Expected' = Expected /\ DoneSessions' = DoneSessions
  BY <1>2, <1>5 DEF Expected, DoneSessions
<1>8. CountedIn' /\ MainKnows'
  BY <1>0, <1>2, <1>3, <1>5, <1>7 DEF CountedIn, MainKnows
<1>9. OneSessionPerUser'
  <2>1. \A u \in 0..nusers'-1 :
           \E x \in Sessions : usr[x] = u \/ u \in fresh'[x]
    <3> SUFFICES ASSUME NEW u \in 0..nusers'-1
                 PROVE  \E x \in Sessions : usr[x] = u \/ u \in fresh'[x]
      OBVIOUS
    <3>1. CASE u < nusers
      <4>1. PICK x \in Sessions : usr[x] = u \/ u \in fresh[x]
        BY <1>0, <1>3, <3>1 DEF OneSessionPerUser
      <4>2. fresh[t] = {}
        BY <1>0, <1>2 DEF Inviting
      <4> QED
        BY <1>5, <4>1, <4>2
    <3>2. CASE u >= nusers
      BY <1>3, <1>5, <3>2
    <3> QED
      BY <1>3, <3>1, <3>2
  <2> QED
    BY <1>0, <1>2, <1>5, <2>1 DEF OneSessionPerUser
<1>10. Inviting'
  <2>0. \A x \in Sessions : x # t => todo[x] = {}
    BY <1>1, OneInviterAtATime DEF IsNext
  <2>1. \A x \in Sessions : (todo[x] \subseteq SectionsOf(testCounter, usr[x]))'
    BY <1>0, <1>2, <1>5 DEF Inviting, SectionsOf, AfterSections
  <2>2. (\A x \in Sessions :
            pc[x] \in {"create", "start", "tail"} => todo[x] # {})'
    BY <1>0, <1>2, <1>5 DEF Inviting
  <2>3. (\A x \in Sessions :
            pc[x] \notin {"create", "start", "tail", "error"} =>
              todo[x] = {} /\ fresh[x] = {})'
    BY <1>0, <1>2, <1>5 DEF Inviting
  <2>4. (\A x \in Sessions : pc[x] = "create" => fresh[x] = {})'
    BY <1>0, <1>2, <1>5 DEF Inviting
  <2>5. (\A x \in Sessions : \A i \in todo[x] :
            pc[x] \in {"start", "tail"} /\ IsNext(i, todo[x]) =>
              /\ After[i].count <= nusers
              /\ fresh[x] = nusers - After[i].count .. nusers - 1
              /\ \A y \in Sessions : usr[y] < nusers - After[i].count)'
    <3> SUFFICES ASSUME NEW i \in todo[t], IsNext(i, todo[t])
                 PROVE  /\ After[i].count <= nusers'
                        /\ fresh'[t] = nusers' - After[i].count .. nusers' - 1
                        /\ \A y \in Sessions :
                             usr[y] < nusers' - After[i].count
      BY <1>2, <1>5, <2>0 DEF IsNext
    <3>1. i = s
      <4>1. i \in Int /\ s \in Int
        BY <1>0, SectionType DEF TypeOK
      <4> QED
        BY <1>1, <4>1 DEF IsNext
    <3>2. \A y \in Sessions : usr[y] \in 0..nusers-1
      BY <1>0 DEF TypeOK
    <3> QED
      BY <1>3, <1>5, <3>1, <3>2
  <2>6. (\A x \in Sessions : x[2] # 0 =>
            \E y \in Sessions :
              /\ usr[y] = After[x[2]].inviter
              /\ x[2] \notin todo[y]
              /\ pc[y] \notin {"begin", "switch", "flips"})'
    BY <1>0, <1>2, <1>5 DEF Inviting
  <2> QED
    BY <1>5, <2>1, <2>2, <2>3, <2>4, <2>5, <2>6 DEF Inviting
<1> QED
  BY <1>0, <1>2, <1>6, <1>8, <1>9, <1>10 DEF IInv, NoPanic

\* The sessions that testUsers starts for a section are those the WaitGroup
\* was set up for: the section was not run before, and the last users of the
\* list are the ones this session created.
LEMMA TestTailPreserves ==
  ASSUME IInv, OneInviterPerEpoch, NEW t \in Sessions, TestTail(t)
  PROVE  IInv'
<1> DEFINE e == testCounter
<1>0. /\ TypeOK /\ CountedIn /\ MainKnows /\ OneSessionPerUser
      /\ Inviting /\ NoPanic
  BY DEF IInv
<1> DEFINE Round(s) == Cardinality({x \in Sessions : /\ x[1] = e /\ x[2] = s
                                                      /\ x[3] = 1}) + 1
           TailOf(s) == TailSessions(e, s, Round(s))
<1>1. PICK s \in DOMAIN After :
        /\ IsNext(s, todo[t])
        /\ pc' = [x \in Sessions \cup TailOf(s) |->
                    IF x \in TailOf(s) THEN "begin"
                    ELSE IF x # t THEN pc[x]
                    ELSE IF todo[t] \ {s} = {} THEN "ceremony" ELSE "create"]
        /\ usr' = [x \in Sessions \cup TailOf(s) |->
                    IF x \in TailOf(s)
                    THEN nusers - After[s].count + x[3] - 1 ELSE usr[x]]
        /\ todo' = [x \in Sessions \cup TailOf(s) |->
                    IF x \in TailOf(s) THEN {}
                    ELSE IF x = t THEN todo[t] \ {s} ELSE todo[x]]
        /\ fresh' = [x \in Sessions \cup TailOf(s) |->
                    IF x \in TailOf(s) \/ x = t THEN {} ELSE fresh[x]]
  BY DEF TestTail
<1>2. /\ pc[t] = "tail"
      /\ UNCHANGED <<testCounter, nusers, active, locked, wg, recorded, mpc,
                     bidx, status>>
  BY DEF TestTail, At, MainSame
<1> DEFINE c == After[s].count
           new == TailSessions(e, s, 1)
<1>3. /\ s \in todo[t] /\ s \in Nat \ {0}
      /\ c \in Nat \ {0} /\ nusers \in Nat /\ c <= nusers
      /\ s \in SectionsOf(e, usr[t])
      /\ fresh[t] = nusers - c .. nusers - 1
      /\ \A x \in Sessions : usr[x] \in 0..nusers-1 /\ usr[x] < nusers - c
  BY <1>0, <1>1, <1>2, SectionType DEF IsNext, TypeOK, Inviting
<1>4. \A x \in Sessions : x[2] # s
  <2> SUFFICES ASSUME NEW x \in Sessions, x[2] = s
               PROVE  FALSE
    OBVIOUS
  <2>1. PICK y \in Sessions : usr[y] = After[s].inviter /\ s \notin todo[y]
    BY <1>0, <1>3 DEF Inviting
  <2>2. usr[y] = usr[t]
    BY <1>3, <2>1 DEF SectionsOf
  <2> QED
    BY <1>0, <1>3, <2>1, <2>2 DEF OneSessionPerUser
<1>5. Round(s) = 1 /\ TailOf(s) = new
  <2>1. {x \in Sessions : x[1] = e /\ x[2] = s /\ x[3] = 1} = {}
    BY <1>4
  <2> QED
    BY <2>1, FS_EmptySet
<1>6. \A x \in new : /\ x[1] = e /\ x[2] = s /\ x[3] \in 1..c
                     /\ x = <<e, s, x[3], 1>>
                     /\ x \notin Sessions
  BY <1>4 DEF TailSessions
<1>7. \A k \in 1..c : <<e, s, k, 1>> \in new
  BY DEF TailSessions
<1>8. t \notin new
  BY <1>6
<1> HIDE DEF new, Round, TailOf
<1>9. /\ Sessions' = Sessions \cup new
      /\ \A x \in new : /\ pc'[x] = "begin" /\ todo'[x] = {} /\ fresh'[x] = {}
                        /\ usr'[x] = nusers - c + x[3] - 1
                        /\ usr'[x] \in nusers - c .. nusers - 1
      /\ pc'[t] = IF todo[t] \ {s} = {} THEN "ceremony" ELSE "create"
      /\ todo'[t] = todo[t] \ {s} /\ fresh'[t] = {}
      /\ \A x \in Sessions : usr'[x] = usr[x]
      /\ \A x \in Sessions : x # t => /\ pc'[x] = pc[x] /\ todo'[x] = todo[x]
                                      /\ fresh'[x] = fresh[x]
  BY <1>1, <1>3, <1>5, <1>6, <1>8 DEF Sessions
<1>10. TypeOK'
  <2>1. pc' \in [Sessions' -> SessionPC]
    BY <1>0, <1>1, <1>5, <1>9 DEF TypeOK, SessionPC
  <2>2. usr' \in [Sessions' -> 0..nusers-1]
    <3>1. \A x \in Sessions' : usr'[x] \in 0..nusers-1
      BY <1>3, <1>9
    <3> QED
      BY <1>1, <1>5, <1>9, <3>1
  <2>3. todo' \in [Sessions' -> SUBSET DOMAIN After]
    BY <1>0, <1>1, <1>5, <1>9 DEF TypeOK
  <2>4. fresh' \in [Sessions' -> SUBSET (0..nusers-1)]
    BY <1>0, <1>1, <1>5, <1>9 DEF TypeOK
  <2> QED
    BY <1>0, <1>2, <2>1, <2>2, <2>3, <2>4 DEF TypeOK
<1>11. new \subseteq AfterSessions(e)
  BY <1>3 DEF AfterSessions, SectionsOf, new
<1>12. Expected' = Expected
  BY <1>2, <1>3, <1>6, <1>9 DEF Expected
<1>13. DoneSessions' = DoneSessions
  BY <1>2, <1>6, <1>9 DEF DoneSessions
<1>14. CountedIn'
  <2>1. IsFiniteSet(Sessions')
    <3>1. IsFiniteSet(new)
      BY TailSessionsFinite DEF new
    <3> QED
      BY <1>0, <1>9, <3>1, FS_Union DEF CountedIn
  <2>2. Sessions' \subseteq Expected' \cap SessionName
    <3>1. new \subseteq SessionName
      BY <1>0, <1>3, <1>6, SectionType DEF SessionName, TypeOK
    <3> QED
      BY <1>0, <1>9, <1>11, <1>12, <3>1 DEF CountedIn, Expected
  <2>3. \A x \in Sessions' : x[1] = testCounter'
    BY <1>0, <1>2, <1>6, <1>9 DEF CountedIn
  <2>4. wg' = Cardinality(Expected' \ DoneSessions')
    BY <1>0, <1>2, <1>12, <1>13 DEF CountedIn
  <2> QED
    BY <2>1, <2>2, <2>3, <2>4 DEF CountedIn
<1>15. MainKnows'
  BY <1>0, <1>2, <1>9, <1>12, <1>13 DEF MainKnows
<1>16. OneSessionPerUser'
  <2>1. \A x, y \in Sessions' : usr'[x] = usr'[y] => x = y
    <3> SUFFICES ASSUME NEW x \in Sessions', NEW y \in Sessions',
                        usr'[x] = usr'[y]
                 PROVE  x = y
      OBVIOUS
    <3>1. CASE x \in Sessions /\ y \in Sessions
      BY <1>0, <1>9, <3>1 DEF OneSessionPerUser
    <3>2. CASE x \in new /\ y \in new
      <4>1. x[3] = y[3]
        BY <1>3, <1>6, <1>9, <3>2
      <4> QED
        BY <1>6, <3>2, <4>1
    <3>3. CASE x \in Sessions /\ y \in new
      BY <1>3, <1>9, <3>3
    <3>4. CASE x \in new /\ y \in Sessions
      BY <1>3, <1>9, <3>4
    <3> QED
      BY <1>9, <3>1, <3>2, <3>3, <3>4
  <2>2. \A u \in 0..nusers-1 :
           \E x \in Sessions' : usr'[x] = u \/ u \in fresh'[x]
    <3> SUFFICES ASSUME NEW u \in 0..nusers-1
                 PROVE  \E x \in Sessions' : usr'[x] = u \/ u \in fresh'[x]
      OBVIOUS
    <3>1. PICK x \in Sessions : usr[x] = u \/ u \in fresh[x]
      BY <1>0 DEF OneSessionPerUser
    <3>2. CASE u \in fresh[x] /\ x = t
      <4> DEFINE k == u - (nusers - c) + 1
                 y == <<e, s, k, 1>>
      <4>1. k \in 1..c
        BY <1>3, <3>2
      <4>2. y \in new /\ y[3] = k
        BY <1>7, <4>1
      <4>3. usr'[y] = u
        BY <1>3, <1>9, <4>1, <4>2
      <4> QED
        BY <1>9, <4>2, <4>3
    <3>3. CASE usr[x] = u \/ x # t
      BY <1>9, <3>1, <3>3
    <3> QED
      BY <3>1, <3>2, <3>3
  <2>3. (\A x \in Sessions : pc[x] \in {"leave", "done"} => usr[x] \in recorded)'
    BY <1>0, <1>2, <1>9 DEF OneSessionPerUser
  <2> QED
    BY <1>2, <2>1, <2>2, <2>3 DEF OneSessionPerUser
<1>17. Inviting'
  <2>0. \A x \in Sessions : x # t => todo[x] = {}
    BY <1>3, OneInviterAtATime
  <2>1. (\A x \in Sessions : todo[x] \subseteq SectionsOf(testCounter, usr[x]))'
    BY <1>0, <1>2, <1>9 DEF Inviting, SectionsOf, AfterSections
  <2>2. (\A x \in Sessions :
            pc[x] \in {"create", "start", "tail"} => todo[x] # {})'
    BY <1>0, <1>2, <1>9 DEF Inviting
  <2>3. (\A x \in Sessions :
            pc[x] \notin {"create", "start", "tail", "error"} =>
              todo[x] = {} /\ fresh[x] = {})'
    BY <1>0, <1>2, <1>9 DEF Inviting
  <2>4. (\A x \in Sessions : pc[x] = "create" => fresh[x] = {})'
    BY <1>0, <1>2, <1>9 DEF Inviting
  <2>5. (\A x \in Sessions : \A i \in todo[x] :
            pc[x] \in {"start", "tail"} /\ IsNext(i, todo[x]) =>
              /\ After[i].count <= nusers
              /\ fresh[x] = nusers - After[i].count .. nusers - 1
              /\ \A y \in Sessions : usr[y] < nusers - After[i].count)'
    BY <1>0, <1>2, <1>9, <2>0 DEF Inviting
  <2>6. (\A x \in Sessions : x[2] # 0 =>
            \E y \in Sessions :
              /\ usr[y] = After[x[2]].inviter
              /\ x[2] \notin todo[y]
              /\ pc[y] \notin {"begin", "switch", "flips"})'
    <3> SUFFICES ASSUME NEW x \in Sessions', x[2] # 0
                 PROVE  \E y \in Sessions' :
                          /\ usr'[y] = After[x[2]].inviter
                          /\ x[2] \notin todo'[y]
                          /\ pc'[y] \notin {"begin", "switch", "flips"}
      BY <1>2
    <3>1. CASE x \in new
      <4>1. usr[t] = After[s].inviter
        BY <1>3 DEF SectionsOf
      <4> QED
        BY <1>6, <1>9, <3>1, <4>1
    <3>2. CASE x \in Sessions
      <4>1. PICK y \in Sessions : /\ usr[y] = After[x[2]].inviter
                                  /\ x[2] \notin todo[y]
                                  /\ pc[y] \notin {"begin", "switch", "flips"}
        BY <1>0, <3>2 DEF Inviting
      <4> QED
        BY <1>9, <4>1
    <3> QED
      BY <1>9, <3>1, <3>2
  <2> QED
    BY <2>1, <2>2, <2>3, <2>4, <2>5, <2>6 DEF Inviting
<1> QED
  BY <1>0, <1>2, <1>10, <1>14, <1>15, <1>16, <1>17 DEF IInv, NoPanic

\* wg.Done() counts down what is still expected, so it never finds a zero.
LEMMA DonePreserves ==
  ASSUME IInv, NEW t \in Sessions, Done(t)
  PROVE  IInv' /\ wg # 0
<1>0. /\ TypeOK /\ CountedIn /\ MainKnows /\ OneSessionPerUser
      /\ Inviting /\ NoPanic
  BY DEF IInv
<1> DEFINE left == Expected \ DoneSessions
<1>1. /\ pc[t] = "leave"
      /\ pc' = [pc EXCEPT ![t] = "done"]
      /\ UNCHANGED <<testCounter, nusers, active, locked, recorded, mpc, bidx,
                     usr, todo, fresh>>
  BY DEF Done, At, Goto
<1>2. /\ Sessions' = Sessions
      /\ pc'[t] = "done"
      /\ \A x \in Sessions : x # t => pc'[x] = pc[x]
  BY <1>0, <1>1 DEF Sessions, TypeOK
<1>3. t \in left
  BY <1>0, <1>1 DEF DoneSessions, CountedIn
<1>4. Expected' = Expected /\ DoneSessions' = DoneSessions \cup {t}
  BY <1>1, <1>2 DEF Expected, DoneSessions
<1>5. IsFiniteSet(left)
  BY <1>0, ExpectedFinite, FS_Subset
<1>6. wg = Cardinality(left) /\ wg \in Nat
  BY <1>0 DEF CountedIn, TypeOK
<1>7. wg # 0
  BY <1>3, <1>5, <1>6, FS_EmptySet
<1>8. wg' = wg - 1 /\ status' = status /\ wg' \in Nat
  BY <1>6, <1>7 DEF Done
<1>9. wg' = Cardinality(Expected' \ DoneSessions')
  <2>1. Expected' \ DoneSessions' = left \ {t}
    BY <1>4
  <2>2. Cardinality(left \ {t}) = Cardinality(left) - 1
    BY <1>3, <1>5, FS_RemoveElement
  <2> QED
    BY <1>6, <1>8, <2>1, <2>2
<1>10. TypeOK'
  BY <1>0, <1>1, <1>2, <1>8 DEF TypeOK, SessionPC, Sessions
<1>11. CountedIn' /\ MainKnows'
  BY <1>0, <1>1, <1>2, <1>4, <1>9 DEF CountedIn, MainKnows
<1>12. OneSessionPerUser'
  BY <1>0, <1>1, <1>2 DEF OneSessionPerUser
<1>13. Inviting'
  <2>1. (\A x \in Sessions : todo[x] \subseteq SectionsOf(testCounter, usr[x]))'
    BY <1>0, <1>1, <1>2 DEF Inviting, SectionsOf, AfterSections
  <2>2. (\A x \in Sessions :
            pc[x] \in {"create", "start", "tail"} => todo[x] # {})'
    BY <1>0, <1>1, <1>2 DEF Inviting
  <2>3. (\A x \in Sessions :
            pc[x] \notin {"create", "start", "tail", "error"} =>
              todo[x] = {} /\ fresh[x] = {})'
    BY <1>0, <1>1, <1>2 DEF Inviting
  <2>4. (\A x \in Sessions : pc[x] = "create" => fresh[x] = {})'
    BY <1>0, <1>1, <1>2 DEF Inviting
  <2>5. (\A x \in Sessions : \A s \in todo[x] :
            pc[x] \in {"start", "tail"} /\ IsNext(s, todo[x]) =>
              /\ After[s].count <= nusers
              /\ fresh[x] = nusers - After[s].count .. nusers - 1
              /\ \A y \in Sessions : usr[y] < nusers - After[s].count)'
    BY <1>0, <1>1, <1>2 DEF Inviting, IsNext
  <2>6. (\A x \in Sessions : x[2] # 0 =>
            \E y \in Sessions :
              /\ usr[y] = After[x[2]].inviter
              /\ x[2] \notin todo[y]
              /\ pc[y] \notin {"begin", "switch", "flips"})'
    BY <1>0, <1>1, <1>2 DEF Inviting
  <2> QED
    BY <2>1, <2>2, <2>3, <2>4, <2>5, <2>6 DEF Inviting
<1> QED
  BY <1>0, <1>7, <1>8, <1>10, <1>11, <1>12, <1>13 DEF IInv, NoPanic

-----------------------------------------------------------------------------
(* The main goroutine                                                      *)

LEMMA CreateBeforePreserves ==
  ASSUME IInv, GodIsNotAlone, CreateBefore
  PROVE  IInv'
<1>0. /\ TypeOK /\ CountedIn /\ MainKnows /\ OneSessionPerUser
      /\ Inviting /\ NoPanic
  BY DEF IInv
<1> DEFINE count == Before[testCounter][bidx]
           n == NewUsers(count)
<1>1. /\ mpc = "before" /\ bidx <= Len(Before[testCounter])
      /\ nusers' = nusers + n
      /\ active' = active \cup (nusers .. nusers + n - 1)
      /\ bidx' = bidx + 1
      /\ UNCHANGED <<testCounter, locked, wg, recorded, mpc, pc, usr, todo,
                     fresh, status>>
  BY DEF CreateBefore, svars
<1>2. Sessions = {} /\ Sessions' = {}
  BY <1>0, <1>1 DEF MainKnows, Sessions
<1>3. count \in Nat \ {0}
  <2>1. Before[testCounter] \in Seq(Nat \ {0})
    BY <1>0, ScenarioAssumption DEF TypeOK
  <2> QED
    BY <1>0, <1>1, <2>1 DEF TypeOK
<1>4. n \in Nat /\ nusers \in Nat
  BY <1>0, <1>3 DEF NewUsers, TypeOK
<1>5. TypeOK'
  <2>1. nusers' \in Nat /\ 0..nusers-1 \subseteq 0..nusers'-1
        /\ nusers..nusers+n-1 \subseteq 0..nusers'-1
    BY <1>1, <1>4
  <2>2. /\ usr' \in [{} -> 0..nusers'-1]
        /\ fresh' \in [{} -> SUBSET (0..nusers'-1)]
        /\ pc' \in [{} -> SessionPC]
        /\ todo' \in [{} -> SUBSET DOMAIN After]
    BY <1>0, <1>1, <1>2 DEF TypeOK
  <2>3. bidx' \in Nat \ {0}
    BY <1>0, <1>1 DEF TypeOK
  <2>4. active' \subseteq 0..nusers'-1 /\ recorded' \subseteq 0..nusers'-1
    BY <1>0, <1>1, <2>1 DEF TypeOK
  <2> HIDE DEF n
  <2> QED
    BY <1>0, <1>1, <1>2, <2>1, <2>2, <2>3, <2>4 DEF TypeOK
<1>6. CountedIn'
  BY <1>2, FS_EmptySet DEF CountedIn
<1>7. MainKnows'
  <2>1. GodMode /\ nusers < 2 => n = count - 1 /\ count >= 2
    BY <1>0, GodIsNotAlone DEF MainKnows, NewUsers, GodIsNotAlone
  <2>2. GodMode => nusers' >= 2
    BY <1>0, <1>1, <1>3, <1>4, <2>1 DEF MainKnows
  <2> QED
    BY <1>1, <1>2, <1>4, <2>2 DEF MainKnows
<1>8. OneSessionPerUser' /\ Inviting'
  BY <1>2 DEF OneSessionPerUser, Inviting
<1> QED
  BY <1>0, <1>1, <1>5, <1>6, <1>7, <1>8 DEF IInv, NoPanic

LEMMA StartTestPreserves ==
  ASSUME IInv, GodIsNotAlone, StartTest
  PROVE  IInv'
<1>0. /\ TypeOK /\ CountedIn /\ MainKnows /\ OneSessionPerUser
      /\ Inviting /\ NoPanic
  BY DEF IInv
<1> DEFINE main == MainSessions(testCounter, nusers)
<1>1. /\ mpc = "before" /\ bidx > Len(Before[testCounter]) /\ active # {}
      /\ recorded' = {} /\ mpc' = "wait"
      /\ wg' = Cardinality(main \cup AfterSessions(testCounter))
      /\ UNCHANGED <<testCounter, nusers, active, locked, bidx, status>>
  BY DEF StartTest
<1>2. Sessions = {} /\ nusers \in Nat
  BY <1>0, <1>1 DEF MainKnows, TypeOK
<1>3. /\ pc' = [t \in main |-> "begin"] /\ usr' = [t \in main |-> t[3] - 1]
      /\ todo' = [t \in main |-> {}] /\ fresh' = [t \in main |-> {}]
      /\ Sessions' = main
  BY <1>2 DEF StartTest, Sessions
<1>4. \A t \in main : /\ t[1] = testCounter /\ t[2] = 0 /\ t[3] \in 1..nusers
                      /\ t = <<testCounter, 0, t[3], 1>>
  BY DEF MainSessions
<1>5. \A k \in 1..nusers : <<testCounter, 0, k, 1>> \in main
  BY DEF MainSessions
<1>6. nusers # 0
  <2>1. PICK u \in active : TRUE
    BY <1>1
  <2>2. u \in 0..nusers-1
    BY <1>0 DEF TypeOK
  <2> QED
    BY <1>2, <2>2
<1>7. IsFiniteSet(main) /\ IsFiniteSet(AfterSessions(testCounter))
  BY <1>2, MainSessionsFinite, AfterSessionsFinite
<1> HIDE DEF main
<1>8. Expected' = main \cup AfterSessions(testCounter)
  BY <1>1, <1>3, <1>4 DEF Expected
<1>9. DoneSessions' = {}
  BY <1>3 DEF DoneSessions
<1>10. wg' = Cardinality(Expected' \ DoneSessions') /\ wg' \in Nat
  <2>1. IsFiniteSet(Expected')
    BY <1>7, <1>8, FS_Union
  <2>2. Expected' \ DoneSessions' = Expected'
    BY <1>9
  <2> QED
    BY <1>1, <1>8, <2>1, <2>2, FS_CardinalityType
<1>11. TypeOK'
  <2>1. \A t \in main : t[3] - 1 \in 0..nusers-1
    BY <1>2, <1>4
  <2> QED
    BY <1>0, <1>1, <1>2, <1>3, <1>10, <2>1 DEF TypeOK, MainPC, SessionPC
<1>12. CountedIn'
  <2>1. main \subseteq SessionName
    BY <1>0, <1>2, <1>4, SectionType DEF SessionName, TypeOK
  <2> QED
    BY <1>1, <1>3, <1>4, <1>7, <1>8, <1>10, <2>1 DEF CountedIn
<1>13. MainKnows'
  <2>1. main # {}
    <3>1. 1 \in 1..nusers
      BY <1>2, <1>6
    <3> QED
      BY <1>5, <3>1
  <2>2. ~(GodMode /\ nusers < 2)
    BY <1>0, <1>1 DEF MainKnows, GodIsNotAlone
  <2> QED
    BY <1>1, <1>3, <2>1, <2>2 DEF MainKnows
<1>14. OneSessionPerUser'
  <2>1. \A x, y \in main : usr'[x] = usr'[y] => x = y
    BY <1>2, <1>3, <1>4
  <2>2. \A u \in 0..nusers-1 : \E t \in main : usr'[t] = u
    <3> SUFFICES ASSUME NEW u \in 0..nusers-1
                 PROVE  \E t \in main : usr'[t] = u
      OBVIOUS
    <3>1. u + 1 \in 1..nusers
      BY <1>2
    <3>2. <<testCounter, 0, u + 1, 1>> \in main
      BY <1>5, <3>1
    <3> QED
      BY <1>2, <1>3, <3>2
  <2> QED
    BY <1>1, <1>3, <2>1, <2>2 DEF OneSessionPerUser
<1>15. Inviting'
  BY <1>3, <1>4 DEF Inviting
<1> QED
  BY <1>0, <1>1, <1>11, <1>12, <1>13, <1>14, <1>15 DEF IInv, NoPanic

\* Steps of the main goroutine that leave sessions and users alone.
LEMMA MainGotoPreserves ==
  ASSUME IInv,
         UNCHANGED <<testCounter, nusers, active, wg, recorded, bidx, svars>>,
         locked' \in BOOLEAN,
         status' \in {"running", "exited", status},
         \/ mpc' \in {mpc, "error"}
         \/ mpc = "wait" /\ wg = 0 /\ mpc' = "assert"
  PROVE  IInv'
<1>0. /\ TypeOK /\ CountedIn /\ MainKnows /\ OneSessionPerUser
      /\ Inviting /\ NoPanic
  BY DEF IInv
<1>1. /\ UNCHANGED <<pc, usr, todo, fresh>> /\ Sessions' = Sessions
      /\ UNCHANGED <<testCounter, nusers, active, wg, recorded, bidx>>
  BY DEF svars, Sessions
<1>2. Expected' = Expected /\ DoneSessions' = DoneSessions
  BY <1>1 DEF Expected, DoneSessions
<1>3. TypeOK'
  BY <1>0, <1>1 DEF TypeOK, MainPC
<1>4. CountedIn'
  BY <1>0, <1>1, <1>2 DEF CountedIn
<1>5. MainKnows'
  <2>1. CASE mpc' \in {mpc, "error"}
    BY <1>0, <1>1, <1>2, <2>1 DEF MainKnows
  <2>2. CASE mpc = "wait" /\ wg = 0 /\ mpc' = "assert"
    <3>1. IsFiniteSet(Expected \ DoneSessions)
      BY <1>0, ExpectedFinite, FS_Subset
    <3>2. Expected \ DoneSessions = {}
      BY <1>0, <2>2, <3>1, FS_EmptySet DEF CountedIn, MainKnows
    <3> QED
      BY <1>0, <1>1, <1>2, <2>2, <3>2 DEF MainKnows
  <2> QED
    BY <2>1, <2>2
<1>6. OneSessionPerUser' /\ Inviting'
  BY <1>0, <1>1 DEF OneSessionPerUser, Inviting, SectionsOf, AfterSections
<1> QED
  BY <1>0, <1>3, <1>4, <1>5, <1>6 DEF IInv, NoPanic

\* At the assertion nothing runs, and every user has been recorded.
LEMMA AssertFacts ==
  ASSUME IInv, mpc = "assert"
  PROVE  /\ Live = {}
         /\ active \subseteq recorded
<1>0. /\ TypeOK /\ CountedIn /\ MainKnows /\ OneSessionPerUser /\ Inviting
  BY DEF IInv
<1>1. \A t \in Sessions : pc[t] = "done"
  BY <1>0 DEF MainKnows, CountedIn, DoneSessions
<1>2. \A u \in 0..nusers-1 : \E t \in Sessions : usr[t] = u
  BY <1>0, <1>1 DEF OneSessionPerUser, MainKnows, Inviting
<1>3. active \subseteq recorded
  BY <1>0, <1>1, <1>2 DEF TypeOK, OneSessionPerUser
<1> QED
  BY <1>1, <1>3 DEF Live

LEMMA AssertPreserves ==
  ASSUME IInv, Assert
  PROVE  IInv'
<1>0. TypeOK /\ MainKnows /\ NoPanic
  BY DEF IInv
<1>1. Live = {}
  BY AssertFacts DEF Assert
<1>2. /\ testCounter < MaxEpoch /\ testCounter' = testCounter + 1
      /\ mpc' = "before" /\ bidx' = 1
      /\ pc' = [t \in {} |-> pc[t]] /\ usr' = [t \in {} |-> usr[t]]
      /\ todo' = [t \in {} |-> todo[t]] /\ fresh' = [t \in {} |-> fresh[t]]
      /\ UNCHANGED <<nusers, active, locked, wg, recorded, status>>
  BY <1>1 DEF Assert
<1>3. Sessions' = {}
  BY <1>2 DEF Sessions
<1>4. TypeOK'
  <2>1. testCounter' \in 0..MaxEpoch
    BY <1>0, <1>2, ScenarioAssumption DEF TypeOK
  <2>2. /\ usr' \in [{} -> 0..nusers'-1]
        /\ fresh' \in [{} -> SUBSET (0..nusers'-1)]
        /\ pc' \in [{} -> SessionPC]
        /\ todo' \in [{} -> SUBSET DOMAIN After]
    BY <1>2
  <2> QED
    BY <1>0, <1>2, <1>3, <2>1, <2>2 DEF TypeOK, MainPC
<1>5. CountedIn' /\ OneSessionPerUser' /\ Inviting'
  BY <1>3, FS_EmptySet DEF CountedIn, OneSessionPerUser, Inviting
<1>6. MainKnows'
  <2>1. ~(GodMode /\ nusers < 2)
    BY <1>0 DEF MainKnows, Assert
  <2> QED
    BY <1>2, <1>3, <2>1 DEF MainKnows
<1> QED
  BY <1>0, <1>2, <1>4, <1>5, <1>6 DEF IInv, NoPanic

LEMMA StepPreserves ==
  ASSUME OneInviterPerEpoch, GodIsNotAlone, IInv, [Next]_vars
  PROVE  IInv'
<1>1. CASE Main
  <2>1. CASE CreateBefore
    BY <2>1, CreateBeforePreserves
  <2>2. CASE StartTest
    BY <2>2, StartTestPreserves
  <2>3. CASE Assert
    BY <2>3, AssertPreserves
  <2>4. CASE AssertPanics
    BY <2>4, AssertFacts DEF AssertPanics
  <2>5. CASE \/ BeforeFails \/ NoActiveUsers \/ WaitDone \/ WaitTimeout
             \/ AssertFails \/ HandleError \/ Exit
    <3>1. /\ UNCHANGED <<testCounter, nusers, active, wg, recorded, bidx,
                         svars>>
          /\ locked' \in BOOLEAN
          /\ status' \in {"running", "exited", status}
          /\ \/ mpc' \in {mpc, "error"}
             \/ mpc = "wait" /\ wg = 0 /\ mpc' = "assert"
      BY <2>5 DEF BeforeFails, NoActiveUsers, WaitDone, WaitTimeout,
                  AssertFails, HandleError, Exit, IInv, TypeOK
    <3> QED
      BY <3>1, MainGotoPreserves
  <2> QED
    BY <1>1, <2>1, <2>2, <2>3, <2>4, <2>5 DEF Main
<1>2. CASE \E t \in Sessions : SessionStep(t)
  BY <1>2, QuietSteps, SubmitFlipsPreserves, CreateUsersPreserves,
     TestTailPreserves, DonePreserves DEF SessionStep
<1>3. CASE UNCHANGED vars
  <2>1. UNCHANGED <<testCounter, nusers, active, wg, recorded, bidx, svars,
                    locked, status, mpc>>
    BY <1>3 DEF vars, svars
  <2> QED
    BY <2>1, MainGotoPreserves DEF IInv, TypeOK
<1> QED
  BY <1>1, <1>2, <1>3 DEF Next, Stop

-----------------------------------------------------------------------------
(* The theorems                                                            *)

\* The strengthened invariant holds throughout every run.
THEOREM Invariance ==
  ASSUME OneInviterPerEpoch, GodIsNotAlone
  PROVE  Spec => []IInv
<1>1. Init => IInv
  BY InitIInv
<1>2. IInv /\ [Next]_vars => IInv'
  BY StepPreserves
<1> QED
  BY <1>1, <1>2, PTL DEF Spec

\* The types of the variables (WaitGroup counter never negative included).
THEOREM TypeCorrect ==
  ASSUME OneInviterPerEpoch, GodIsNotAlone
  PROVE  Spec => []TypeOK
<1>1. IInv => TypeOK
  BY DEF IInv
<1> QED
  BY <1>1, Invariance, PTL

\* Whenever test() has finished waiting, and until the next test begins, no
\* session goroutine is left.
THEOREM AllSessionsCompleted ==
  ASSUME OneInviterPerEpoch, GodIsNotAlone
  PROVE  Spec => []SessionsCompleted
<1>1. IInv => SessionsCompleted
  <2> SUFFICES ASSUME IInv, mpc \in {"assert", "before"}
               PROVE  Live = {}
    BY DEF SessionsCompleted
  <2>1. CASE mpc = "assert"
    BY <2>1, AssertFacts
  <2>2. CASE mpc = "before"
    BY <2>2 DEF IInv, MainKnows, Live
  <2> QED
    BY <2>1, <2>2
<1> QED
  BY <1>1, Invariance, PTL

\* The assertion of an epoch sees every user tested by exactly one session.
THEOREM EveryUserTestedOnce ==
  ASSUME OneInviterPerEpoch, GodIsNotAlone
  PROVE  Spec => []TestedOnce
<1>1. IInv => TestedOnce
  <2> SUFFICES ASSUME IInv, mpc = "assert", NEW u \in 0..nusers-1
               PROVE  Cardinality({t \in Sessions : usr[t] = u}) = 1
    BY DEF TestedOnce
  <2>1. \A t \in Sessions : fresh[t] = {}
    BY AssertFacts DEF IInv, Inviting, Live
  <2>2. PICK t \in Sessions : usr[t] = u
    BY <2>1 DEF IInv, OneSessionPerUser, MainKnows
  <2>3. {x \in Sessions : usr[x] = u} = {t}
    BY <2>2 DEF IInv, OneSessionPerUser
  <2> QED
    BY <2>3, FS_Singleton
<1> QED
  BY <1>1, Invariance, PTL

\* Neither a negative WaitGroup counter nor a missing user state ends the run.
THEOREM NeverPanics ==
  ASSUME OneInviterPerEpoch, GodIsNotAlone
  PROVE  Spec => []NoPanic
<1>1. IInv => NoPanic
  BY DEF IInv
<1> QED
  BY <1>1, Invariance, PTL

-----------------------------------------------------------------------------
(* The epoch loop implements the fork-join barrier.                        *)

\* A step of a session that ends it joins; one that starts others spawns;
\* every other one is a stutter.
LEMMA SessionStepRefines ==
  ASSUME IInv, IInv', NEW t \in Sessions, SessionStep(t)
  PROVE  [Barrier!Next]_(Barrier!vars)
<1>0. /\ Sessions \subseteq SessionName /\ Sessions' \subseteq SessionName
      /\ pc \in [Sessions -> SessionPC]
  BY DEF IInv, TypeOK, CountedIn
<1>1. testCounter' = testCounter
  BY DEF SessionStep, MainSame, Begin, SwitchNode, SubmitFlips, CreateUsers,
         StartUsers, TestTail, EndSession, LockStates, Record, Done,
         SessionFails
<1>2. CASE Done(t)
  <2>1. /\ pc[t] = "leave" /\ pc' = [pc EXCEPT ![t] = "done"]
    BY <1>2 DEF Done, At, Goto
  <2>2. /\ Sessions' = Sessions
        /\ t \in Live /\ Live' = Live \ {t}
    BY <1>0, <2>1 DEF Live, Sessions
  <2>3. Barrier!Join
    BY <1>1, <2>2 DEF Barrier!Join
  <2> QED
    BY <2>3 DEF Barrier!Next
<1>3. CASE TestTail(t)
  <2>1. pc[t] = "tail"
    BY <1>3 DEF TestTail, At
  <2>2. /\ Sessions \subseteq Sessions'
        /\ \A x \in Sessions : pc'[x] = "done" => pc[x] = "done"
    BY <1>0, <1>3 DEF TestTail, Sessions
  <2>3. Live # {} /\ Live \subseteq Live' /\ Live' \subseteq SessionName
    BY <1>0, <2>1, <2>2 DEF Live
  <2>4. (Sessions # {})' = (Sessions # {})
    BY <2>2
  <2>5. Barrier!Spawn
    BY <1>1, <2>3, <2>4 DEF Barrier!Spawn
  <2> QED
    BY <2>5 DEF Barrier!Next
<1>4. CASE ~Done(t) /\ ~TestTail(t)
  <2>1. \E p \in SessionPC \ {"done"} :
           pc[t] # "done" /\ pc' = [pc EXCEPT ![t] = p]
    BY <1>4 DEF SessionStep, Begin, SwitchNode, SubmitFlips, CreateUsers,
         StartUsers, EndSession, LockStates, Record, SessionFails, At, Goto,
         SessionPC
  <2>2. Sessions' = Sessions /\ Live' = Live
    BY <1>0, <2>1 DEF Live, Sessions
  <2>3. UNCHANGED Barrier!vars
    BY <1>1, <2>2 DEF Barrier!vars
  <2> QED
    BY <2>3
<1> QED
  BY <1>2, <1>3, <1>4

LEMMA MainRefines ==
  ASSUME IInv, IInv', Main
  PROVE  [Barrier!Next]_(Barrier!vars)
<1>0. Sessions' \subseteq SessionName
  BY DEF IInv, CountedIn
<1>1. CASE StartTest
  <2>1. Sessions = {}
    BY <1>1 DEF IInv, MainKnows, StartTest
  <2>2. Sessions' # {} /\ mpc' = "wait"
    BY <1>1 DEF IInv, MainKnows, StartTest
  <2>3. Live' = Sessions'
    BY <1>1, <2>1 DEF StartTest, Live, Sessions
  <2>4. Barrier!Fork
    <3>1. ~(Sessions # {}) /\ (Sessions # {})' = TRUE
      BY <2>1, <2>2
    <3>2. Live' \in (SUBSET SessionName) \ {{}}
      BY <1>0, <2>2, <2>3
    <3>3. testCounter' = testCounter
      BY <1>1 DEF StartTest
    <3> QED
      BY <3>1, <3>2, <3>3 DEF Barrier!Fork
  <2> QED
    BY <2>4 DEF Barrier!Next
<1>2. CASE Assert
  <2>1. Live = {}
    BY <1>2, AssertFacts DEF Assert
  <2>2. Sessions # {}
    BY <1>2 DEF Assert, IInv, MainKnows
  <2>3. Sessions' = {} /\ Live' = {}
    BY <1>2, <2>1 DEF Assert, Sessions, Live
  <2>4. Barrier!Close
    BY <1>2, <2>1, <2>2, <2>3 DEF Barrier!Close, Assert
  <2> QED
    BY <2>4 DEF Barrier!Next
<1>3. CASE ~StartTest /\ ~Assert
  <2>1. pc' = pc /\ testCounter' = testCounter
    BY <1>3 DEF Main, svars, CreateBefore, BeforeFails, NoActiveUsers,
       WaitDone, WaitTimeout, AssertFails, AssertPanics, HandleError, Exit
  <2>2. UNCHANGED Barrier!vars
    BY <2>1 DEF Barrier!vars, Live, Sessions
  <2> QED
    BY <2>2
<1> QED
  BY <1>1, <1>2, <1>3

\* Sessions of an epoch start, multiply and end before the next epoch begins:
\* the main loop with its WaitGroup implements the abstract barrier.
THEOREM Refinement ==
  ASSUME OneInviterPerEpoch, GodIsNotAlone
  PROVE  Spec => ImplementsBarrier
<1>1. Init => Barrier!Init
  BY DEF Init, Barrier!Init, Sessions, Live
<1>2. IInv /\ IInv' /\ [Next]_vars => [Barrier!Next]_(Barrier!vars)
  <2> SUFFICES ASSUME IInv, IInv', [Next]_vars
               PROVE  [Barrier!Next]_(Barrier!vars)
    OBVIOUS
  <2>1. CASE Main
    BY <2>1, MainRefines
  <2>2. CASE \E t \in Sessions : SessionStep(t)
    BY <2>2, SessionStepRefines
  <2>3. CASE UNCHANGED vars
    <3>1. UNCHANGED Barrier!vars
      BY <2>3 DEF vars, Barrier!vars, Live, Sessions
    <3> QED
      BY <3>1
  <2> QED
    BY <2>1, <2>2, <2>3 DEF Next, Stop
<1> QED
  BY <1>1, <1>2, Invariance, PTL DEF Spec, Barrier!Spec, ImplementsBarrier
=============================================================================
