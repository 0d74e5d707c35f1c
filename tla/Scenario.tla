------------------------------ MODULE Scenario ------------------------------
(***************************************************************************)
(* Load: the author's scenario is validated and converted to the maps that *)
(* the epoch loop reads.  Numbers come as texts like "1,2-4"; here such a  *)
(* text is a sequence of pairs <<first, last>> (a single number twice), or *)
(* Malformed where strconv.Atoi fails.  A number has no sign ("-" is the   *)
(* range separator), but a range may be empty.                             *)
(***************************************************************************)
EXTENDS Integers, FiniteSets, SequencesExt

CONSTANTS
  Inputs,       (* the scenarios, see Written                              *)
  Nodes         (* values of the nodes flag; 0 leaves Users as it is       *)

Malformed == <<"malformed">>
NoInviter == -1

Text == Seq((Nat \X Nat) \cup {Malformed})
UserSection == [epochs : Text, inviter : Int, count : Int]
SwitchSection == [epochs : Text, nodes : Text, delay : Int]
Written ==
  [users : Int, newUsers : Seq(UserSection), afterFlips : Seq(UserSection),
   ceremonies : Seq([epochs : Text, users : Seq(Text)]),
   starts : Seq(SwitchSection), stops : Seq(SwitchSection)]

ASSUME ScenarioAssumption == Inputs \subseteq Written /\ Nodes \subseteq Nat

VARIABLES
  sc, nodes,    (* the scenario and the nodes flag                         *)
  pc,           (* where Load is, or how it ended                          *)
  i,            (* the ceremony that is validated or converted             *)
  used,         (* usedEpochs of validateEpoch                             *)
  newUsers,     (* EpochNewUsersBeforeFlips: per epoch, numbers of users   *)
  afterFlips,   (* EpochNewUsersAfterFlips                                 *)
  ceremonies,   (* Ceremonies: per epoch, the ceremony it got              *)
  todo,         (* switches that are not converted yet                     *)
  switches      (* EpochNodeSwitches: per epoch and node, its switches     *)

vars == <<sc, nodes, pc, i, used, newUsers, afterFlips, ceremonies, todo,
          switches>>
input == <<sc, nodes>>
result == <<newUsers, afterFlips, ceremonies, todo, switches>>

Init ==
  /\ sc \in Inputs /\ nodes \in Nodes
  /\ pc = "sections" /\ i = 1 /\ used = {}
  /\ newUsers = <<>> /\ afterFlips = <<>> /\ ceremonies = <<>>
  /\ todo = <<>> /\ switches = <<>>

-----------------------------------------------------------------------------
(* parseNums                                                               *)

Parses(text) == \A k \in DOMAIN text : text[k] # Malformed

Nums(text) ==
  FlattenSeq([k \in DOMAIN text |->
    [n \in 1..(text[k][2] - text[k][1] + 1) |-> text[k][1] + n - 1]])

\* All pairs of an element of s and one of t, in the order of two loops.
Pairs(s, t) == FlattenSeq([a \in DOMAIN s |-> [b \in DOMAIN t |-> <<s[a], t[b]>>]])

-----------------------------------------------------------------------------
(* validate                                                                *)

\* validateEpochNode takes for its key the inviter's address in memory,
\* which is another one in every section.
SectionKeys(list) ==
  FlattenSeq([s \in DOMAIN list |->
    LET key == IF list[s].inviter = NoInviter THEN NoInviter ELSE s
        epochs == Nums(list[s].epochs)
    IN  [e \in DOMAIN epochs |-> <<epochs[e], key>>]])

\* validateAllNewUsers
NewUsersValid(list) ==
  /\ \A s \in DOMAIN list : /\ Parses(list[s].epochs)
                            /\ list[s].count > 0
                            /\ list[s].inviter # NoInviter => list[s].inviter >= 0
  /\ IsInjective(SectionKeys(list))

SwitchesValid(list) ==
  \A s \in DOMAIN list :
    Parses(list[s].epochs) /\ Parses(list[s].nodes) /\ list[s].delay >= 0

ValidateSections ==
  /\ pc = "sections"
  /\ pc' = IF /\ sc.users > 0
              /\ NewUsersValid(sc.newUsers) /\ NewUsersValid(sc.afterFlips)
              /\ SwitchesValid(sc.starts) /\ SwitchesValid(sc.stops)
           THEN "ceremonies" ELSE "invalid"
  /\ UNCHANGED <<input, i, used, result>>

Sections == sc.newUsers \o sc.afterFlips
SectionEpochs(s) == ToSet(Nums(Sections[s].epochs))
LastEpoch == Max({0} \cup UNION {SectionEpochs(s) : s \in DOMAIN Sections})

\* epochUserCountsMap: the users that sections add in an epoch.  (A valid
\* section names no epoch twice.)
Added(e) == SumFunctionOnSet([s \in DOMAIN Sections |-> Sections[s].count],
                             {s \in DOMAIN Sections : e \in SectionEpochs(s)})

\* Mutant: users of a later epoch count already.
UsersEver(e) == sc.users + SumFunction([a \in 0..LastEpoch |-> Added(a)])

\* buildEpochUserCounts, and its last entry for the epochs beyond.
UsersIn(e) == sc.users + SumFunction([a \in 0..Min({e, LastEpoch}) |-> Added(a)])

UserTexts(c) == sc.ceremonies[c].users
CeremonyUsers(c) == FlattenSeq([k \in DOMAIN UserTexts(c) |-> Nums(UserTexts(c)[k])])

\* validateUserCeremonies
UsersValid(c, count) ==
  /\ \A k \in DOMAIN UserTexts(c) : Parses(UserTexts(c)[k])
  /\ IsInjective(CeremonyUsers(c))
  /\ \A u \in ToSet(CeremonyUsers(c)) : u < count

Validate(c) ==
  pc = "ceremonies" /\ i = c /\ c \in DOMAIN sc.ceremonies /\ UNCHANGED <<input, result>>
Reject == pc' = "invalid" /\ UNCHANGED <<i, used>>

\* validateEpochs
EpochsValid(c) ==
  LET text == sc.ceremonies[c].epochs
  IN  /\ Parses(text)
      /\ IsInjective(Nums(text))
      /\ ToSet(Nums(text)) \cap used = {}

RejectEpochs(c) == Validate(c) /\ ~EpochsValid(c) /\ Reject

\* epochs[len(epochs)-1] of no epochs.
Panic(c) ==
  /\ Validate(c) /\ EpochsValid(c)
  /\ Nums(sc.ceremonies[c].epochs) = <<>>
  /\ pc' = "panicked" /\ UNCHANGED <<i, used>>

Record(epochs) == used' = used \cup ToSet(epochs)

ValidateCeremony(c) ==
  LET epochs == Nums(sc.ceremonies[c].epochs)
  IN  /\ Validate(c) /\ EpochsValid(c) /\ epochs # <<>>
      /\ IF UsersValid(c, UsersIn(Last(epochs)))
         THEN i' = i + 1 /\ Record(epochs) /\ UNCHANGED pc
         ELSE Reject

-----------------------------------------------------------------------------
(* convert                                                                 *)

\* convertEpochNewUsers: an entry <<epoch, users>> for every epoch of every
\* section, in their order, after those that start with the scenario.
SectionEntries(list) ==
  FlattenSeq([s \in DOMAIN list |->
    LET epochs == Nums(list[s].epochs)
    IN  [e \in DOMAIN epochs |-> <<epochs[e], list[s].count>>]])
Entries(users, list) ==
  (IF users > 0 THEN <<<<0, users>>>> ELSE <<>>) \o SectionEntries(list)

\* The entries of one epoch.
EntriesOf(entries, e) ==
  FlattenSeq([n \in DOMAIN entries |->
    IF entries[n][1] = e THEN <<entries[n]>> ELSE <<>>])

ConvertNewUsers(users, list) ==
  LET entries == Entries(users, list)
  IN  [e \in {entries[n][1] : n \in DOMAIN entries} |-> EntriesOf(entries, e)]

\* What the two loops of convertNodeSwitches go through; "at" is the place
\* in the order in which they do.
Listed(list, isStart) ==
  FlattenSeq([s \in DOMAIN list |->
    LET pairs == Pairs(Nums(list[s].epochs), Nums(list[s].nodes))
    IN  [p \in DOMAIN pairs |-> [epoch |-> pairs[p][1], node |-> pairs[p][2],
                                 isStart |-> isStart, delay |-> list[s].delay,
                                 at |-> 0]]])
AllSwitches ==
  LET all == Listed(sc.starts, TRUE) \o Listed(sc.stops, FALSE)
  IN  [n \in DOMAIN all |-> [all[n] EXCEPT !.at = n]]

ConvertSections ==
  /\ pc = "ceremonies" /\ i > Len(sc.ceremonies)
  /\ newUsers' = ConvertNewUsers(IF nodes > 0 THEN nodes ELSE sc.users, sc.newUsers)
  /\ afterFlips' = ConvertNewUsers(0, sc.afterFlips)
  /\ todo' = AllSwitches
  /\ pc' = "convert" /\ i' = 1
  /\ UNCHANGED <<input, used, ceremonies, switches>>

\* convertUserCeremonies: the place in the list of what each user gets.
UserCeremonies(c) ==
  [u \in ToSet(CeremonyUsers(c)) |->
     <<c, Max({k \in DOMAIN UserTexts(c) : u \in ToSet(Nums(UserTexts(c)[k]))})>>]

ConvertCeremony ==
  /\ pc = "convert" /\ todo = <<>> /\ i <= Len(sc.ceremonies)
  /\ LET epochs == ToSet(Nums(sc.ceremonies[i].epochs))
     IN  ceremonies' = [e \in DOMAIN ceremonies \cup epochs |->
                          IF e \in epochs THEN UserCeremonies(i) ELSE ceremonies[e]]
  /\ i' = i + 1
  /\ UNCHANGED <<input, pc, used, newUsers, afterFlips, todo, switches>>

\* sort.SliceStable by delay.
Sorted(s) ==
  LET rank(a) == Cardinality({b \in DOMAIN s : \/ s[b].delay < s[a].delay
                                               \/ s[b].delay = s[a].delay /\ b <= a})
  IN  [k \in DOMAIN s |-> s[CHOOSE a \in DOMAIN s : rank(a) = k]]

AddThenSort(s, x) == Sorted(Append(s, x))

SwitchesOf(e, n) == IF <<e, n>> \in DOMAIN switches THEN switches[<<e, n>>] ELSE <<>>

ConvertSwitch ==
  /\ pc = "convert" /\ todo # <<>>
  /\ LET x == Head(todo)
         key == <<x.epoch, x.node>>
     IN  switches' = [y \in DOMAIN switches \cup {key} |->
                        IF y = key THEN AddThenSort(SwitchesOf(x.epoch, x.node), x)
                        ELSE switches[y]]
  /\ todo' = Tail(todo)
  /\ UNCHANGED <<input, pc, i, used, newUsers, afterFlips, ceremonies>>

Finish ==
  /\ pc = "convert" /\ todo = <<>> /\ i > Len(sc.ceremonies)
  /\ pc' = "done"
  /\ UNCHANGED <<input, i, used, result>>

Ended == pc \in {"done", "invalid", "panicked"} /\ UNCHANGED vars

Next ==
  \/ ValidateSections
  \/ \E c \in DOMAIN sc.ceremonies :
       RejectEpochs(c) \/ Panic(c) \/ ValidateCeremony(c)
  \/ ConvertSections \/ ConvertCeremony \/ ConvertSwitch \/ Finish \/ Ended

Spec == Init /\ [][Next]_vars

-----------------------------------------------------------------------------
(* Properties                                                              *)

\* Types, and what the conversion has seen of the input.
TypeOK ==
  /\ pc \in {"sections", "ceremonies", "convert", "done", "invalid", "panicked"}
  /\ i \in 1..Len(sc.ceremonies) + 1
  /\ used \subseteq Nat
  /\ \A e \in DOMAIN newUsers : newUsers[e] \in Seq(Nat \X (Nat \ {0}))
  /\ \A e \in DOMAIN afterFlips : afterFlips[e] \in Seq(Nat \X (Nat \ {0}))
  /\ DOMAIN ceremonies \subseteq used
  /\ DOMAIN switches \subseteq Nat \X Nat

\* Users that the converted scenario creates by the end of an epoch.
CreatedBy(f, e) ==
  SumFunctionOnSet([a \in DOMAIN f |-> SumFunction([n \in DOMAIN f[a] |-> f[a][n][2]])],
                   {a \in DOMAIN f : a <= e})
Created(e) == CreatedBy(newUsers, e) + CreatedBy(afterFlips, e)

\* Unless the nodes flag replaces Users after the validation, each user of a
\* ceremony has been created by the last epoch that the ceremony names: what
\* buildEpochUserCounts counts is what convertEpochNewUsers creates.
CeremonyUsersExist ==
  (pc = "done" /\ nodes = 0) => \A c \in DOMAIN sc.ceremonies :
    \A u \in ToSet(CeremonyUsers(c)) : u < Created(Last(Nums(sc.ceremonies[c].epochs)))

\* In a valid scenario no ceremony overwrites another one, nor a section of
\* users another section: each user gets, in each epoch, what was written
\* for it (validation.go:249, 349).
NothingOverwritten ==
  pc = "done" => \A c \in DOMAIN sc.ceremonies :
    \A e \in ToSet(Nums(sc.ceremonies[c].epochs)), k \in DOMAIN UserTexts(c) :
      \A u \in ToSet(Nums(UserTexts(c)[k])) : ceremonies[e][u] = <<c, k>>

\* Whoever has a switch has its list, and the switches in it are all there, by delay, and at equal delays starts
\* before stops and each in the author's order ("sorted switches (stop/start)
\* with delays", internal.go:12), although they are sorted one at a time.
SwitchesSorted ==
  pc = "done" =>
    /\ DOMAIN switches = {<<y.epoch, y.node>> : y \in ToSet(AllSwitches)}
    /\ \A x \in DOMAIN switches :
         LET s == switches[x]
             mine == {y \in ToSet(AllSwitches) : <<y.epoch, y.node>> = x}
         IN  /\ Len(s) = Cardinality(mine) /\ ToSet(s) = mine
             /\ \A a, b \in DOMAIN s : a < b =>
                  \/ s[a].delay < s[b].delay
                  \/ s[a].delay = s[b].delay /\ s[a].at < s[b].at

\* A scenario that Load accepts means what its author wrote: its ceremonies
\* name users that exist, nothing in it is overwritten, and every node gets
\* all its switches in order.
MeansWhatItSays == CeremonyUsersExist /\ NothingOverwritten /\ SwitchesSorted
=============================================================================
