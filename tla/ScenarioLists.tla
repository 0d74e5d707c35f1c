---------------------------- MODULE ScenarioLists --------------------------
(***************************************************************************)
(* The lists of a scenario that say which nodes do something in which      *)
(* epochs, converted section by section to the map that the sessions look  *)
(* into.  Here the numbers of a text are already a sequence (Scenario has  *)
(* parseNums), or MalformedText.  Lists differ in whether such a text      *)
(* stops Load, in what happens to a node that two sections list, and in    *)
(* what is kept of a section.                                              *)
(***************************************************************************)
EXTENDS Naturals, Sequences, FiniteSets

CONSTANTS
  MalformedText, (* a text that parseNums refuses                           *)
  Kinds,        (* the lists to convert, among those below                 *)
  ListSections, (* sections [epochs, nodes, arg, step, onlyGodMode]        *)
  MaxSections   (* bounds the sections of a list                           *)

\* NodeOnlines, NodeOfflines, DelayedKeys; Undelegations, Kills.
Plain == {"onlines", "undelegations"}
\* Delegations, AddStakes; NodeUpdates; StoreToIpfsTxs.
Valued == {"delegations", "updates", "store"}
\* KillDelegators, KillInvitees.
Grouped == {"killDelegators"}
\* The lists that are appended to; of the others a later section overwrites.
Counted == Plain \cup Grouped \cup {"txs"}

ASSUME ListsAssumption ==
  /\ Kinds \subseteq Plain \cup Valued \cup Grouped \cup {"txs"}
  /\ MaxSections \in Nat
  /\ \A s \in ListSections :
       /\ s.epochs = MalformedText \/ s.epochs \in Seq(Nat)
       /\ s.nodes = MalformedText \/ s.nodes \in Seq(Nat)
       /\ s.arg \in Nat /\ s.step \in Nat /\ s.onlyGodMode \in BOOLEAN

VARIABLES
  kind, list, godMode,  (* the list, its sections, the mode of the bot     *)
  lpc,                  (* "validate", "convert", "done" or "panicked"     *)
  k,                    (* the section that is next                        *)
  map,                  (* <<epoch, node>> to its value, or to how often it
                           is listed; of a Grouped list the node is a pair
                           <<arg, node>>                                   *)
  period                (* of Txs: epoch to its period                     *)

listsVars == <<kind, list, godMode, lpc, k, map, period>>

ListsInit ==
  /\ kind \in Kinds /\ godMode \in BOOLEAN
  /\ list \in UNION {[1..n -> ListSections] : n \in 0..MaxSections}
  /\ lpc = "validate" /\ k = 1
  /\ map = [x \in {} |-> 0] /\ period = [x \in {} |-> 0]

-----------------------------------------------------------------------------
(* validate, and the lists whose conversion panics by itself               *)

SectionParses(s) == s.epochs # MalformedText /\ s.nodes # MalformedText
ValidatedLists == {"onlines", "txs"}
\* The period of Txs has to be positive.
SectionAllowed(s) == SectionParses(s) /\ (kind = "txs" => s.arg > 0)
PanickingLists == {"delegations", "killDelegators"}

ValidateList ==
  /\ lpc = "validate"
  /\ lpc' = IF kind \in ValidatedLists /\ \E n \in DOMAIN list : ~SectionAllowed(list[n])
           THEN "panicked" ELSE "convert"
  /\ UNCHANGED <<kind, list, godMode, k, map, period>>

-----------------------------------------------------------------------------
(* One section                                                             *)

\* parseNums returns nothing with an error.
NumsOf(text) == IF text = MalformedText THEN <<>> ELSE text
Elements(seq) == {seq[n] : n \in DOMAIN seq}
Who(s) == IF kind \in Grouped THEN {s.arg} \X Elements(NumsOf(s.nodes))
          ELSE Elements(NumsOf(s.nodes))
EpochNodes(s) == Elements(NumsOf(s.epochs)) \X Who(s)

\* How often a number stands in a text, and so a node in a section.
Occurrences(seq, e) == Cardinality({n \in DOMAIN seq : seq[n] = e})
Times(s, x) ==
  IF x \notin EpochNodes(s) THEN 0
  ELSE Occurrences(s.epochs, x[1])
         * Occurrences(s.nodes, IF kind \in Grouped THEN x[2][2] ELSE x[2])

\* Assignments to a map.
Over(new, old) == [x \in DOMAIN new \cup DOMAIN old |->
                     IF x \in DOMAIN new THEN new[x] ELSE old[x]]

LastPos(seq, e) ==
  CHOOSE n \in DOMAIN seq : seq[n] = e /\ \A m \in DOMAIN seq : m > n => seq[m] # e

\* convertNodeUpdates: the delay grows before every node of an epoch.
Delay(s, e, n) == s.arg + s.step * LastPos(s.nodes, n)

Value(s, e, n) == IF kind = "updates" THEN Delay(s, e, n) ELSE s.arg

\* The flag is a field of every section, but only one list looks at it.
Skipped(s) == kind = "store" /\ s.onlyGodMode /\ ~godMode

ConvertValued(s) ==
  map' = Over([x \in EpochNodes(s) |-> Value(s, x[1], x[2])], map)

\* Mutant: the section replaces what earlier ones listed.
ConvertCountedAnew(s) == map' = Over([x \in EpochNodes(s) |-> Times(s, x)], map)

\* append
ConvertCounted(s) ==
  map' = [x \in EpochNodes(s) \cup DOMAIN map |->
            Times(s, x) + (IF x \in DOMAIN map THEN map[x] ELSE 0)]

\* convertEpochTxs: the period is set with the first user of an epoch.
ConvertPeriod(s) ==
  period' = IF kind = "txs" /\ NumsOf(s.nodes) # <<>>
            THEN Over(period, [e \in Elements(NumsOf(s.epochs)) |-> s.arg])
            ELSE period

ConvertSection ==
  /\ lpc = "convert" /\ k <= Len(list)
  /\ kind \in PanickingLists => SectionParses(list[k])
  /\ k' = k + 1
  /\ \/ Skipped(list[k]) /\ UNCHANGED <<map, period>>
     \/ ~Skipped(list[k]) /\ kind \in Counted
        /\ ConvertCounted(list[k]) /\ ConvertPeriod(list[k])
     \/ ~Skipped(list[k]) /\ kind \notin Counted
        /\ ConvertValued(list[k]) /\ UNCHANGED period
  /\ UNCHANGED <<kind, list, godMode, lpc>>

PanicOnList ==
  /\ lpc = "convert" /\ k <= Len(list)
  /\ kind \in PanickingLists /\ ~SectionParses(list[k])
  /\ lpc' = "panicked"
  /\ UNCHANGED <<kind, list, godMode, k, map, period>>

FinishList ==
  /\ lpc = "convert" /\ k > Len(list)
  /\ lpc' = "done"
  /\ UNCHANGED <<kind, list, godMode, k, map, period>>

ListsEnded == lpc \in {"done", "panicked"} /\ UNCHANGED listsVars

ListsNext == ValidateList \/ ConvertSection \/ PanicOnList \/ FinishList \/ ListsEnded
ListsSpec == ListsInit /\ [][ListsNext]_listsVars

-----------------------------------------------------------------------------
(* Properties                                                              *)

ListsTypeOK ==
  /\ lpc \in {"validate", "convert", "done", "panicked"}
  /\ k \in 1..Len(list) + 1
  /\ \A x \in DOMAIN map : x[1] \in Nat /\ map[x] \in Nat
  /\ DOMAIN period = IF kind = "txs" THEN {x[1] : x \in DOMAIN map} ELSE {}

\* Whoever a section of Delegations, AddStakes, NodeUpdates or StoreToIpfsTxs
\* lists is in the map with what the last section that lists it says, and
\* nobody else; only sections for the god bot are left out elsewhere, and
\* only NodeUpdates and StoreToIpfsTxs lose a malformed section without a
\* word (conversion.go:285, 320, 343, 405).
LastSectionCounts ==
  lpc = "done" /\ kind \in Valued =>
    LET counts(x) == {n \in DOMAIN list :
                        x \in EpochNodes(list[n])
                        /\ ~(kind = "store" /\ list[n].onlyGodMode /\ ~godMode)}
        last(x) == CHOOSE n \in counts(x) : \A m \in counts(x) : m <= n
    IN  /\ DOMAIN map = {x \in UNION {EpochNodes(list[n]) : n \in DOMAIN list} :
                           counts(x) # {}}
        /\ kind # "updates" => \A x \in DOMAIN map : map[x] = list[last(x)].arg
        /\ kind = "delegations" => \A n \in DOMAIN list : SectionParses(list[n])

\* What two sections of an appended list say adds up: nothing that a section
\* lists is lost to a later one, and whoever is there more than once is listed
\* more than once (conversion.go:89, 151, 375, 396).
EveryListingKept ==
  lpc = "done" /\ kind \in Counted =>
    \A x \in UNION {EpochNodes(list[n]) : n \in DOMAIN list} :
      /\ \A n \in DOMAIN list : map[x] >= Times(list[n], x)
      /\ Cardinality({n \in DOMAIN list : x \in EpochNodes(list[n])}) <= map[x]
      /\ map[x] > 1 =>
           \/ \E n \in DOMAIN list : Times(list[n], x) > 1
           \/ \E n, m \in DOMAIN list :
                n # m /\ x \in EpochNodes(list[n]) \cap EpochNodes(list[m])

\* The nodes of one section are updated one after the other, a step apart,
\* and in every epoch from the same moment on (conversion.go:287-298).
UpdatesStaggered ==
  lpc = "done" /\ kind = "updates" /\ Len(list) = 1 =>
    \A x, y \in DOMAIN map :
      /\ x[2] = y[2] => map[x] = map[y]
      /\ x[2] # y[2] => \/ map[x] >= map[y] + list[1].step
                        \/ map[y] >= map[x] + list[1].step

\* What the sessions look up is what the sections say, taken together, for
\* every kind of list: sections that overlap, repeat a node, do not parse or
\* are for the god bot leave in the map what the three statements above say.
MapAsListed == LastSectionCounts /\ EveryListingKept /\ UpdatesStaggered
=============================================================================
