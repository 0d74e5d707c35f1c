----------------------------- MODULE MultiBot ------------------------------
(***************************************************************************)
(* Bots ask the god bot for invites: sendInvites of a client bot, its API  *)
(* client's CreateInvites and sendRequest, createInvites of the god bot.   *)
(* The first requests that reach the god bot make their bots pool owners;  *)
(* later ones are given delegatees while the pools have room.  A request   *)
(* that gets no answer in time is sent again, and both may be handled.     *)
(***************************************************************************)
EXTENDS Integers, FiniteSets, Sequences

CONSTANTS
  Bots,         (* client bots                                             *)
  Rounds,       (* requests per bot, one per group of new users            *)
  Count,        (* users, and so addresses, per request                    *)
  Share,        (* delegators per request: int(Count * rate), at least 1   *)
  Sizes,        (* pool sizes, a sequence                                  *)
  Tries         (* attempts of sendRequest (10 in the code)                *)

ASSUME MultiBotAssumption ==
  /\ Rounds \in Nat \ {0} /\ Count \in Nat \ {0} /\ Tries \in Nat \ {0}
  /\ Share \in 1..Count
  /\ Sizes \in Seq(Nat)

VARIABLES
  pc,           (* per bot: "idle", "waiting", "done" or "failed"          *)
  round, try,   (* per bot, the request and the attempt it is at           *)
  handling,     (* requests that the god bot handles, with their phase     *)
  replies,      (* answers on their way                                    *)
  left,         (* poolSizes                                               *)
  owners,       (* poolAddresses: the user whose address owns the pool     *)
  told,         (* delegatees the god bot set: <<delegator, pool>>, each
                   with the request that it was set for                    *)
  delegatee     (* multiBotDelegatee per user: a pool's owner, or NoUser   *)

vars == <<pc, round, try, handling, replies, left, owners, told,
          delegatee>>

Pools == DOMAIN Sizes

\* A user is its bot and its index in process.users.
Users == Bots \X (1..Rounds * Count)
NoUser == <<>>
UserOf(b, r, k) == <<b, (r - 1) * Count + k>>

Init ==
  /\ pc = [b \in Bots |-> "idle"]
  /\ round = [b \in Bots |-> 1] /\ try = [b \in Bots |-> 0]
  /\ handling = {} /\ replies = {}
  /\ left = Sizes /\ owners = <<>>
  /\ told = {}
  /\ delegatee = [u \in Users |-> NoUser]

-----------------------------------------------------------------------------
(* The client                                                              *)

\* An attempt: the request reaches the god bot, or gets lost.
Send(b) ==
  /\ \/ pc[b] = "idle"
     \/ pc[b] = "retry"
  /\ pc' = [pc EXCEPT ![b] = "waiting"]
  /\ try' = [try EXCEPT ![b] = @ + 1]
  /\ handling' \in
       {handling, handling \cup
          {[bot |-> b, round |-> round[b], try |-> try'[b], phase |-> "invite"]}}
  /\ UNCHANGED <<round, replies, left, owners, told, delegatee>>

\* No answer for 15 seconds, or one that is not OK: the attempt has failed.
\* The last one makes sendInvites call handleError.
TimedOut(b) ==
  /\ pc[b] = "waiting"
  /\ pc' = [pc EXCEPT ![b] = IF try[b] < Tries THEN "retry" ELSE "failed"]
  /\ replies' = {m \in replies : m.bot # b}
  /\ UNCHANGED <<round, try, handling, left, owners, told, delegatee>>

\* The delegatees are set on the first users of the bot, not on those of the
\* request, and through a pointer to the loop variable: all of them end up
\* with the last one.
Assigned(b, list) ==
  [u \in Users |-> IF u[1] = b /\ u[2] <= Len(list) THEN list[Len(list)]
                   ELSE delegatee[u]]

Receive(b) ==
  /\ pc[b] = "waiting"
  /\ \E m \in replies :
       /\ m.bot = b
       /\ replies' = replies \ {m}
       /\ delegatee' = Assigned(b, m.list)
  /\ IF round[b] < Rounds
     THEN /\ pc' = [pc EXCEPT ![b] = "idle"]
          /\ round' = [round EXCEPT ![b] = @ + 1]
          /\ try' = [try EXCEPT ![b] = 0]
     ELSE pc' = [pc EXCEPT ![b] = "done"] /\ UNCHANGED <<round, try>>
  /\ UNCHANGED <<handling, left, owners, told>>

-----------------------------------------------------------------------------
(* The god bot                                                             *)

\* RequestInvites sends the invites one by one, which takes time; one that
\* fails is logged and passed over.
RequestInvites(q) ==
  /\ q.phase = "invite"
  /\ handling' = (handling \ {q}) \cup {[q EXCEPT !.phase = "pools"]}
  /\ UNCHANGED <<pc, round, try, replies, left, owners, told, delegatee>>

\* Mutant: the first pool is filled by one too many.
WithRoomOneMore(l) ==
  IF \A p \in Pools : l[p] < 0 THEN 0
  ELSE CHOOSE p \in Pools : l[p] >= 0 /\ \A o \in Pools : l[o] >= 0 => p <= o

\* The pool of the next delegator: the first with room, or 0.
WithRoom(l) ==
  IF \A p \in Pools : l[p] = 0 THEN 0
  ELSE CHOOSE p \in Pools : l[p] > 0 /\ \A o \in Pools : l[o] > 0 => p <= o

\* One turn of the loop of createInvites: its delegator gets a pool, or none.
Placed(given) ==
  LET p == WithRoom(given.left)
  IN  IF p = 0 THEN given
      ELSE [left |-> [given.left EXCEPT ![p] = @ - 1], list |-> Append(given.list, p)]

\* What the loop finds, delegator after delegator.
Room(l) ==
  LET after[k \in 0..Share] ==
        IF k = 0 THEN [left |-> l, list |-> <<>>] ELSE Placed(after[k - 1])
  IN  after[Share]

\* The answer ("OK" is <<>>), lost if its client no longer waits for it.
Answer(q, list) ==
  /\ handling' = handling \ {q}
  /\ replies' = IF pc[q.bot] = "waiting" /\ round[q.bot] = q.round
                   /\ try[q.bot] = q.try
                THEN replies \cup {[bot |-> q.bot, list |-> list]}
                ELSE replies

BecomeOwner(q) ==
  /\ q.phase = "pools" /\ Len(owners) < Len(Sizes)
  /\ owners' = Append(owners, UserOf(q.bot, q.round, 1))
  /\ Answer(q, <<>>)
  /\ UNCHANGED <<pc, round, try, left, told, delegatee>>

\* Mutant: the first request after a new owner is already given delegatees.
GiveDelegateesEarly(q) ==
  /\ q.phase = "pools" /\ Len(owners) > 0
  /\ LET given == Room(left) IN
       /\ left' = given.left
       /\ told' = told \cup
            {[request |-> q, pool |-> given.list[k],
              delegator |-> UserOf(q.bot, q.round, k)] : k \in DOMAIN given.list}
       /\ Answer(q, [k \in DOMAIN given.list |->
             IF given.list[k] <= Len(owners) THEN owners[given.list[k]] ELSE NoUser])
  /\ UNCHANGED <<pc, round, try, owners, delegatee>>

GiveDelegatees(q) ==
  /\ q.phase = "pools" /\ Len(owners) = Len(Sizes)
  /\ LET given == Room(left) IN
       /\ left' = given.left
       /\ told' = told \cup
            {[request |-> q, pool |-> given.list[k],
              delegator |-> UserOf(q.bot, q.round, k)] : k \in DOMAIN given.list}
       /\ Answer(q, [k \in DOMAIN given.list |-> owners[given.list[k]]])
  /\ UNCHANGED <<pc, round, try, owners, delegatee>>

-----------------------------------------------------------------------------

Finished ==
  /\ \A b \in Bots : pc[b] \in {"done", "failed"}
  /\ handling = {}
  /\ UNCHANGED vars

Client(b) == Send(b) \/ TimedOut(b) \/ Receive(b)
Handler == \E q \in handling :
             RequestInvites(q) \/ BecomeOwner(q) \/ GiveDelegatees(q)

Next == (\E b \in Bots : Client(b)) \/ Handler \/ Finished
Spec == Init /\ [][Next]_vars

-----------------------------------------------------------------------------
(* Properties                                                              *)

Requests == [bot : Bots, round : 1..Rounds, try : 1..Tries,
             phase : {"invite", "pools"}]

TypeOK ==
  /\ pc \in [Bots -> {"idle", "waiting", "retry", "done", "failed"}]
  /\ round \in [Bots -> 1..Rounds] /\ try \in [Bots -> 0..Tries]
  /\ handling \subseteq Requests
  /\ \A m \in replies : m.list \in Seq(Users)
  /\ left \in [Pools -> Nat] /\ owners \in Seq(Users)
  /\ \A d \in told : d.request \in Requests /\ d.pool \in Pools
  /\ delegatee \in [Users -> Users \cup {NoUser}]

GivenTo(p) == {d \in told : d.pool = p}

\* No pool is promised to more delegators than it has room for, whatever is
\* repeated or lost, and a pool that fills up was offered to the pools in
\* front of it first.
PoolsNotOverfilled ==
  \A p \in Pools : /\ left[p] >= 0
                   /\ Cardinality(GivenTo(p)) + left[p] = Sizes[p]
                   /\ GivenTo(p) # {} => \A o \in 1..(p - 1) : left[o] = 0

\* Every delegatee that a user ends up with owns a pool, and no pool has
\* delegators before all the pools have owners.
DelegateesOwnPools ==
  /\ \A u \in Users : delegatee[u] \in {NoUser} \cup {owners[p] : p \in DOMAIN owners}
  /\ told # {} => Len(owners) = Len(Sizes)

\* A user's delegatee is the one that the god bot set for it ("Set delegatee
\* %v for %v", api.go:96).
DelegateeAsSet ==
  \A d \in told : delegatee[d.delegator] \in {NoUser, owners[d.pool]}
=============================================================================
