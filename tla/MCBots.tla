------------------------------- MODULE MCBots ------------------------------
(***************************************************************************)
(* The god bot and two client bots: their start and their epochs (Fleet),  *)
(* and the invites with pools and delegatees (MultiBot), of which Fleet    *)
(* has only whether they were sent.  The two share no state, so it is      *)
(* enough to run each of them beside the other one when that has ended.    *)
(***************************************************************************)
EXTENDS MCMultiBot, Fleet

\* The bots that MultiBot calls bots are the clients.
FleetOver ==
  /\ godPc = "exited" /\ dir = 0 /\ godNode = "down" /\ genesis = <<0, 0>>
  /\ godAddress = 0 /\ ipfsBootNode = 0 /\ ceremonyTime = 0 /\ testCounter = 0
  /\ chain = 0
  /\ cpc = [c \in Clients |-> "exited"]
  /\ tries = [c \in Clients |-> ApiTries]
  /\ known = [c \in Clients |-> Unknown]
  /\ invited = [c \in Clients |-> FALSE]
  /\ captured = [c \in Clients |-> 0]
  /\ fails = {} /\ tolerant = FALSE

\* No bot asks for invites.
InvitesOver ==
  /\ pc = [b \in Bots |-> "done"]
  /\ round = [b \in Bots |-> 1] /\ try = [b \in Bots |-> 0]
  /\ handling = {} /\ replies = {}
  /\ left = Sizes /\ owners = <<>> /\ told = {}
  /\ delegatee = [u \in Users |-> NoUser]

BotsInit == (FleetInit /\ InvitesOver) \/ (FleetOver /\ Init)

BotsNext == \/ FleetNext /\ UNCHANGED vars
            \/ Next /\ UNCHANGED fleetVars

BotsSpec == BotsInit /\ [][BotsNext]_<<vars, fleetVars>> /\ FleetFairness
=============================================================================
