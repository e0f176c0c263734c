--------------------------- MODULE SessionService ---------------------------
(***************************************************************************)
(* What kanban.Client.do promises a caller, with no session in sight: the  *)
(* request is answered, or fails, or fails for good; and with credentials  *)
(* the server takes, it fails for good only when the server dropped a      *)
(* session while the request was under way (client.go, ErrPermanentAuth).  *)
(***************************************************************************)
CONSTANTS Callers

VARIABLES
  phase,   \* per caller: idle, pending, or how its last request ended
  dropped  \* per caller: the server dropped a session since its request began

serviceVars == <<phase, dropped>>

Outcomes == {"answered", "failed", "permanent"}

ServiceInit ==
  /\ phase = [c \in Callers |-> "idle"]
  /\ dropped = [c \in Callers |-> FALSE]

Request(c) ==
  /\ phase[c] # "pending"
  /\ phase' = [phase EXCEPT ![c] = "pending"]
  /\ dropped' = [dropped EXCEPT ![c] = FALSE]

Respond(c, outcome) ==
  /\ phase[c] = "pending"
  /\ outcome = "permanent" => dropped[c]
  /\ phase' = [phase EXCEPT ![c] = outcome]
  /\ UNCHANGED dropped

ServerDrops ==
  /\ dropped' = [c \in Callers |-> TRUE]
  /\ UNCHANGED phase

ServiceNext ==
  \/ ServerDrops
  \/ \E c \in Callers : Request(c) \/ \E outcome \in Outcomes : Respond(c, outcome)

ServiceSpec == ServiceInit /\ [][ServiceNext]_serviceVars
=============================================================================
