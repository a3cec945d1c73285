------------------------------- MODULE TokenLife -------------------------------
(***************************************************************************)
(* What the QR token of one order promises, seen from the counter: there   *)
(* is at most one good token, it is good once, it stays good until it is   *)
(* used or its time is over, and a new one is a different one.             *)
(***************************************************************************)
CONSTANTS Nonces, NoNonce

VARIABLES
  status,  \* of the token issued last
  nonce,   \* its name
  over     \* its time has passed

token == <<status, nonce, over>>

Init == status = "NO ROW" /\ nonce = NoNonce /\ ~ over

(* Only when the last token is no longer good, and under another name. *)
Issue ==
  /\ status # "ACTIVE" /\ status' = "ACTIVE"
  /\ nonce' \in Nonces \ {nonce}
  /\ ~ over'

TimePasses ==
  /\ status # "NO ROW" /\ ~ over /\ over'
  /\ UNCHANGED <<status, nonce>>

Use ==
  /\ status = "ACTIVE" /\ status' = "USED"
  /\ UNCHANGED <<nonce, over>>

Expire ==
  /\ status = "ACTIVE" /\ over /\ status' = "EXPIRED"
  /\ UNCHANGED <<nonce, over>>

Next == Issue \/ TimePasses \/ Use \/ Expire

Spec == Init /\ [][Next]_token

==============================================================================
