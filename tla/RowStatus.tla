----------------------------- MODULE RowStatus -----------------------------
(***************************************************************************)
(* What the program promises of the iStatus column of one SMS row, from    *)
(* the moment the campaign has picked it: it is acknowledged or refused by *)
(* the SMSC once, a delivery receipt settles it, and a settled row does    *)
(* not change again.  ReceiptMatch implements this for the messages whose  *)
(* answer and receipt are processed one after the other.                   *)
(***************************************************************************)
EXTENDS Integers

CONSTANTS
  Sms,            \* the rows
  ReceiptStates   \* message_state values a receipt may carry

VARIABLE row      \* iStatus of each row

SMS_ST_PICKED == 51
SMS_ST_ACKNOWLEDGED == 53
SMS_ST_FAILED == 99

(* A receipt without a message_state counts as a failure. *)
Reported(state) == IF state = 0 THEN SMS_ST_FAILED ELSE state

Open(s) == row[s] \in {SMS_ST_PICKED, SMS_ST_ACKNOWLEDGED}

Init == row = [s \in Sms |-> SMS_ST_PICKED]

Acknowledge(s) ==
  row[s] = SMS_ST_PICKED /\ row' = [row EXCEPT ![s] = SMS_ST_ACKNOWLEDGED]

Refuse(s) ==
  row[s] = SMS_ST_PICKED /\ row' = [row EXCEPT ![s] = SMS_ST_FAILED]

(* It settles the row; but one that came before the answer and has no      *)
(* message_state settles it as SCHEDULED, which is 0.                      *)
Settle(s, state) ==
  /\ Open(s)
  /\ \E status \in {state, Reported(state)} : row' = [row EXCEPT ![s] = status]

Next ==
  \E s \in Sms : \/ Acknowledge(s) \/ Refuse(s)
                 \/ \E state \in ReceiptStates : Settle(s, state)

Spec == Init /\ [][Next]_row
=============================================================================
