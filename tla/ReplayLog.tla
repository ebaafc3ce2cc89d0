----------------------------- MODULE ReplayLog -----------------------------
(***************************************************************************)
(* What is_reset_database and full_valid_input are for, without the code:  *)
(* the statements of one input go to a session, and a log keeps those that *)
(* took effect.  A session may be lost at any time; before the next        *)
(* statement it is rebuilt from the log, so nothing outside of the log is  *)
(* ever visible to a later statement.                                      *)
(***************************************************************************)
CONSTANT Statements

VARIABLES
    log,        \* the statements to replay
    lost,       \* must the session be rebuilt?
    session     \* the statements that have taken effect on the session

rvars == <<log, lost, session>>

RInit == /\ log = {}
         /\ lost = TRUE
         /\ session = {}

(* A new input starts on a new session. *)
RStart == /\ log' = {}
          /\ lost' = TRUE
          /\ session' = {}

(* The effects a statement finds when it runs. *)
Found == IF lost THEN log ELSE session

(* A statement takes effect and is logged, or does neither.                *)
RAccept(s) == /\ session' = Found \cup {s}
              /\ log' = log \cup {s}
              /\ lost' = FALSE

RReject == /\ session' = Found
           /\ lost' = FALSE
           /\ UNCHANGED log

(* The session goes while a statement runs; the statement may be kept.     *)
RLose == /\ lost' = TRUE
         /\ session' = {}
         /\ \/ UNCHANGED log
            \/ \E s \in Statements : log' = log \cup {s}

RNext == RStart \/ (\E s \in Statements : RAccept(s)) \/ RReject \/ RLose

RSpec == RInit /\ [][RNext]_rvars
=============================================================================
