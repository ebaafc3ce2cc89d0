----------------------------- MODULE TimedCall -----------------------------
(***************************************************************************)
(* What the fuzzer wants of MysqlClient::execute, without threads, locks   *)
(* or connections: a call is begun, its time limit may expire while it is  *)
(* active, and it ends with exactly one verdict.  kTimeout means that this *)
(* call's limit expired, kNormal that it did not.                          *)
(***************************************************************************)
VARIABLES
    phase,      \* "idle" or "active"
    expired,    \* has the time limit of the current (or last) call expired?
    verdict     \* result of the last call that ended

avars == <<phase, expired, verdict>>

Verdicts == {"kNormal", "kTimeout", "kServerCrash"}

AInit == /\ phase = "idle"
         /\ expired = FALSE
         /\ verdict = "kNormal"

ABegin == /\ phase = "idle"
          /\ phase' = "active"
          /\ expired' = FALSE
          /\ UNCHANGED verdict

AExpire == /\ phase = "active"
           /\ ~expired
           /\ expired' = TRUE
           /\ UNCHANGED <<phase, verdict>>

AFinish == /\ phase = "active"
           /\ phase' = "idle"
           /\ verdict' = IF expired THEN "kTimeout" ELSE "kNormal"
           /\ UNCHANGED expired

ACrash == /\ phase = "active"
          /\ phase' = "idle"
          /\ verdict' = "kServerCrash"
          /\ UNCHANGED expired

ANext == ABegin \/ AExpire \/ AFinish \/ ACrash

ASpec == AInit /\ [][ANext]_avars
=============================================================================
