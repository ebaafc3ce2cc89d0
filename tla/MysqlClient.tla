---------------------------- MODULE MysqlClient ----------------------------
(***************************************************************************)
(* One statement execution of the fuzzer: MysqlClient::execute, the        *)
(* detached timeout_query thread every execution starts, and the mysqld    *)
(* they talk to.  The main thread is a program counter (pc) that walks     *)
(* through execute; a watchdog thread is an entry of wd; a region guarded  *)
(* by timeout_mutex is one action, and the read of is_timeout after the    *)
(* unlock is an action of its own.  mysqld may die and be restarted at any *)
(* point; a restart gives out connection ids from 1 again.                 *)
(***************************************************************************)
EXTENDS Integers

CONSTANTS
    MaxExec,      \* bound: executions started
    MaxBoot,      \* bound: mysqld processes started
    LongTimeout   \* does exec_tmout outlast the sleep(2) of the crash path?

ASSUME BoundAssumption == MaxExec \in Nat \ {0} /\ MaxBoot \in Nat \ {0}
ASSUME LongTimeoutAssumption == LongTimeout \in BOOLEAN

Execs == 1 .. MaxExec

(* A connection: the mysqld process it was opened to and its id there,     *)
(* which is all the client knows of it (m_->thread_id).                    *)
Conns == [boot : Nat, pid : Nat]
NoConn == [boot |-> 0, pid |-> 0]    \* m_ == NULL

VARIABLES
    pc,          \* where the main thread is
    ret,         \* the connect loop that a database reset goes back to
    exec,        \* how many executions have begun; the current one
    m,           \* the connection m_ points to, NoConn for NULL
    mAlive,      \* is the server side of m_ still there?
    tmpBoot,     \* the mysqld the local connection tmp_m was opened to, 0: none
    isReset,     \* is_reset_database
    isTimeout,   \* is_timeout
    timeoutId,   \* timeout_id
    res,         \* the value the last call of execute returned
    hung,        \* does the statement in flight only end when killed?
    wd,          \* wd[i]: progress of the watchdog of execution i
    wdConn,      \* wdConn[i]: the connection id it was given
    wdId,        \* wdId[i]: the timeout_id it was given
    up,          \* is mysqld running?
    boot,        \* which mysqld process this is
    nextPid,     \* the next connection id it hands out
    db,          \* contents of test_sqlright1: "absent", "fresh" or "used"
    crashed,     \* history: has mysqld died since the last call returned?
    lost,        \* history: did a statement of this call find no connection?
    lastConn     \* history: connection of the last execution that returned kNormal

mainVars == <<pc, ret, exec, m, tmpBoot, isReset, res, hung, lost, lastConn>>
wdVars == <<wd, wdConn, wdId>>
serverVars == <<up, boot, nextPid>>
flagVars == <<isTimeout, timeoutId>>
vars == <<mainVars, wdVars, serverVars, flagVars, mAlive, db, crashed>>

PCs == {"idle", "connect", "testReset", "reset", "drop", "create", "reconnect",
        "clear", "spawn", "run", "alive", "crashSleep", "verdict", "returned"}
WdStates == {"none", "asleep", "late", "marked", "kill", "done"}

(* Did the watchdog of execution i pass its id check and set is_timeout?   *)
Fired(i) == wd[i] \in {"marked", "kill", "done"}

FlagTypeOK ==
    /\ mAlive \in BOOLEAN
    /\ isReset \in BOOLEAN
    /\ isTimeout \in BOOLEAN
    /\ hung \in BOOLEAN
    /\ up \in BOOLEAN
    /\ crashed \in BOOLEAN
    /\ lost \in BOOLEAN

DataTypeOK ==
    /\ pc \in PCs
    /\ ret \in {"connect", "reconnect"}
    /\ exec \in 0 .. MaxExec
    /\ m \in Conns
    /\ tmpBoot \in Nat
    /\ timeoutId \in Nat
    /\ res \in {"kNormal", "kTimeout", "kServerCrash"}
    /\ wd \in [Execs -> WdStates]
    /\ wdConn \in [Execs -> Conns]
    /\ wdId \in [Execs -> Nat]
    /\ boot \in Nat
    /\ nextPid \in Nat \ {0}
    /\ db \in {"absent", "fresh", "used"}
    /\ lastConn \in Conns

TypeOK == FlagTypeOK /\ DataTypeOK

Init ==
    /\ pc = "idle" /\ ret = "connect" /\ exec = 0
    /\ m = NoConn /\ mAlive = FALSE /\ tmpBoot = 0
    /\ isReset = FALSE /\ isTimeout = FALSE /\ timeoutId = 0
    /\ res = "kNormal" /\ hung = FALSE
    /\ wd = [i \in Execs |-> "none"]
    /\ wdConn = [i \in Execs |-> NoConn]
    /\ wdId = [i \in Execs |-> 0]
    /\ up = TRUE /\ boot = 1 /\ nextPid = 1 /\ db = "fresh"
    /\ crashed = FALSE /\ lost = FALSE /\ lastConn = NoConn

-----------------------------------------------------------------------------
(* The callers of execute.                                                 *)

(* run_target calls execute.  fuzz_one sets is_reset_database before the   *)
(* first statement of an input; the other calls leave it.                  *)
Begin ==
    /\ pc = "idle"
    /\ exec < MaxExec
    /\ exec' = exec + 1
    /\ pc' = IF m = NoConn THEN "connect" ELSE "testReset"
    /\ isReset' \in {isReset, TRUE}
    /\ crashed' = ~up /\ lost' = FALSE
    /\ UNCHANGED <<ret, m, tmpBoot, res, hung, lastConn, wdVars, serverVars,
                   flagVars, mAlive, db>>

(* execute_cmd_string assigns is_reset_database from the fault; it leaves  *)
(* it alone when it returns early, as do calibrate_case and sync_fuzzers.  *)
CallerAssigns ==
    /\ pc = "returned"
    /\ pc' = "idle"
    /\ isReset' \in {isReset, res # "kNormal"}
    /\ UNCHANGED <<ret, exec, m, tmpBoot, res, hung, lost, lastConn, wdVars,
                   serverVars, flagVars, mAlive, db, crashed>>

-----------------------------------------------------------------------------
(* execute, up to the point where the statement is sent.                   *)

(* connect opens the database test_sqlright1, so it needs the database and *)
(* the server.                                                             *)
CanConnect == up /\ db # "absent"

(* The other functions open a connection of their own, close it again and  *)
(* use up an id with it.                                                   *)
OwnConnection(opened) ==
    /\ nextPid' = IF opened THEN nextPid + 1 ELSE nextPid
    /\ UNCHANGED <<up, boot>>

(* connect in either loop, with success. *)
Connect(at, next) ==
    /\ pc = at
    /\ CanConnect
    /\ m' = [boot |-> boot, pid |-> nextPid]
    /\ mAlive' = TRUE
    /\ nextPid' = nextPid + 1
    /\ pc' = next
    /\ UNCHANGED <<ret, exec, tmpBoot, isReset, res, hung, lost, lastConn,
                   wdVars, up, boot, flagVars, db, crashed>>

(* connect fails, disconnect sets m_ to NULL, and fix_database sets        *)
(* is_reset_database and opens its own connection, to test_init.  The very *)
(* first connect of a call is retried once before fix_database; trying it  *)
(* again is a stutter here.                                                *)
FixDatabase(at) ==
    /\ pc = at
    /\ ~CanConnect
    /\ m' = NoConn /\ mAlive' = FALSE
    /\ isReset' = TRUE
    /\ IF up THEN pc' = "drop" /\ ret' = at /\ tmpBoot' = boot
             ELSE UNCHANGED <<pc, ret, tmpBoot>>
    /\ OwnConnection(up)
    /\ UNCHANGED <<exec, res, hung, lost, lastConn, wdVars, flagVars, db,
                   crashed>>

(* The test of is_reset_database before the statement. *)
TestReset ==
    /\ pc = "testReset"
    /\ pc' = IF isReset THEN "reset" ELSE "clear"
    /\ UNCHANGED <<ret, exec, m, tmpBoot, isReset, res, hung, lost, lastConn,
                   wdVars, serverVars, flagVars, mAlive, db, crashed>>

(* disconnect, then reset_database opens its connection to test_sqlright1. *)
(* When it cannot, it returns 0, which execute ignores.                    *)
ResetDatabase ==
    /\ pc = "reset"
    /\ m' = NoConn /\ mAlive' = FALSE
    /\ isReset' = TRUE
    /\ IF CanConnect THEN pc' = "drop" /\ ret' = "reconnect" /\ tmpBoot' = boot
                     ELSE pc' = "reconnect" /\ UNCHANGED <<ret, tmpBoot>>
    /\ OwnConnection(CanConnect)
    /\ UNCHANGED <<exec, res, hung, lost, lastConn, wdVars, flagVars, db,
                   crashed>>

(* DROP DATABASE and CREATE DATABASE, the two statements of both reset     *)
(* lists that matter here.  On a connection that is gone they fail, and    *)
(* the failure is recorded in is_error, which no caller looks at.          *)
DropForgotten ==     \* mutant: the list of statements has no DROP DATABASE
    /\ pc = "drop"
    /\ pc' = "create"
    /\ UNCHANGED <<ret, exec, m, tmpBoot, isReset, res, hung, lost, lastConn,
                   wdVars, serverVars, flagVars, mAlive, db, crashed>>

Drop ==
    /\ pc = "drop"
    /\ pc' = "create"
    /\ db' = IF up /\ boot = tmpBoot THEN "absent" ELSE db
    /\ UNCHANGED <<ret, exec, m, tmpBoot, isReset, res, hung, lost, lastConn,
                   wdVars, serverVars, flagVars, mAlive, crashed>>

Create ==
    /\ pc = "create"
    /\ pc' = ret
    /\ db' = IF up /\ boot = tmpBoot /\ db = "absent" THEN "fresh" ELSE db
    /\ tmpBoot' = 0
    /\ UNCHANGED <<ret, exec, m, isReset, res, hung, lost, lastConn, wdVars,
                   serverVars, flagVars, mAlive, crashed>>

-----------------------------------------------------------------------------
(* execute, from arming the watchdog to the verdict.                       *)

FlagNotCleared ==    \* mutant: is_timeout keeps what the last call left in it
    /\ pc = "clear"
    /\ pc' = "spawn"
    /\ UNCHANGED <<ret, exec, m, tmpBoot, isReset, res, hung, lost, lastConn,
                   wdVars, serverVars, flagVars, mAlive, db, crashed>>

ClearFlag ==
    /\ pc = "clear"
    /\ isTimeout' = FALSE
    /\ pc' = "spawn"
    /\ UNCHANGED <<ret, exec, m, tmpBoot, isReset, res, hung, lost, lastConn,
                   wdVars, serverVars, timeoutId, mAlive, db, crashed>>

SpawnWatchdog ==
    /\ pc = "spawn"
    /\ wd' = [wd EXCEPT ![exec] = "asleep"]
    /\ wdConn' = [wdConn EXCEPT ![exec] = m]
    /\ wdId' = [wdId EXCEPT ![exec] = timeoutId]
    /\ pc' = "run"
    /\ UNCHANGED <<ret, exec, m, tmpBoot, isReset, res, hung, lost, lastConn,
                   serverVars, flagVars, mAlive, db, crashed>>

(* The replayed statements and the new one, on a live connection: they     *)
(* come back ...                                                           *)
StatementReturns ==
    /\ pc = "run"
    /\ mAlive /\ ~hung
    /\ db' = "used"
    /\ pc' = "alive"
    /\ UNCHANGED <<ret, exec, m, tmpBoot, isReset, res, hung, lost, lastConn,
                   wdVars, serverVars, flagVars, mAlive, crashed>>

(* ... or one of them runs on until its connection is killed.              *)
StatementHangs ==
    /\ pc = "run"
    /\ mAlive /\ ~hung
    /\ db' = "used"
    /\ hung' = TRUE
    /\ UNCHANGED <<pc, ret, exec, m, tmpBoot, isReset, res, lost, lastConn,
                   wdVars, serverVars, flagVars, mAlive, crashed>>

(* The connection is gone: mysql_real_query returns 1.  The code compares  *)
(* that with CR_SERVER_LOST (2013) and CR_SERVER_GONE_ERROR (2006), so it  *)
(* goes on to check_server_alive as for any other error.                   *)
StatementFails ==
    /\ pc = "run"
    /\ ~mAlive
    /\ hung' = FALSE /\ lost' = TRUE
    /\ pc' = "alive"
    /\ UNCHANGED <<ret, exec, m, tmpBoot, isReset, res, lastConn, wdVars,
                   serverVars, flagVars, mAlive, db, crashed>>

CheckServerAlive ==
    /\ pc = "alive"
    /\ IF up THEN pc' = "verdict" /\ UNCHANGED <<m, mAlive>>
             ELSE pc' = "crashSleep" /\ m' = NoConn /\ mAlive' = FALSE
    /\ OwnConnection(up)
    /\ UNCHANGED <<ret, exec, tmpBoot, isReset, res, hung, lost, lastConn,
                   wdVars, flagVars, db, crashed>>

(* A verdict other than kNormal leaves is_reset_database set.              *)
OnlyTimeoutResets(verdict) == verdict = "kTimeout"        \* mutant
ForcesReset(verdict) == verdict # "kNormal"

(* The end of sleep(2).  timeout_id is not advanced on this path.  When    *)
(* exec_tmout is no longer than the sleep, the watchdogs that were asleep  *)
(* when it began have woken up by its end.                                 *)
ReturnCrash ==
    /\ pc = "crashSleep"
    /\ LongTimeout \/ \A i \in Execs : wd[i] # "asleep"
    /\ isReset' = (isReset \/ ForcesReset("kServerCrash"))
    /\ res' = "kServerCrash"
    /\ pc' = "returned"
    /\ UNCHANGED <<ret, exec, m, tmpBoot, hung, lost, lastConn, wdVars,
                   serverVars, flagVars, mAlive, db, crashed>>

DeadIsNormal == IF isTimeout /\ mAlive THEN "kTimeout" ELSE "kNormal"  \* mutant
FlagVerdict == IF isTimeout THEN "kTimeout" ELSE "kNormal"

SameId == timeoutId                                       \* mutant
PreviousId == timeoutId - 1                               \* mutant
NextId == timeoutId + 1

(* The last region under timeout_mutex. *)
Verdict ==
    /\ pc = "verdict"
    /\ timeoutId' = NextId
    /\ res' = FlagVerdict
    /\ isReset' = (isReset \/ ForcesReset(FlagVerdict))
    /\ lastConn' = IF FlagVerdict = "kNormal" THEN m ELSE lastConn
    /\ isTimeout' = FALSE
    /\ pc' = "returned"
    /\ UNCHANGED <<ret, exec, m, tmpBoot, hung, lost, wdVars, serverVars,
                   mAlive, db, crashed>>

-----------------------------------------------------------------------------
(* timeout_query, the watchdog of execution i.                             *)

NeverFinished(i) == FALSE                                 \* mutant
Finished(i) == timeoutId # wdId[i]

(* The sleep ends; under timeout_mutex the thread compares the ids.        *)
WakeUp(i) ==
    /\ wd[i] = "asleep"
    /\ IF Finished(i)
       THEN wd' = [wd EXCEPT ![i] = "late"] /\ UNCHANGED isTimeout
       ELSE wd' = [wd EXCEPT ![i] = "marked"] /\ isTimeout' = TRUE
    /\ UNCHANGED <<mainVars, wdConn, wdId, serverVars, timeoutId, mAlive, db,
                   crashed>>

(* is_timeout is read again, after the unlock. *)
ReadFlag(i) ==
    /\ wd[i] = "marked"
    /\ wd' = [wd EXCEPT ![i] = IF isTimeout THEN "kill" ELSE "done"]
    /\ UNCHANGED <<mainVars, wdConn, wdId, serverVars, flagVars, mAlive, db,
                   crashed>>

(* KILL names a connection by its id alone, on whichever mysqld is running *)
(* now.                                                                    *)
KillsById(i) ==      \* mutant: the two arguments of the thread are swapped
    up /\ m.boot = boot /\ m.pid = wdId[i]
Kills(i) == up /\ m.boot = boot /\ m.pid = wdConn[i].pid

(* terminate_query. *)
TerminateQuery(i) ==
    /\ wd[i] = "kill"
    /\ wd' = [wd EXCEPT ![i] = "done"]
    /\ mAlive' = (mAlive /\ ~Kills(i))
    /\ OwnConnection(up)
    /\ UNCHANGED <<mainVars, wdConn, wdId, flagVars, db, crashed>>

-----------------------------------------------------------------------------
(* mysqld.                                                                 *)

ServerDies ==
    /\ up
    /\ boot < MaxBoot
    /\ up' = FALSE
    /\ mAlive' = FALSE
    /\ crashed' = TRUE
    /\ UNCHANGED <<mainVars, wdVars, boot, nextPid, flagVars, db>>

(* run_parallel.py starts mysqld again on the data directory it left;      *)
(* mysql_rebooter.py first replaces that directory by a copy of the        *)
(* prepared one, in which test_sqlright1 exists and is empty.              *)
ServerRestarts ==
    /\ ~up
    /\ up' = TRUE
    /\ boot' = boot + 1
    /\ nextPid' = 1
    /\ db' \in {db, "fresh"}
    /\ UNCHANGED <<mainVars, wdVars, flagVars, mAlive, crashed>>

-----------------------------------------------------------------------------
(* The fuzzer has used up MaxExec and stays idle. *)
Stop == pc = "idle" /\ exec = MaxExec /\ UNCHANGED vars

ConnectFirst == Connect("connect", "testReset")
ConnectAgain == Connect("reconnect", "clear")

MainStep ==
    \/ ConnectFirst \/ ConnectAgain
    \/ FixDatabase("connect") \/ FixDatabase("reconnect")
    \/ TestReset \/ ResetDatabase \/ Drop \/ Create
    \/ ClearFlag \/ SpawnWatchdog
    \/ StatementReturns \/ StatementFails
    \/ CheckServerAlive \/ ReturnCrash \/ Verdict
    \/ CallerAssigns

WatchdogStep(i) == WakeUp(i) \/ ReadFlag(i) \/ TerminateQuery(i)

Next ==
    \/ Begin
    \/ MainStep
    \/ StatementHangs
    \/ \E i \in Execs : WatchdogStep(i)
    \/ ServerDies \/ ServerRestarts
    \/ Stop

Spec == Init /\ [][Next]_vars

(* The operating system runs the two kinds of threads, and the scripts     *)
(* start mysqld again.  Nothing makes a statement hang or mysqld die.      *)
Fairness ==
    /\ WF_vars(MainStep)
    /\ \A i \in Execs : WF_vars(WatchdogStep(i))
    /\ WF_vars(ServerRestarts)

FairSpec == Spec /\ Fairness

-----------------------------------------------------------------------------
(* Properties.                                                             *)

(* A call that reports kTimeout ran out of its own time: its own watchdog  *)
(* set is_timeout.  timeout_query and execute share one flag and one id    *)
(* for all executions, so a flag left behind or a watchdog that survives   *)
(* its execution would blame a later statement.                            *)
TimeoutIsOwn ==
    pc = "returned" /\ res = "kTimeout" => Fired(exec)

(* And the converse: a call whose watchdog gave it up is never reported as *)
(* kNormal, for its connection has been, or is about to be, killed.        *)
ExpiredIsReported ==
    pc = "returned" /\ Fired(exec) => res # "kNormal"

(* Between the read of is_timeout and KILL a watchdog holds no lock, and   *)
(* KILL names a connection by its id alone.  As long as the mysqld runs    *)
(* that the watchdog was started under, the id is not that of the session  *)
(* a later execution speaks on: that session has been replaced by then.    *)
(* A restarted mysqld gives the same ids out again, see KillsTimedOutOnly. *)
Speaking == pc \in {"spawn", "run", "alive", "verdict"}

KillIsOwn ==
    \A i \in Execs : wd[i] \in {"marked", "kill"} /\ Kills(i) /\ Speaking
                     => i = exec \/ wdConn[i].boot # boot

(* "The prvious execution timeout. Kill it!", with no exception: a KILL    *)
(* never ends the session of an execution other than the one that timed    *)
(* out.                                                                    *)
KillsTimedOutOnly ==
    \A i \in Execs : wd[i] = "kill" /\ Kills(i) /\ Speaking => i = exec

(* "Server Lost or Server Crashes!": a call one of whose statements found  *)
(* the connection gone does not report kNormal, which would keep that      *)
(* connection for the statements to come.                                  *)
LostConnectionIsReported ==
    pc = "returned" /\ lost => res # "kNormal"

(* A statement sent without a reset (is_reset_database = 0, so without     *)
(* replaying the input so far) goes to the session of the last execution   *)
(* that ended normally; any other verdict forces a reset first.            *)
SessionKept ==
    pc = "run" /\ ~isReset /\ lastConn # NoConn => m = lastConn

(* The replay starts on an empty database, whatever made the reset         *)
(* necessary, unless mysqld died during this call.                         *)
ReplayStartsFresh ==
    pc = "run" /\ isReset /\ ~hung /\ ~crashed => db = "fresh"

(* "The previous execution has already finished. No timeout.": a watchdog  *)
(* sets is_timeout only while the execution it was started for is active.  *)
FinishedNeverTimesOut ==
    [][\A i \in Execs : wd[i] = "asleep" /\ wd'[i] = "marked"
            => i = exec /\ pc \notin {"idle", "returned"}]_vars

(* Every execution returns: a statement that hangs is killed, a server     *)
(* that is down comes back, and no reset waits for ever.                   *)
ExecutionReturns ==
    \A i \in Execs : (exec = i /\ pc # "idle") ~> (exec = i /\ pc = "returned")

(* Each call of execute is a TimedCall.  It is active from its start to    *)
(* its return, and its limit expires when its own watchdog fires.          *)
Call == INSTANCE TimedCall WITH
            phase <- IF pc \in {"idle", "returned"} THEN "idle" ELSE "active",
            expired <- exec > 0 /\ Fired(exec),
            verdict <- res

ImplementsTimedCall == Call!ASpec
=============================================================================
