------------------------- MODULE MysqlClientProofs -------------------------
(***************************************************************************)
(* Proofs about MysqlClient for every number of executions and restarts.   *)
(* All but type correctness assume ~LongTimeout: without it the crash path *)
(* of execute leaves a watchdog whose id is still the current one.         *)
(***************************************************************************)
EXTENDS MysqlClient, TLAPS

(* Everything an action mentions in its UNCHANGED, and the ids it uses up. *)
USE DEF mainVars, wdVars, serverVars, flagVars, OwnConnection

-----------------------------------------------------------------------------
(* Type correctness.                                                       *)

LEMMA NoConnType == NoConn \in Conns
  BY DEF NoConn, Conns

(* The start state has the types: no assumption on the server is needed.   *)
LEMMA InitType == Init => TypeOK
<1>1. Init => FlagTypeOK
    BY DEF Init, FlagTypeOK
<1>2. Init => DataTypeOK
    BY BoundAssumption, NoConnType DEF Init, DataTypeOK, Execs, PCs, WdStates
<1>3. QED
    BY <1>1, <1>2 DEF TypeOK

(* Each step of execute, a watchdog, mysqld or a caller keeps the types of *)
(* the numbers, states and connections ...                                 *)
LEMMA NextDataType == DataTypeOK /\ [Next]_vars => DataTypeOK'
<1> SUFFICES ASSUME DataTypeOK, [Next]_vars PROVE DataTypeOK'
    OBVIOUS
<1> USE DEF DataTypeOK
<1>1. CASE Begin
    BY <1>1, BoundAssumption DEF Begin, PCs
<1>2. CASE ConnectFirst \/ ConnectAgain
    BY <1>2 DEF ConnectFirst, ConnectAgain, Connect, PCs, Conns
<1>3. CASE FixDatabase("connect") \/ FixDatabase("reconnect")
    BY <1>3, NoConnType DEF FixDatabase, PCs
<1>4. CASE TestReset \/ ResetDatabase \/ Drop \/ Create
    BY <1>4, NoConnType DEF TestReset, ResetDatabase, Drop, Create, PCs
<1>5. CASE ClearFlag
    BY <1>5 DEF ClearFlag, PCs
<1>6. CASE SpawnWatchdog
    BY <1>6 DEF SpawnWatchdog, PCs, WdStates, Execs
<1>7. CASE StatementReturns \/ StatementFails \/ StatementHangs
    BY <1>7 DEF StatementReturns, StatementFails, StatementHangs, PCs
<1>8. CASE CheckServerAlive \/ ReturnCrash
    BY <1>8, NoConnType DEF CheckServerAlive, ReturnCrash, ForcesReset, PCs
<1>9. CASE Verdict
    BY <1>9 DEF Verdict, FlagVerdict, NextId, ForcesReset, PCs
<1>10. CASE CallerAssigns
    BY <1>10 DEF CallerAssigns, PCs
<1>11. ASSUME NEW i \in Execs, WatchdogStep(i) PROVE DataTypeOK'
    BY <1>11 DEF WatchdogStep, WakeUp, ReadFlag, TerminateQuery, WdStates
<1>12. CASE ServerDies \/ ServerRestarts
    BY <1>12 DEF ServerDies, ServerRestarts
<1>13. CASE UNCHANGED vars
    BY <1>13 DEF vars
<1>14. QED
    BY <1>1, <1>2, <1>3, <1>4, <1>5, <1>6, <1>7, <1>8, <1>9, <1>10, <1>11,
       <1>12, <1>13 DEF Next, MainStep, Stop

(* ... and those of the flags.                                             *)
LEMMA NextFlagType == FlagTypeOK /\ [Next]_vars => FlagTypeOK'
<1> SUFFICES ASSUME FlagTypeOK, [Next]_vars PROVE FlagTypeOK'
    OBVIOUS
<1> USE DEF FlagTypeOK
<1>1. CASE Begin
    BY <1>1 DEF Begin, PCs
<1>2. CASE ConnectFirst \/ ConnectAgain
    BY <1>2 DEF ConnectFirst, ConnectAgain, Connect, PCs, Conns
<1>3. CASE FixDatabase("connect") \/ FixDatabase("reconnect")
    BY <1>3, NoConnType DEF FixDatabase, PCs
<1>4. CASE TestReset \/ ResetDatabase \/ Drop \/ Create
    BY <1>4, NoConnType DEF TestReset, ResetDatabase, Drop, Create, PCs
<1>5. CASE ClearFlag
    BY <1>5 DEF ClearFlag, PCs
<1>6. CASE SpawnWatchdog
    BY <1>6 DEF SpawnWatchdog, PCs, WdStates, Execs
<1>7. CASE StatementReturns \/ StatementFails \/ StatementHangs
    BY <1>7 DEF StatementReturns, StatementFails, StatementHangs, PCs
<1>8. CASE CheckServerAlive \/ ReturnCrash
    BY <1>8, NoConnType DEF CheckServerAlive, ReturnCrash, ForcesReset, PCs
<1>9. CASE Verdict
    BY <1>9 DEF Verdict, FlagVerdict, NextId, ForcesReset, PCs
<1>10. CASE CallerAssigns
    BY <1>10 DEF CallerAssigns, PCs
<1>11. ASSUME NEW i \in Execs, WatchdogStep(i) PROVE FlagTypeOK'
    BY <1>11 DEF WatchdogStep, WakeUp, ReadFlag, TerminateQuery, WdStates
<1>12. CASE ServerDies \/ ServerRestarts
    BY <1>12 DEF ServerDies, ServerRestarts
<1>13. CASE UNCHANGED vars
    BY <1>13 DEF vars
<1>14. QED
    BY <1>1, <1>2, <1>3, <1>4, <1>5, <1>6, <1>7, <1>8, <1>9, <1>10, <1>11,
       <1>12, <1>13 DEF Next, MainStep, Stop

(* Every state of the execution client has its type, whatever the bounds   *)
(* and whether or not watchdogs outlive the crash path of execute.         *)
THEOREM TypeCorrect == Spec => []TypeOK
<1>1. QED
    BY InitType, NextDataType, NextFlagType, PTL DEF Spec, TypeOK

-----------------------------------------------------------------------------
(* Verdicts belong to their executions.                                    *)
(*                                                                         *)
(* TimeoutIsOwn and ExpiredIsReported are not inductive: they say nothing  *)
(* about the flag, or about sleeping watchdogs, before the call returns.   *)
(* VerdictInv adds what the shared flag and the shared id mean on the way. *)

Arming == {"connect", "testReset", "reset", "drop", "create", "reconnect",
           "clear", "spawn"}
Armed == {"run", "alive", "crashSleep", "verdict"}

(* Only a call that has begun is in progress.                              *)
Started == pc # "idle" => exec \in Execs

(* A watchdog is started once its execution has been armed.                *)
NotYetArmed ==
    \A i \in Execs : i > exec \/ (i = exec /\ pc \in Arming) => wd[i] = "none"

(* No watchdog carries an id that execute has yet to reach ...             *)
IdsReached == \A i \in Execs : wd[i] # "none" => wdId[i] =< timeoutId

(* ... and one that sleeps with the current id guards the current call.    *)
OnlyOwnSleeps ==
    \A i \in Execs : wd[i] = "asleep" /\ wdId[i] = timeoutId
                        => i = exec /\ pc \in Armed

(* While a call is active the flag tells whether its watchdog has fired.   *)
FlagIsOwn ==
    /\ pc = "spawn" => ~isTimeout
    /\ pc \in Armed /\ isTimeout => Fired(exec)

FiredSetsFlag == pc \in {"run", "alive", "verdict"} /\ Fired(exec) => isTimeout

SleepInv == Started /\ NotYetArmed /\ IdsReached /\ OnlyOwnSleeps

VerdictInv == FlagIsOwn /\ FiredSetsFlag /\ TimeoutIsOwn /\ ExpiredIsReported

LEMMA InitSleep == Init => SleepInv
  BY DEF Init, SleepInv, Started, NotYetArmed, IdsReached, OnlyOwnSleeps, Execs

(* A step that leaves the watchdogs, the ids and the call alone and stays  *)
(* on the same side of arming keeps SleepInv.                              *)
LEMMA SleepFrame ==
  ASSUME SleepInv, UNCHANGED <<wd, wdId, timeoutId, exec>>,
         exec \in Execs,
         \/ pc \in Arming /\ pc' \in Arming
         \/ pc \in Armed /\ pc' \in Armed
         \/ pc' = pc
  PROVE  SleepInv'
  BY DEF SleepInv, Started, NotYetArmed, IdsReached, OnlyOwnSleeps, Arming,
         Armed

LEMMA NextSleep ==
  ASSUME ~LongTimeout PROVE TypeOK /\ SleepInv /\ [Next]_vars => SleepInv'
<1> SUFFICES ASSUME DataTypeOK, SleepInv, [Next]_vars PROVE SleepInv'
    BY DEF TypeOK
<1> USE DEF Execs
<1>1. CASE Begin
    BY <1>1, BoundAssumption
       DEF Begin, DataTypeOK, SleepInv, Started, NotYetArmed, IdsReached,
           OnlyOwnSleeps, Arming, Armed
<1>2. CASE ConnectFirst \/ ConnectAgain
    BY <1>2, SleepFrame
       DEF ConnectFirst, ConnectAgain, Connect, SleepInv, Started, Arming
<1>3. CASE FixDatabase("connect") \/ FixDatabase("reconnect")
    BY <1>3, SleepFrame DEF FixDatabase, SleepInv, Started, Arming
<1>4. CASE TestReset \/ ResetDatabase \/ Drop
    BY <1>4, SleepFrame
       DEF TestReset, ResetDatabase, Drop, SleepInv, Started, Arming
<1>5. CASE Create
    BY <1>5, SleepFrame DEF Create, SleepInv, Started, Arming, DataTypeOK
<1>6. CASE ClearFlag
    BY <1>6, SleepFrame DEF ClearFlag, SleepInv, Started, Arming
<1>7. CASE SpawnWatchdog
    BY <1>7 DEF SpawnWatchdog, DataTypeOK, SleepInv, Started, NotYetArmed,
                IdsReached, OnlyOwnSleeps, Arming, Armed
<1>8. CASE StatementReturns \/ StatementFails \/ StatementHangs
    BY <1>8, SleepFrame DEF StatementReturns, StatementFails, StatementHangs,
                            SleepInv, Started, Armed
<1>9. CASE CheckServerAlive
    BY <1>9, SleepFrame DEF CheckServerAlive, SleepInv, Started, Armed
<1>10. CASE ReturnCrash
    <2>1. \A i \in Execs : wd[i] # "asleep"
        BY <1>10 DEF ReturnCrash
    <2>2. QED
        BY <2>1, <1>10 DEF ReturnCrash, DataTypeOK, SleepInv, Started,
           NotYetArmed, IdsReached, OnlyOwnSleeps, Arming, Armed
<1>11. CASE Verdict
    BY <1>11 DEF Verdict, NextId, DataTypeOK, SleepInv, Started, NotYetArmed,
                 IdsReached, OnlyOwnSleeps, Arming, Armed
<1>12. CASE CallerAssigns
    BY <1>12 DEF CallerAssigns, DataTypeOK, SleepInv, Started, NotYetArmed,
                 IdsReached, OnlyOwnSleeps, Arming, Armed
<1>13. ASSUME NEW i \in Execs, WatchdogStep(i) PROVE SleepInv'
    BY <1>13 DEF WatchdogStep, WakeUp, ReadFlag, TerminateQuery, DataTypeOK,
                 SleepInv, Started, NotYetArmed, IdsReached, OnlyOwnSleeps
<1>14. CASE ServerDies \/ ServerRestarts
    BY <1>14 DEF ServerDies, ServerRestarts, SleepInv, Started, NotYetArmed,
                 IdsReached, OnlyOwnSleeps
<1>15. CASE UNCHANGED vars
    BY <1>15 DEF vars, SleepInv, Started, NotYetArmed, IdsReached,
                 OnlyOwnSleeps
<1>16. QED
    BY <1>1, <1>2, <1>3, <1>4, <1>5, <1>6, <1>7, <1>8, <1>9, <1>10, <1>11,
       <1>12, <1>13, <1>14, <1>15 DEF Next, MainStep, Stop

LEMMA InitVerdict == Init => VerdictInv
  BY DEF Init, VerdictInv, FlagIsOwn, FiredSetsFlag, TimeoutIsOwn,
         ExpiredIsReported, Armed

(* While a call is being armed its watchdog does not exist; so what        *)
(* VerdictInv says of a fired watchdog concerns armed calls only.          *)
LEMMA ArmingFrame ==
  ASSUME SleepInv, pc' \in Arming, exec' = exec, wd' = wd, exec \in Execs,
         pc \in Arming, pc' = "spawn" => ~isTimeout'
  PROVE  VerdictInv'
  BY DEF SleepInv, NotYetArmed, Arming, Armed, VerdictInv, FlagIsOwn,
         FiredSetsFlag, TimeoutIsOwn, ExpiredIsReported, Fired

LEMMA NextVerdict ==
  TypeOK /\ SleepInv /\ VerdictInv /\ [Next]_vars => VerdictInv'
<1> SUFFICES ASSUME DataTypeOK, SleepInv, VerdictInv, [Next]_vars
             PROVE  VerdictInv'
    BY DEF TypeOK
<1> USE DEF Execs
<1>1. CASE Begin
    <2>1. pc' \in {"connect", "testReset"}
        BY <1>1 DEF Begin
    <2>2. QED
        BY <2>1 DEF VerdictInv, FlagIsOwn, FiredSetsFlag, TimeoutIsOwn,
                    ExpiredIsReported, Armed
<1>2. CASE ConnectFirst
    BY <1>2, ArmingFrame DEF ConnectFirst, Connect, SleepInv, Started, Arming
<1>3. CASE ConnectAgain
    BY <1>3, ArmingFrame DEF ConnectAgain, Connect, SleepInv, Started, Arming
<1>4. CASE FixDatabase("connect") \/ FixDatabase("reconnect")
    BY <1>4, ArmingFrame DEF FixDatabase, SleepInv, Started, Arming
<1>5. CASE TestReset \/ ResetDatabase \/ Drop
    BY <1>5, ArmingFrame
       DEF TestReset, ResetDatabase, Drop, SleepInv, Started, Arming
<1>6. CASE Create
    BY <1>6, ArmingFrame DEF Create, SleepInv, Started, Arming, DataTypeOK
<1>7. CASE ClearFlag
    BY <1>7, ArmingFrame DEF ClearFlag, SleepInv, Started, Arming
<1>8. CASE SpawnWatchdog
    <2>1. ~isTimeout' /\ ~Fired(exec)' /\ pc' = "run"
        BY <1>8 DEF SpawnWatchdog, VerdictInv, FlagIsOwn, Fired, DataTypeOK,
                    SleepInv, Started
    <2>2. QED
        BY <2>1, <1>8 DEF SpawnWatchdog, VerdictInv, FlagIsOwn, FiredSetsFlag,
                          TimeoutIsOwn, ExpiredIsReported
<1>9. CASE StatementReturns \/ StatementFails \/ StatementHangs
    BY <1>9 DEF StatementReturns, StatementFails, StatementHangs, VerdictInv,
                FlagIsOwn, FiredSetsFlag, TimeoutIsOwn, ExpiredIsReported,
                Armed, Fired
<1>10. CASE CheckServerAlive
    BY <1>10 DEF CheckServerAlive, VerdictInv, FlagIsOwn, FiredSetsFlag,
                 TimeoutIsOwn, ExpiredIsReported, Armed, Fired
<1>11. CASE ReturnCrash
    BY <1>11 DEF ReturnCrash, VerdictInv, FlagIsOwn, FiredSetsFlag,
                 TimeoutIsOwn, ExpiredIsReported, Armed, Fired
<1>12. CASE Verdict
    BY <1>12 DEF Verdict, FlagVerdict, VerdictInv, FlagIsOwn, FiredSetsFlag,
                 TimeoutIsOwn, ExpiredIsReported, Armed, Fired
<1>13. CASE CallerAssigns
    BY <1>13 DEF CallerAssigns, VerdictInv, FlagIsOwn, FiredSetsFlag,
                 TimeoutIsOwn, ExpiredIsReported, Armed
<1>14. ASSUME NEW i \in Execs, WakeUp(i) PROVE VerdictInv'
    <2>1. CASE Finished(i)
        <3>1. \A j \in Execs : Fired(j)' <=> Fired(j)
            BY <2>1, <1>14 DEF WakeUp, DataTypeOK, Fired
        <3>2. pc' = pc /\ exec' = exec /\ res' = res /\ isTimeout' = isTimeout
            BY <2>1, <1>14 DEF WakeUp
        <3>3. QED
            BY <3>1, <3>2 DEF VerdictInv, FlagIsOwn, FiredSetsFlag,
               TimeoutIsOwn, ExpiredIsReported, Armed, SleepInv, Started
    <2>2. CASE ~Finished(i)
        <3>1. i = exec /\ pc \in Armed
            BY <2>2, <1>14 DEF WakeUp, Finished, SleepInv, OnlyOwnSleeps
        <3>2. isTimeout' /\ Fired(exec)' /\ pc' = pc
            BY <3>1, <2>2, <1>14 DEF WakeUp, Fired, DataTypeOK
        <3>3. QED
            BY <3>1, <3>2 DEF VerdictInv, FlagIsOwn, FiredSetsFlag,
               TimeoutIsOwn, ExpiredIsReported, Armed
    <2>3. QED
        BY <2>1, <2>2
<1>15. ASSUME NEW i \in Execs, ReadFlag(i) \/ TerminateQuery(i)
       PROVE  VerdictInv'
    <2>1. wd[i] \in {"marked", "kill"} /\ wd'[i] \in {"kill", "done"}
        BY <1>15 DEF ReadFlag, TerminateQuery, DataTypeOK
    <2>2. \A j \in Execs : Fired(j)' <=> Fired(j)
        <3>1. \A j \in Execs : j # i => wd'[j] = wd[j]
            BY <1>15 DEF ReadFlag, TerminateQuery, DataTypeOK
        <3>2. QED
            BY <2>1, <3>1 DEF Fired
    <2>3. pc' = pc /\ exec' = exec /\ res' = res /\ isTimeout' = isTimeout
        BY <1>15 DEF ReadFlag, TerminateQuery
    <2>4. QED
        BY <2>2, <2>3 DEF VerdictInv, FlagIsOwn, FiredSetsFlag, TimeoutIsOwn,
           ExpiredIsReported, Armed, SleepInv, Started
<1>16. CASE ServerDies \/ ServerRestarts
    BY <1>16 DEF ServerDies, ServerRestarts, VerdictInv, FlagIsOwn,
                 FiredSetsFlag, TimeoutIsOwn, ExpiredIsReported, Fired
<1>17. CASE UNCHANGED vars
    BY <1>17 DEF vars, VerdictInv, FlagIsOwn, FiredSetsFlag, TimeoutIsOwn,
                 ExpiredIsReported, Fired
<1>18. QED
    BY <1>1, <1>2, <1>3, <1>4, <1>5, <1>6, <1>7, <1>8, <1>9, <1>10, <1>11,
       <1>12, <1>13, <1>14, <1>15, <1>16, <1>17
       DEF Next, MainStep, WatchdogStep, Stop

LEMMA Invariance ==
  ASSUME ~LongTimeout PROVE Spec => [](TypeOK /\ SleepInv /\ VerdictInv)
<1>1. Init => TypeOK /\ SleepInv /\ VerdictInv
    BY InitType, InitSleep, InitVerdict
<1>2. TypeOK /\ [Next]_vars => TypeOK'
    BY NextDataType, NextFlagType DEF TypeOK
<1>3. TypeOK /\ SleepInv /\ [Next]_vars => SleepInv'
    BY NextSleep
<1>4. QED
    BY <1>1, <1>2, <1>3, NextVerdict, PTL DEF Spec

(* A call that returns kTimeout was given up by its own watchdog.          *)
THEOREM TimeoutBelongs ==
  ASSUME ~LongTimeout PROVE Spec => []TimeoutIsOwn
<1>1. VerdictInv => TimeoutIsOwn
    BY DEF VerdictInv
<1>2. QED
    BY <1>1, Invariance, PTL

(* A call that its watchdog gave up does not return kNormal.               *)
THEOREM ExpiryReported ==
  ASSUME ~LongTimeout PROVE Spec => []ExpiredIsReported
<1>1. VerdictInv => ExpiredIsReported
    BY DEF VerdictInv
<1>2. QED
    BY <1>1, Invariance, PTL

(* A watchdog never sets is_timeout after its execution has returned.      *)
THEOREM FinishedStaysFinished ==
  ASSUME ~LongTimeout PROVE Spec => FinishedNeverTimesOut
<1>1. ASSUME DataTypeOK, SleepInv, [Next]_vars, NEW i \in Execs,
             wd[i] = "asleep", wd'[i] = "marked"
      PROVE  i = exec /\ pc \notin {"idle", "returned"}
    <2>1. PICK j \in Execs : WakeUp(j) /\ i = j
        <3>1. CASE SpawnWatchdog
            BY <3>1, <1>1 DEF SpawnWatchdog, DataTypeOK
        <3>2. CASE \E j \in Execs : WatchdogStep(j)
            BY <3>2, <1>1 DEF WatchdogStep, WakeUp, ReadFlag, TerminateQuery,
                              DataTypeOK
        <3>3. CASE wd' = wd
            BY <3>3, <1>1
        <3>4. QED
            BY <1>1, <3>1, <3>2, <3>3
               DEF Next, MainStep, Stop, vars, Begin, ConnectFirst,
                   ConnectAgain, Connect, FixDatabase, TestReset,
                   ResetDatabase, Drop, Create, ClearFlag, StatementReturns,
                   StatementFails, StatementHangs, CheckServerAlive,
                   ReturnCrash, Verdict, CallerAssigns, ServerDies,
                   ServerRestarts
    <2>2. ~Finished(i)
        BY <2>1, <1>1 DEF WakeUp, DataTypeOK
    <2>3. QED
        BY <2>2, <1>1 DEF Finished, SleepInv, OnlyOwnSleeps, Armed
<1>2. TypeOK /\ SleepInv /\ [Next]_vars
        => [\A i \in Execs : wd[i] = "asleep" /\ wd'[i] = "marked"
                => i = exec /\ pc \notin {"idle", "returned"}]_vars
    BY <1>1 DEF TypeOK
<1>3. QED
    BY <1>2, Invariance, PTL DEF Spec, FinishedNeverTimesOut

-----------------------------------------------------------------------------
(* Connections.                                                            *)
(*                                                                         *)
(* KillIsOwn and SessionKept follow from where m_ comes from: connection   *)
(* ids are fresh within one mysqld, and every verdict but kNormal leaves   *)
(* is_reset_database set, which replaces m_ before the next statement.     *)

(* The server has already handed out connection c.                         *)
Known(c) == c.boot < boot \/ (c.boot = boot /\ c.pid < nextPid)

ConnsKnown ==
    /\ boot > 0
    /\ Known(m)
    /\ Known(lastConn)
    /\ \A i \in Execs : Known(wdConn[i])

(* Where m_ is NULL and where it is not.                                   *)
ConnAt ==
    /\ pc \in {"connect", "drop", "create", "reconnect", "crashSleep"}
            => m = NoConn
    /\ pc \in {"testReset", "clear", "spawn", "run", "alive", "verdict"}
            => m # NoConn
    /\ \A i \in Execs : wd[i] # "none" => wdConn[i] # NoConn

(* Where a reset is under way or owed.                                     *)
ResetAt ==
    /\ pc \in {"reset", "drop", "create", "reconnect"} => isReset
    /\ pc = "returned" /\ res # "kNormal" => isReset

(* The connection a fired watchdog holds is m_ only until the reset that   *)
(* follows its execution.                                                  *)
FiredConn ==
    \A i \in Execs : Fired(i) /\ wdConn[i] = m
        => \/ i = exec /\ pc \in Armed \cup {"returned"}
           \/ isReset /\ pc \in {"idle", "testReset", "reset"}

(* Without a reset m_ stays the session of the last normal execution.      *)
SameSession ==
    /\ lastConn # NoConn /\ ~isReset
       /\ pc \in {"idle", "connect", "testReset", "clear", "spawn", "run",
                  "alive", "verdict"}
            => m = lastConn
    /\ pc = "returned" /\ res = "kNormal" => m = lastConn

ConnInv == ConnsKnown /\ ConnAt /\ ResetAt /\ FiredConn /\ SameSession

LEMMA InitConn == Init => ConnInv
  BY BoundAssumption
     DEF Init, ConnInv, ConnsKnown, Known, ConnAt, ResetAt, FiredConn,
         SameSession, Fired, NoConn

(* A connection made now is none of those made before.                     *)
LEMMA NewConn ==
  ASSUME DataTypeOK, ConnsKnown
  PROVE  LET c == [boot |-> boot, pid |-> nextPid]
         IN  c # NoConn /\ c # lastConn /\ \A i \in Execs : c # wdConn[i]
  BY DEF DataTypeOK, ConnsKnown, Known, NoConn, Conns

LEMMA NextKnown == DataTypeOK /\ ConnInv /\ [Next]_vars => ConnsKnown'
<1> SUFFICES ASSUME DataTypeOK, ConnInv, [Next]_vars PROVE ConnsKnown'
    OBVIOUS
<1> USE DEF ConnInv, ConnsKnown, Known
<1>1. CASE ConnectFirst \/ ConnectAgain
    BY <1>1 DEF ConnectFirst, ConnectAgain, Connect, DataTypeOK, Conns
<1>2. CASE FixDatabase("connect") \/ FixDatabase("reconnect")
    BY <1>2 DEF FixDatabase, NoConn, DataTypeOK, Conns
<1>3. CASE ResetDatabase \/ CheckServerAlive
    BY <1>3 DEF ResetDatabase, CheckServerAlive, NoConn, DataTypeOK,
                Conns
<1>4. CASE SpawnWatchdog
    BY <1>4 DEF SpawnWatchdog, DataTypeOK
<1>5. CASE Verdict
    BY <1>5 DEF Verdict
<1>6. CASE ServerRestarts
    BY <1>6 DEF ServerRestarts, DataTypeOK, Conns
<1>7. CASE UNCHANGED <<boot, nextPid, m, lastConn, wdConn>>
    BY <1>7
<1>8. ASSUME NEW i \in Execs, TerminateQuery(i) PROVE ConnsKnown'
    BY <1>8 DEF TerminateQuery, DataTypeOK, Conns
<1>9. QED
    BY <1>1, <1>2, <1>3, <1>4, <1>5, <1>6, <1>7, <1>8
       DEF Next, MainStep, Stop, vars, Begin, TestReset, Drop, Create,
           ClearFlag, StatementReturns, StatementFails, StatementHangs,
           ReturnCrash, CallerAssigns, ServerDies, WatchdogStep, WakeUp,
           ReadFlag

LEMMA NextConnAt ==
  DataTypeOK /\ SleepInv /\ ConnInv /\ [Next]_vars => ConnAt' /\ ResetAt'
<1> SUFFICES ASSUME DataTypeOK, SleepInv, ConnInv, [Next]_vars
             PROVE  ConnAt' /\ ResetAt'
    OBVIOUS
<1> USE DEF ConnInv, ConnAt, ResetAt
<1>1. CASE Begin
    BY <1>1 DEF Begin
<1>2. CASE ConnectFirst \/ ConnectAgain
    BY <1>2, NewConn DEF ConnectFirst, ConnectAgain, Connect
<1>3. CASE FixDatabase("connect") \/ FixDatabase("reconnect")
    BY <1>3 DEF FixDatabase
<1>4. CASE TestReset \/ ResetDatabase \/ Drop
    BY <1>4 DEF TestReset, ResetDatabase, Drop
<1>5. CASE Create
    BY <1>5 DEF Create, DataTypeOK
<1>6. CASE ClearFlag
    BY <1>6 DEF ClearFlag
<1>7. CASE SpawnWatchdog
    BY <1>7 DEF SpawnWatchdog, DataTypeOK
<1>8. CASE StatementReturns \/ StatementFails \/ StatementHangs
    BY <1>8 DEF StatementReturns, StatementFails, StatementHangs
<1>9. CASE CheckServerAlive
    BY <1>9 DEF CheckServerAlive
<1>10. CASE ReturnCrash
    BY <1>10 DEF ReturnCrash, ForcesReset
<1>11. CASE Verdict
    BY <1>11 DEF Verdict, FlagVerdict, ForcesReset
<1>12. CASE CallerAssigns
    BY <1>12 DEF CallerAssigns
<1>13. ASSUME NEW i \in Execs, WatchdogStep(i) PROVE ConnAt' /\ ResetAt'
    BY <1>13 DEF WatchdogStep, WakeUp, ReadFlag, TerminateQuery, DataTypeOK
<1>14. CASE ServerDies \/ ServerRestarts
    BY <1>14 DEF ServerDies, ServerRestarts
<1>15. CASE UNCHANGED vars
    BY <1>15 DEF vars
<1>16. QED
    BY <1>1, <1>2, <1>3, <1>4, <1>5, <1>6, <1>7, <1>8, <1>9, <1>10, <1>11,
       <1>12, <1>13, <1>14, <1>15 DEF Next, MainStep, Stop

LEMMA NextFiredConn ==
  DataTypeOK /\ SleepInv /\ VerdictInv /\ ConnInv /\ [Next]_vars
    => FiredConn'
<1> SUFFICES ASSUME DataTypeOK, SleepInv, VerdictInv, ConnInv, [Next]_vars
             PROVE  FiredConn'
    OBVIOUS
<1> USE DEF FiredConn, ConnInv
<1>1. CASE Begin
    <2>1. \A i \in Execs : Fired(i) => i # exec' /\ wdConn[i] # NoConn
        BY <1>1 DEF Begin, SleepInv, NotYetArmed, Fired, ConnAt, DataTypeOK,
                    Execs
    <2>2. isReset => isReset'
        BY <1>1 DEF Begin
    <2>3. pc = "idle" /\ (pc' = IF m = NoConn THEN "connect" ELSE "testReset")
          /\ m' = m /\ wd' = wd /\ wdConn' = wdConn
        BY <1>1 DEF Begin
    <2>4. QED
        BY <2>1, <2>2, <2>3 DEF Fired, Armed
<1>2. CASE ConnectFirst \/ ConnectAgain
    BY <1>2, NewConn DEF ConnectFirst, ConnectAgain, Connect, Fired
<1>3. CASE FixDatabase("connect") \/ FixDatabase("reconnect")
    BY <1>3 DEF FixDatabase, ConnAt, Fired
<1>4. CASE TestReset
    BY <1>4 DEF TestReset, Fired, Armed
<1>5. CASE ResetDatabase
    BY <1>5 DEF ResetDatabase, ConnAt, Fired
<1>6. CASE Drop \/ Create
    BY <1>6 DEF Drop, Create, ConnAt, Fired, DataTypeOK
<1>7. CASE ClearFlag
    BY <1>7 DEF ClearFlag, Fired, Armed
<1>8. CASE SpawnWatchdog
    <2>1. \A i \in Execs : Fired(i)' => Fired(i) /\ wdConn'[i] = wdConn[i]
        BY <1>8 DEF SpawnWatchdog, DataTypeOK, Fired
    <2>2. QED
        BY <2>1, <1>8 DEF SpawnWatchdog, Armed
<1>9. CASE StatementReturns \/ StatementFails \/ StatementHangs
    BY <1>9 DEF StatementReturns, StatementFails, StatementHangs, Fired, Armed
<1>10. CASE CheckServerAlive
    BY <1>10 DEF CheckServerAlive, Fired, Armed, ConnAt
<1>11. CASE ReturnCrash
    BY <1>11 DEF ReturnCrash, Fired, Armed
<1>12. CASE Verdict
    BY <1>12 DEF Verdict, Fired, Armed
<1>13. CASE CallerAssigns
    BY <1>13 DEF CallerAssigns, Fired, Armed, VerdictInv, ExpiredIsReported,
                 ResetAt
<1>14. ASSUME NEW i \in Execs, WakeUp(i) PROVE FiredConn'
    <2>1. CASE Finished(i)
        BY <2>1, <1>14 DEF WakeUp, DataTypeOK, Fired
    <2>2. CASE ~Finished(i)
        <3>1. i = exec /\ pc \in Armed
            BY <2>2, <1>14 DEF WakeUp, Finished, SleepInv, OnlyOwnSleeps
        <3>2. \A j \in Execs : j # i => (Fired(j)' <=> Fired(j))
            BY <2>2, <1>14 DEF WakeUp, DataTypeOK, Fired
        <3>3. UNCHANGED <<pc, exec, m, isReset, wdConn>>
            BY <1>14 DEF WakeUp
        <3>4. QED
            BY <3>1, <3>2, <3>3
    <2>3. QED
        BY <2>1, <2>2
<1>15. ASSUME NEW i \in Execs, ReadFlag(i) \/ TerminateQuery(i)
       PROVE  FiredConn'
    <2>1. \A j \in Execs : Fired(j)' => Fired(j)
        BY <1>15 DEF ReadFlag, TerminateQuery, DataTypeOK, Fired
    <2>2. QED
        BY <2>1, <1>15 DEF ReadFlag, TerminateQuery
<1>16. CASE ServerDies \/ ServerRestarts
    BY <1>16 DEF ServerDies, ServerRestarts, Fired
<1>17. CASE UNCHANGED vars
    BY <1>17 DEF vars, Fired
<1>18. QED
    BY <1>1, <1>2, <1>3, <1>4, <1>5, <1>6, <1>7, <1>8, <1>9, <1>10, <1>11,
       <1>12, <1>13, <1>14, <1>15, <1>16, <1>17
       DEF Next, MainStep, WatchdogStep, Stop

LEMMA NextSession == DataTypeOK /\ ConnInv /\ [Next]_vars => SameSession'
<1> SUFFICES ASSUME DataTypeOK, ConnInv, [Next]_vars PROVE SameSession'
    OBVIOUS
<1> USE DEF SameSession, ConnInv
<1>1. CASE Begin
    <2>1. isReset => isReset'
        BY <1>1 DEF Begin
    <2>2. pc = "idle" /\ pc' # "returned" /\ m' = m /\ lastConn' = lastConn
        BY <1>1 DEF Begin
    <2>3. QED
        BY <2>1, <2>2
<1>2. CASE ConnectFirst
    BY <1>2 DEF ConnectFirst, Connect, ConnAt
<1>3. CASE ConnectAgain
    BY <1>3 DEF ConnectAgain, Connect, ResetAt
<1>4. CASE FixDatabase("connect") \/ FixDatabase("reconnect")
    BY <1>4 DEF FixDatabase
<1>5. CASE TestReset \/ ResetDatabase \/ Drop
    BY <1>5 DEF TestReset, ResetDatabase, Drop, ResetAt
<1>6. CASE Create
    BY <1>6 DEF Create, ResetAt, DataTypeOK
<1>7. CASE ClearFlag \/ SpawnWatchdog
    BY <1>7 DEF ClearFlag, SpawnWatchdog
<1>8. CASE StatementReturns \/ StatementFails \/ StatementHangs
    BY <1>8 DEF StatementReturns, StatementFails, StatementHangs
<1>9. CASE CheckServerAlive \/ ReturnCrash
    BY <1>9 DEF CheckServerAlive, ReturnCrash
<1>10. CASE Verdict
    BY <1>10 DEF Verdict, FlagVerdict
<1>11. CASE CallerAssigns
    BY <1>11 DEF CallerAssigns, ResetAt
<1>12. ASSUME NEW i \in Execs, WatchdogStep(i) PROVE SameSession'
    BY <1>12 DEF WatchdogStep, WakeUp, ReadFlag, TerminateQuery
<1>13. CASE ServerDies \/ ServerRestarts
    BY <1>13 DEF ServerDies, ServerRestarts
<1>14. CASE UNCHANGED vars
    BY <1>14 DEF vars
<1>15. QED
    BY <1>1, <1>2, <1>3, <1>4, <1>5, <1>6, <1>7, <1>8, <1>9, <1>10, <1>11,
       <1>12, <1>13, <1>14 DEF Next, MainStep, Stop

LEMMA ConnInvariance == ASSUME ~LongTimeout PROVE Spec => []ConnInv
<1>1. TypeOK /\ SleepInv /\ VerdictInv /\ ConnInv /\ [Next]_vars => ConnInv'
    BY NextKnown, NextConnAt, NextFiredConn, NextSession DEF ConnInv, TypeOK
<1>2. QED
    BY <1>1, InitConn, Invariance, PTL DEF Spec

(* The id a watchdog is about to kill is not that of the session a later   *)
(* execution speaks on, unless mysqld was restarted since: within one      *)
(* mysqld equal ids are the same connection.                               *)
THEOREM KillsOwn == ASSUME ~LongTimeout PROVE Spec => []KillIsOwn
<1>1. TypeOK /\ ConnInv => KillIsOwn
    <2>1. SUFFICES ASSUME TypeOK, ConnInv, NEW i \in Execs,
                          wd[i] \in {"marked", "kill"}, Kills(i), Speaking,
                          wdConn[i].boot = boot
                   PROVE  i = exec
        BY DEF KillIsOwn
    <2>2. wdConn[i] = m
        BY <2>1 DEF TypeOK, DataTypeOK, Conns, Kills
    <2>3. QED
        BY <2>1, <2>2 DEF ConnInv, FiredConn, Fired, Speaking
<1>2. QED
    BY <1>1, ConnInvariance, TypeCorrect, PTL

(* A statement sent without a reset goes to the session of the last        *)
(* execution that ended normally.                                          *)
THEOREM KeepsSession == ASSUME ~LongTimeout PROVE Spec => []SessionKept
<1>1. ConnInv => SessionKept
    BY DEF ConnInv, SameSession, SessionKept
<1>2. QED
    BY <1>1, ConnInvariance, PTL

-----------------------------------------------------------------------------
(* The database a replay starts on.                                        *)

FreshAt ==
    /\ pc \in {"drop", "create"} => tmpBoot = boot
    /\ pc = "create" => db = "absent"
    /\ pc = "reconnect" => db # "used"
    /\ pc \in {"clear", "spawn", "run"} /\ isReset /\ ~hung => db = "fresh"

FreshInv == ~crashed => /\ pc \notin {"idle", "returned"} => up
                        /\ FreshAt

LEMMA InitFresh == Init => FreshInv
  BY DEF Init, FreshInv, FreshAt

LEMMA NextFresh == DataTypeOK /\ ConnInv /\ FreshInv /\ [Next]_vars => FreshInv'
<1> SUFFICES ASSUME DataTypeOK, ConnInv, FreshInv, [Next]_vars, ~crashed'
             PROVE  /\ pc' \notin {"idle", "returned"} => up'
                    /\ FreshAt'
    BY DEF FreshInv
<1> USE DEF FreshInv, FreshAt
<1>1. CASE Begin
    BY <1>1 DEF Begin
<1>2. CASE ConnectFirst \/ ConnectAgain
    BY <1>2 DEF ConnectFirst, ConnectAgain, Connect, CanConnect, DataTypeOK
<1>3. CASE FixDatabase("connect") \/ FixDatabase("reconnect")
    BY <1>3 DEF FixDatabase
<1>4. CASE TestReset \/ ResetDatabase
    BY <1>4 DEF TestReset, ResetDatabase, CanConnect, DataTypeOK
<1>5. CASE Drop
    BY <1>5 DEF Drop
<1>6. CASE Create
    BY <1>6 DEF Create, DataTypeOK
<1>7. CASE ClearFlag \/ SpawnWatchdog
    BY <1>7 DEF ClearFlag, SpawnWatchdog
<1>8. CASE StatementReturns \/ StatementFails \/ StatementHangs
    BY <1>8 DEF StatementReturns, StatementFails, StatementHangs
<1>9. CASE CheckServerAlive \/ ReturnCrash \/ Verdict \/ CallerAssigns
    BY <1>9 DEF CheckServerAlive, ReturnCrash, Verdict, CallerAssigns
<1>10. ASSUME NEW i \in Execs, WatchdogStep(i)
       PROVE  (pc' \notin {"idle", "returned"} => up') /\ FreshAt'
    BY <1>10 DEF WatchdogStep, WakeUp, ReadFlag, TerminateQuery
<1>11. CASE ServerDies \/ ServerRestarts
    BY <1>11 DEF ServerDies, ServerRestarts
<1>12. CASE UNCHANGED vars
    BY <1>12 DEF vars
<1>13. QED
    BY <1>1, <1>2, <1>3, <1>4, <1>5, <1>6, <1>7, <1>8, <1>9, <1>10, <1>11,
       <1>12 DEF Next, MainStep, Stop

(* While mysqld stays up a replay starts on a database that has just been  *)
(* dropped and created.                                                    *)
THEOREM FreshReplay == ASSUME ~LongTimeout PROVE Spec => []ReplayStartsFresh
<1>1. TypeOK /\ ConnInv /\ FreshInv /\ [Next]_vars => FreshInv'
    BY NextFresh DEF TypeOK
<1>2. FreshInv => ReplayStartsFresh
    BY DEF FreshInv, FreshAt, ReplayStartsFresh
<1>3. QED
    BY <1>1, <1>2, InitFresh, Invariance, ConnInvariance, PTL DEF Spec

-----------------------------------------------------------------------------
(* Refinement.                                                             *)

LEMMA InitRefines == Init => Call!AInit
  BY DEF Init, Call!AInit

LEMMA StepRefines ==
  ASSUME ~LongTimeout
  PROVE  DataTypeOK /\ SleepInv /\ VerdictInv /\ [Next]_vars
            => [Call!ANext]_(Call!avars)
<1> SUFFICES ASSUME DataTypeOK, SleepInv, VerdictInv, [Next]_vars
             PROVE  [Call!ANext]_(Call!avars)
    OBVIOUS
<1> USE DEF Execs, Call!ANext, Call!avars
<1>0. ASSUME exec' = exec, res' = res, exec \in Execs,
             wd'[exec] = wd[exec],
             pc \notin {"idle", "returned"}, pc' \notin {"idle", "returned"}
      PROVE  UNCHANGED Call!avars
    BY <1>0 DEF Fired
<1>1. CASE Begin
    <2>1. exec' > 0 /\ exec' \in Execs /\ ~Fired(exec)'
        BY <1>1, BoundAssumption
           DEF Begin, DataTypeOK, SleepInv, NotYetArmed, Fired
    <2>2. QED
        BY <2>1, <1>1 DEF Begin, Call!ABegin
<1>2. CASE ConnectFirst \/ ConnectAgain
    BY <1>0, <1>2 DEF ConnectFirst, ConnectAgain, Connect, SleepInv, Started
<1>3. CASE FixDatabase("connect") \/ FixDatabase("reconnect")
    BY <1>0, <1>3 DEF FixDatabase, SleepInv, Started
<1>4. CASE TestReset \/ ResetDatabase \/ Drop
    BY <1>0, <1>4 DEF TestReset, ResetDatabase, Drop, SleepInv, Started
<1>5. CASE Create
    BY <1>0, <1>5 DEF Create, SleepInv, Started, DataTypeOK
<1>6. CASE ClearFlag
    BY <1>0, <1>6 DEF ClearFlag, SleepInv, Started
<1>7. CASE SpawnWatchdog
    <2>1. ~Fired(exec) /\ ~Fired(exec)'
        BY <1>7 DEF SpawnWatchdog, DataTypeOK, SleepInv, Started, NotYetArmed,
                    Arming, Fired
    <2>2. QED
        BY <2>1, <1>7 DEF SpawnWatchdog
<1>8. CASE StatementReturns \/ StatementFails \/ StatementHangs
    BY <1>0, <1>8 DEF StatementReturns, StatementFails, StatementHangs,
                      SleepInv, Started
<1>9. CASE CheckServerAlive
    BY <1>0, <1>9 DEF CheckServerAlive, SleepInv, Started
<1>10. CASE ReturnCrash
    BY <1>10 DEF ReturnCrash, Call!ACrash, Fired
<1>11. CASE Verdict
    <2>1. exec > 0 /\ (isTimeout <=> Fired(exec))
        BY <1>11 DEF Verdict, DataTypeOK, SleepInv, Started, VerdictInv,
                     FlagIsOwn, FiredSetsFlag, Armed
    <2>2. Fired(exec)' <=> Fired(exec)
        BY <1>11 DEF Verdict, Fired
    <2>3. res' = IF Fired(exec) THEN "kTimeout" ELSE "kNormal"
        BY <1>11, <2>1 DEF Verdict, FlagVerdict
    <2>4. QED
        BY <2>1, <2>2, <2>3, <1>11 DEF Verdict, Call!AFinish
<1>12. CASE CallerAssigns
    BY <1>12 DEF CallerAssigns, Fired
<1>13. ASSUME NEW i \in Execs, WakeUp(i) PROVE [Call!ANext]_(Call!avars)
    <2>0. exec' = exec /\ res' = res /\ pc' = pc
        BY <1>13 DEF WakeUp
    <2>1. CASE Finished(i)
        <3>1. \A j \in Execs : Fired(j)' <=> Fired(j)
            BY <2>1, <1>13 DEF WakeUp, DataTypeOK, Fired
        <3>2. QED
            BY <2>0, <3>1 DEF DataTypeOK
    <2>2. CASE ~Finished(i)
        <3>1. i = exec /\ pc \in Armed
            BY <2>2, <1>13 DEF WakeUp, Finished, SleepInv, OnlyOwnSleeps
        <3>2. ~Fired(exec) /\ Fired(exec)'
            BY <3>1, <2>2, <1>13 DEF WakeUp, Fired, DataTypeOK
        <3>3. QED
            BY <2>0, <3>1, <3>2 DEF Call!AExpire, Armed
    <2>3. QED
        BY <2>1, <2>2
<1>14. ASSUME NEW i \in Execs, ReadFlag(i) \/ TerminateQuery(i)
       PROVE  UNCHANGED Call!avars
    <2>1. wd[i] \in {"marked", "kill"} /\ wd'[i] \in {"kill", "done"}
        BY <1>14 DEF ReadFlag, TerminateQuery, DataTypeOK
    <2>2. \A j \in Execs : j # i => wd'[j] = wd[j]
        BY <1>14 DEF ReadFlag, TerminateQuery, DataTypeOK
    <2>3. \A j \in Execs : Fired(j)' <=> Fired(j)
        BY <2>1, <2>2 DEF Fired
    <2>4. QED
        BY <2>3, <1>14 DEF ReadFlag, TerminateQuery, DataTypeOK
<1>15. CASE ServerDies \/ ServerRestarts
    BY <1>15 DEF ServerDies, ServerRestarts, Fired
<1>16. CASE UNCHANGED vars
    BY <1>16 DEF vars, Fired
<1>17. QED
    BY <1>1, <1>2, <1>3, <1>4, <1>5, <1>6, <1>7, <1>8, <1>9, <1>10, <1>11,
       <1>12, <1>13, <1>14, <1>15, <1>16
       DEF Next, MainStep, WatchdogStep, Stop

(* Each call of execute behaves as one TimedCall: it ends once, and with   *)
(* kTimeout exactly if its own limit expired while it was active.          *)
THEOREM Refinement == ASSUME ~LongTimeout PROVE Spec => ImplementsTimedCall
<1>1. TypeOK /\ SleepInv /\ VerdictInv /\ [Next]_vars
        => [Call!ANext]_(Call!avars)
    BY StepRefines DEF TypeOK
<1>2. QED
    BY <1>1, InitRefines, Invariance, PTL
       DEF Spec, ImplementsTimedCall, Call!ASpec
=============================================================================
