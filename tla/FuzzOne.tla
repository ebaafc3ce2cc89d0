------------------------------ MODULE FuzzOne ------------------------------
(***************************************************************************)
(* fuzz_one and what it calls: a fixed CREATE TABLE and then StageMax      *)
(* generated statements run one by one on the session of the MySQL client. *)
(* full_valid_input records what a reset has to replay; the mutator's data *)
(* library records what later statements may name; the generator is told   *)
(* which of its derivations to reward.  The three are kept by different    *)
(* code and have to agree with the database and with each other.           *)
(*                                                                         *)
(* Statement 0 is the CREATE TABLE.  MysqlClient::execute is one step here *)
(* (module MysqlClient models it): it yields a fault, a result text, of    *)
(* which only matters whether "error" occurs in it, and a connection.  A   *)
(* mysqld that dies and is back in time yields no fault, but a connection  *)
(* that is gone, or a replay on a database that nobody emptied.            *)
(***************************************************************************)
EXTENDS Integers

CONSTANTS
    StageMax,        \* stage_max: generated statements for each input
    TmoutLimit,      \* TMOUT_LIMIT
    SystemEffects,   \* may a statement have an effect that a reset leaves?
    SkipSignals      \* does the user send SIGUSR1?

ASSUME StageAssumption == StageMax \in Nat /\ TmoutLimit \in Nat
ASSUME LimitAssumption == TmoutLimit >= 2 * (StageMax + 1)  \* 250 and 23
ASSUME SwitchAssumption == SystemEffects \in BOOLEAN /\ SkipSignals \in BOOLEAN

Statements == 0 .. StageMax
Faults == {"none", "tmout", "crash"}
Conns == {"sound", "lost", "dirty"}
Coms == {"select", "other"}        \* values of enum_sql_command
NoCom == "noCom"                   \* -1, the sentinel

VARIABLES
    pc,             \* where fuzz_one and its callees are
    cur,            \* the statement at hand
    isReset,        \* is_reset_database
    fullValid,      \* the statements in full_valid_input
    conn,           \* the session: "sound", "lost" or "dirty"
    session,        \* the statements in effect on it, while it is sound
    systemDone,     \* those of them that also have an effect beyond it
    fault,          \* what run_target returned
    resError,       \* does res_str contain "error"?
    bailOut,        \* what common_fuzz_stuff returned
    subseqTmouts,   \* subseq_tmouts
    skipRequested,  \* skip_requested
    skipTaken,      \* history: was a skip request for this input consumed?
    stopSoon,       \* stop_soon
    lib, libBackup, \* statements whose names are in the data library, backup
    pathOf,         \* the statement curChosenPath was generated for, 0: empty
    pathRan,        \* history: has that statement been executed?
    pathCredits,    \* history: how often was that derivation rewarded?
    savedUnrun,     \* history: was one saved whose statement never ran?
    lastCom,        \* last_sqlcom
    ownCom          \* history: the command the last statement parsed to

dbVars == <<isReset, fullValid, conn, session, systemDone>>
runVars == <<fault, resError, bailOut, subseqTmouts>>
sigVars == <<skipRequested, skipTaken, stopSoon>>
libVars == <<lib, libBackup>>
rsgVars == <<pathOf, pathRan, pathCredits, savedUnrun>>
comVars == <<lastCom, ownCom>>
vars == <<pc, cur, dbVars, runVars, sigVars, libVars, rsgVars, comVars>>

PCs == {"enter", "run", "ecs", "common", "save", "record", "generate",
        "parse", "abandon", "stopped"}

FlagTypeOK ==
    /\ isReset \in BOOLEAN
    /\ resError \in BOOLEAN
    /\ bailOut \in BOOLEAN
    /\ skipRequested \in BOOLEAN
    /\ skipTaken \in BOOLEAN
    /\ stopSoon \in BOOLEAN
    /\ pathRan \in BOOLEAN
    /\ savedUnrun \in BOOLEAN

DataTypeOK ==
    /\ pc \in PCs
    /\ cur \in Statements
    /\ fullValid \subseteq Statements
    /\ conn \in Conns
    /\ session \subseteq Statements
    /\ systemDone \subseteq Statements
    /\ fault \in Faults
    /\ subseqTmouts \in Nat
    /\ lib \subseteq Statements
    /\ libBackup \subseteq Statements
    /\ pathOf \in Statements
    /\ pathCredits \in Nat
    /\ lastCom \in Coms \cup {NoCom}
    /\ ownCom \in Coms \cup {NoCom}

TypeOK == FlagTypeOK /\ DataTypeOK

Init ==
    /\ pc = "enter" /\ cur = 0
    /\ isReset \in BOOLEAN /\ fullValid = {}
    /\ conn = "sound" /\ session = {} /\ systemDone = {}
    /\ fault = "none" /\ resError = FALSE /\ bailOut = FALSE
    /\ subseqTmouts = 0
    /\ skipRequested = FALSE /\ skipTaken = FALSE /\ stopSoon = FALSE
    /\ lib = {} /\ libBackup = {}
    /\ pathOf = 0 /\ pathRan = FALSE /\ pathCredits = 0 /\ savedUnrun = FALSE
    /\ lastCom = NoCom /\ ownCom = NoCom

-----------------------------------------------------------------------------
(* fuzz_one up to its first statement.                                     *)

TmoutsKept == subseqTmouts                                       \* mutant
TmoutsCleared == 0

(* full_valid_input is a new local variable; pre_validate empties the data *)
(* library.                                                                *)
EnterEntry ==
    /\ pc = "enter"
    /\ pc' = "run"
    /\ cur' = 0
    /\ isReset' = TRUE
    /\ fullValid' = {} /\ session' = {} /\ systemDone' = {}
    /\ subseqTmouts' = TmoutsCleared
    /\ lib' = {} /\ libBackup' = {}
    /\ skipTaken' = FALSE
    /\ UNCHANGED <<conn, fault, resError, bailOut, skipRequested, stopSoon,
                   rsgVars, comVars>>

-----------------------------------------------------------------------------
(* run_target: execute, then the SQLCOM that mysqld left in the map.       *)

(* The effects that the statement finds on its session: a reset empties    *)
(* the database and replays full_valid_input.                              *)
SessionOnly == session                                           \* mutant
Replayed == IF isReset THEN fullValid ELSE session

(* A replayed statement with an effect that the reset left in place fails  *)
(* this time, and res_str holds the results of the whole replay.           *)
ReplayFails == isReset /\ fullValid \cap systemDone # {}

(* The session after a call with the verdict kNormal.  A reset makes a new *)
(* connection; if mysqld went down during the reset, DROP and CREATE have  *)
(* failed unnoticed and the replay finds what was there.  The connection   *)
(* is lost if mysqld died since the last call, or during this one and was  *)
(* back before check_server_alive: the tests for CR_SERVER_LOST never      *)
(* succeed, and nothing but a reset replaces m_.                           *)
MayBecome == CASE isReset -> Conns
               [] ~isReset /\ conn = "lost" -> {"lost"}
               [] OTHER -> {conn, "lost"}

(* The statement is sent on a connection that is known to be gone. *)
Unheard == ~isReset /\ conn = "lost"

(* The command ids that may be in the map.  mysqld stores one for every    *)
(* statement it can parse, those of the reset and of the replay included;  *)
(* with a fault, or when the connection goes, the statement itself may     *)
(* never have been reached.                                                *)
LeftInMap(f, c, own) ==
    CASE Unheard -> {NoCom}
      [] ~Unheard /\ f = "none" /\ c # "lost" /\ own # NoCom -> {own}
      [] ~Unheard /\ f = "none" /\ ~isReset /\ own = NoCom -> {NoCom}
      [] OTHER -> Coms \cup {NoCom}

(* The results of a statement that took effect.  An error in front of its  *)
(* own result is due to the replay; a connection that goes may leave an    *)
(* error behind all the same.                                              *)
Results(c) == IF c = "sound" \/ (c = "dirty" /\ ~isReset) THEN {ReplayFails}
                                                         ELSE {ReplayFails, TRUE}

(* The verdict f of execute, the session c after it, and whether statement *)
(* cur took effect.  Both are possible with any verdict but one: CREATE    *)
(* TABLE cannot fail on the empty database of a sound session.  After a    *)
(* fault c says nothing new, for a reset replaces the session.             *)
RunTarget(f, c, applied, system, own) ==
    /\ pc = "run"
    /\ pc' = "ecs"
    /\ c \in IF f = "none" THEN MayBecome ELSE {conn}
    /\ applied => own # NoCom /\ ~Unheard
    /\ cur = 0 /\ f = "none" /\ c = "sound" => applied
    /\ system => SystemEffects /\ applied /\ cur # 0
    /\ fault' = f
    /\ conn' = c
    /\ isReset' = (isReset \/ f # "none")
    /\ session' = CASE c # "sound" -> {}
                     [] c = "sound" /\ applied -> Replayed \cup {cur}
                     [] OTHER -> Replayed
    /\ systemDone' = IF system THEN systemDone \cup {cur} ELSE systemDone
    /\ resError' \in IF applied THEN Results(c) ELSE {TRUE}
    /\ pathRan' = (pathRan \/ (pathOf = cur /\ cur # 0))
    /\ ownCom' = own
    /\ lastCom' \in LeftInMap(f, c, own)
    /\ UNCHANGED <<cur, fullValid, bailOut, subseqTmouts, sigVars, libVars,
                   pathOf, pathCredits, savedUnrun>>

-----------------------------------------------------------------------------
(* execute_cmd_string and common_fuzz_stuff.                               *)

(* subseq_tmouts++ > TMOUT_LIMIT, or subseq_tmouts = 0. *)
OverLimit == fault = "tmout" /\ subseqTmouts > TmoutLimit
CountTmout ==
    subseqTmouts' = IF fault = "tmout" THEN subseqTmouts + 1 ELSE 0

AlwaysClean == FALSE                                             \* mutant
NeedsReset == fault # "none"

(* execute_cmd_string, after run_target.                                   *)
EndOfExecute ==
    /\ pc = "ecs"
    /\ pc' = "common"
    /\ IF stopSoon THEN UNCHANGED subseqTmouts ELSE CountTmout
    /\ IF ~stopSoon /\ ~OverLimit /\ skipRequested
       THEN skipRequested' = FALSE /\ skipTaken' = TRUE
       ELSE UNCHANGED <<skipRequested, skipTaken>>
    /\ isReset' = IF stopSoon \/ OverLimit \/ skipRequested THEN isReset
                                                            ELSE NeedsReset
    /\ UNCHANGED <<cur, fullValid, conn, session, systemDone, fault, resError,
                   bailOut, stopSoon, libVars, rsgVars, comVars>>

(* common_fuzz_stuff, after execute_cmd_string: the same tests again.      *)
CommonFuzzStuff ==
    /\ pc = "common"
    /\ IF stopSoon THEN UNCHANGED subseqTmouts ELSE CountTmout
    /\ bailOut' = (stopSoon \/ OverLimit \/ skipRequested)
    /\ IF ~stopSoon /\ ~OverLimit /\ skipRequested
       THEN skipRequested' = FALSE /\ skipTaken' = TRUE
       ELSE UNCHANGED <<skipRequested, skipTaken>>
    /\ pc' = IF bailOut' THEN "record" ELSE "save"
    /\ UNCHANGED <<cur, dbVars, fault, resError, stopSoon, libVars, rsgVars,
                   comVars>>

PathKept == pathOf                                               \* mutant
PathCleared == 0

(* save_if_interesting: with FAULT_NONE the derivation at hand is rewarded *)
(* and saved (interesting) or punished, and forgotten; with any other      *)
(* fault it is left as it is.                                              *)
SaveIfInteresting(interesting) ==
    /\ pc = "save"
    /\ pc' = "record"
    /\ IF fault = "none"
       THEN /\ pathOf' = PathCleared
            /\ pathCredits' = IF pathOf # 0 THEN pathCredits + 1
                                            ELSE pathCredits
            /\ savedUnrun' = (savedUnrun
                                \/ (interesting /\ pathOf # 0 /\ ~pathRan))
       ELSE UNCHANGED <<pathOf, pathCredits, savedUnrun>>
    /\ UNCHANGED <<cur, dbVars, runVars, sigVars, libVars, pathRan, comVars>>

-----------------------------------------------------------------------------
(* The loop of fuzz_one.                                                   *)

(* Which results let a statement into full_valid_input?                    *)
AnyResult == TRUE                                                \* mutant
ResultIsValid == ~resError

KeepLibrary == lib                                               \* mutant
RolledBack == libBackup

(* The first statement is recorded whatever became of it; after that one   *)
(* with an error is rolled back, and one that bailed out is passed over.   *)
Record ==
    /\ pc = "record"
    /\ pc' = "generate"
    /\ IF cur = 0 \/ (~bailOut /\ ResultIsValid)
       THEN fullValid' = fullValid \cup {cur}
       ELSE UNCHANGED fullValid
    /\ lib' = IF cur # 0 /\ ~bailOut /\ resError THEN RolledBack ELSE lib
    /\ UNCHANGED <<cur, isReset, conn, session, systemDone, runVars, sigVars,
                   libBackup, rsgVars, comVars>>

OneTooMany == cur =< StageMax                                    \* mutant
MoreStatements == cur < StageMax

SameStatement == cur                                             \* mutant
NextStatement == cur + 1

(* rsg_generate derives the next statement; curChosenPath is the           *)
(* derivation.                                                             *)
Generate ==
    /\ pc = "generate"
    /\ MoreStatements
    /\ cur' = NextStatement
    /\ pathOf' = NextStatement /\ pathRan' = FALSE /\ pathCredits' = 0
    /\ pc' = "parse"
    /\ UNCHANGED <<dbVars, runVars, sigVars, libVars, savedUnrun, comVars>>

LoopEnds ==
    /\ pc = "generate"
    /\ ~MoreStatements
    /\ pc' = "abandon"
    /\ UNCHANGED <<cur, dbVars, runVars, sigVars, libVars, rsgVars, comVars>>

(* The generated text does not parse, or has no statement in it.           *)
ParseFails ==
    /\ pc = "parse"
    /\ pc' = "generate"
    /\ UNCHANGED <<cur, dbVars, runVars, sigVars, libVars, rsgVars, comVars>>

StopAtStatement ==
    /\ pc = "parse"
    /\ stopSoon
    /\ pc' = "abandon"
    /\ UNCHANGED <<cur, dbVars, runVars, sigVars, libVars, rsgVars, comVars>>

(* validate backs the library up and may enter the names that the          *)
(* statement creates.                                                      *)
Backup == lib

Validate ==
    /\ pc = "parse"
    /\ ~stopSoon
    /\ libBackup' = Backup
    /\ lib' \in {lib, lib \cup {cur}}
    /\ pc' = "run"
    /\ UNCHANGED <<cur, dbVars, runVars, sigVars, rsgVars, comVars>>

(* abandon_entry; main goes on to another entry, or stops.                 *)
Abandon ==
    /\ pc = "abandon"
    /\ pc' = IF stopSoon THEN "stopped" ELSE "enter"
    /\ UNCHANGED <<cur, dbVars, runVars, sigVars, libVars, rsgVars, comVars>>

-----------------------------------------------------------------------------
(* Signals.                                                                *)

StopSig ==
    /\ ~stopSoon
    /\ stopSoon' = TRUE
    /\ UNCHANGED <<pc, cur, dbVars, runVars, skipRequested, skipTaken, libVars,
                   rsgVars, comVars>>

SkipReq ==
    /\ SkipSignals
    /\ skipRequested' = TRUE
    /\ UNCHANGED <<pc, cur, dbVars, runVars, skipTaken, stopSoon, libVars,
                   rsgVars, comVars>>

Stopped == pc = "stopped" /\ UNCHANGED vars

-----------------------------------------------------------------------------
MainStep ==
    \/ EnterEntry
    \/ \E f \in Faults, c \in Conns, applied \in BOOLEAN, system \in BOOLEAN,
          own \in Coms \cup {NoCom} : RunTarget(f, c, applied, system, own)
    \/ EndOfExecute \/ CommonFuzzStuff
    \/ \E interesting \in BOOLEAN : SaveIfInteresting(interesting)
    \/ Record \/ Generate \/ LoopEnds
    \/ ParseFails \/ StopAtStatement \/ Validate
    \/ Abandon

Next == MainStep \/ StopSig \/ SkipReq \/ Stopped

Spec == Init /\ [][Next]_vars

(* The fuzzer is scheduled; that execute returns is ExecutionReturns of    *)
(* module MysqlClient.                                                     *)
FairSpec == Spec /\ WF_vars(MainStep)

-----------------------------------------------------------------------------
(* Properties.                                                             *)

(* The session that the next statement finds is what a replay of           *)
(* full_valid_input would rebuild: without it a crash could not be         *)
(* replayed, and a reset would change what later statements see.  It takes *)
(* a session without a reset that no death of mysqld has made unsound, of  *)
(* an input without system-level effects and without SIGUSR1.              *)
SessionIsReplay ==
    pc = "generate" /\ ~isReset /\ conn = "sound" /\ ~stopSoon
       /\ ~SystemEffects /\ ~SkipSignals
        => session = fullValid

(* What is in full_valid_input has at least taken effect on a sound        *)
(* session, whatever the signals and the effects of its statements.        *)
ValidInEffect ==
    pc \in {"generate", "parse"} /\ ~isReset /\ conn = "sound"
        => fullValid \subseteq session

(* Names in the data library come from statements that a reset replays.    *)
LibraryIsReplayed ==
    pc = "generate" /\ ~stopSoon /\ ~SkipSignals => lib \subseteq fullValid

(* No input is abandoned for its timeouts: with the count reset for each   *)
(* input, 24 statements that count twice stay below the limit.             *)
TimeoutsNeverAbandon == subseqTmouts =< TmoutLimit

(* One derivation is rewarded or punished once.                            *)
CreditedOnce == pathCredits =< 1

(* "Users can hit us with SIGUSR1 to request the current input to be       *)
(* abandoned": once the request is consumed, no statement of the input     *)
(* runs.                                                                   *)
SkipAbandonsInput == pc = "run" => ~skipTaken

(* "The successfully generated and executed queries would be saved":       *)
(* a derivation is saved only if its statement has run.                    *)
SavedPathsRan == ~savedUnrun

(* last_sqlcom is the "SQLCOM of last exec": a statement that ran without  *)
(* a fault on a sound session leaves its own command, or none if mysqld    *)
(* could not parse it.                                                     *)
SqlcomIsOwn ==
    pc = "ecs" /\ fault = "none" /\ conn = "sound" /\ lastCom # NoCom
        => lastCom = ownCom

(* Every input comes to its end.                                           *)
EntryEnds == (pc = "run") ~> (pc \in {"enter", "stopped"})

(* Without signals and system-level effects the loop implements a replay   *)
(* log: a statement is logged in the very step in which it takes effect.   *)
(* A session that is not sound counts as lost until a reset rebuilds it.   *)
Logged == IF pc \in {"ecs", "common", "save", "record"}
             /\ (cur = 0 \/ ~resError)
          THEN fullValid \cup {cur} ELSE fullValid
Fresh == stopSoon \/ pc = "enter"
Lost == Fresh \/ isReset \/ conn # "sound"
Replay == INSTANCE ReplayLog WITH
              log <- IF Fresh THEN {} ELSE Logged,
              lost <- Lost,
              session <- IF Lost THEN {} ELSE session

ImplementsReplayLog == Replay!RSpec
=============================================================================
