--------------------------- MODULE FuzzOneProofs ---------------------------
(***************************************************************************)
(* Proofs about FuzzOne for every number of statements and every limit     *)
(* that LimitAssumption allows.                                            *)
(***************************************************************************)
EXTENDS FuzzOne, TLAPS

(* Everything an action mentions in its UNCHANGED. *)
USE DEF dbVars, runVars, sigVars, libVars, rsgVars, comVars

-----------------------------------------------------------------------------
(* Type correctness.                                                       *)

(* The start state has the types.                                          *)
LEMMA InitType == Init => TypeOK
<1>1. Init => FlagTypeOK
    BY DEF Init, FlagTypeOK
<1>2. Init => DataTypeOK
    BY StageAssumption
       DEF Init, DataTypeOK, PCs, Statements, Faults, Conns, Coms
<1>3. QED
    BY <1>1, <1>2 DEF TypeOK

(* Each step of the loop keeps the types of the numbers, sets and states;  *)
(* only Generate moves on to another statement, below StageMax ...         *)
LEMMA NextDataType == DataTypeOK /\ [Next]_vars => DataTypeOK'
<1> SUFFICES ASSUME DataTypeOK, [Next]_vars PROVE DataTypeOK'
    OBVIOUS
<1> USE DEF DataTypeOK
<1>1. CASE EnterEntry
    BY <1>1, StageAssumption DEF EnterEntry, TmoutsCleared, PCs, Statements
<1>2. ASSUME NEW f \in Faults, NEW c \in Conns, NEW applied \in BOOLEAN,
             NEW system \in BOOLEAN, NEW own \in Coms \cup {NoCom},
             RunTarget(f, c, applied, system, own)
      PROVE  DataTypeOK'
    <2>1. lastCom' \in Coms \cup {NoCom}
        BY <1>2 DEF RunTarget, LeftInMap
    <2>2. session' \subseteq Statements /\ systemDone' \subseteq Statements
        BY <1>2 DEF RunTarget, Replayed
    <2>3. /\ pc' \in PCs /\ fault' \in Faults /\ conn' \in Conns
          /\ ownCom' \in Coms \cup {NoCom}
        BY <1>2 DEF RunTarget, PCs
    <2>4. UNCHANGED <<cur, fullValid, subseqTmouts, lib, libBackup, pathOf,
                      pathCredits>>
        BY <1>2 DEF RunTarget
    <2>5. QED
        BY <2>1, <2>2, <2>3, <2>4
<1>3. CASE EndOfExecute
    BY <1>3 DEF EndOfExecute, CountTmout, PCs
<1>4. CASE CommonFuzzStuff
    BY <1>4 DEF CommonFuzzStuff, CountTmout, PCs
<1>5. ASSUME NEW interesting \in BOOLEAN, SaveIfInteresting(interesting)
      PROVE  DataTypeOK'
    BY <1>5, StageAssumption
       DEF SaveIfInteresting, PathCleared, PCs, Statements
<1>6. CASE Record
    BY <1>6 DEF Record, RolledBack, PCs
<1>7. CASE Generate
    BY <1>7, StageAssumption
       DEF Generate, MoreStatements, NextStatement, PCs, Statements
<1>8. CASE LoopEnds \/ ParseFails \/ StopAtStatement \/ Abandon
    BY <1>8 DEF LoopEnds, ParseFails, StopAtStatement, Abandon, PCs
<1>9. CASE Validate
    BY <1>9 DEF Validate, Backup, PCs
<1>10. CASE StopSig \/ SkipReq
    BY <1>10 DEF StopSig, SkipReq
<1>11. CASE UNCHANGED vars
    BY <1>11 DEF vars
<1>12. QED
    BY <1>1, <1>2, <1>3, <1>4, <1>5, <1>6, <1>7, <1>8, <1>9, <1>10, <1>11
       DEF Next, MainStep, Stopped

(* ... and those of the flags.                                             *)
LEMMA NextFlagType == FlagTypeOK /\ [Next]_vars => FlagTypeOK'
<1> SUFFICES ASSUME FlagTypeOK, [Next]_vars PROVE FlagTypeOK'
    OBVIOUS
<1> USE DEF FlagTypeOK
<1>1. CASE EnterEntry
    BY <1>1 DEF EnterEntry
<1>2. ASSUME NEW f \in Faults, NEW c \in Conns, NEW applied \in BOOLEAN,
             NEW system \in BOOLEAN, NEW own \in Coms \cup {NoCom},
             RunTarget(f, c, applied, system, own)
      PROVE  FlagTypeOK'
    BY <1>2 DEF RunTarget, Results, ReplayFails
<1>3. CASE EndOfExecute
    BY <1>3 DEF EndOfExecute, NeedsReset
<1>4. CASE CommonFuzzStuff
    BY <1>4 DEF CommonFuzzStuff
<1>5. ASSUME NEW interesting \in BOOLEAN, SaveIfInteresting(interesting)
      PROVE  FlagTypeOK'
    BY <1>5 DEF SaveIfInteresting
<1>6. CASE Record \/ Generate \/ Validate
    BY <1>6 DEF Record, Generate, Validate
<1>7. CASE LoopEnds \/ ParseFails \/ StopAtStatement \/ Abandon
    BY <1>7 DEF LoopEnds, ParseFails, StopAtStatement, Abandon
<1>8. CASE StopSig \/ SkipReq
    BY <1>8 DEF StopSig, SkipReq
<1>9. CASE UNCHANGED vars
    BY <1>9 DEF vars
<1>10. QED
    BY <1>1, <1>2, <1>3, <1>4, <1>5, <1>6, <1>7, <1>8, <1>9
       DEF Next, MainStep, Stopped

(* Every state of the statement loop has its type, for any number of       *)
(* statements and whatever signals arrive.                                 *)
THEOREM TypeCorrect == Spec => []TypeOK
<1>1. QED
    BY InitType, NextDataType, NextFlagType, PTL DEF Spec, TypeOK

-----------------------------------------------------------------------------
(* Timeouts.                                                               *)
(*                                                                         *)
(* TimeoutsNeverAbandon is not inductive: one more increment would break   *)
(* it.  TmoutInv bounds the count by twice the statements run so far.      *)

AfterRun == {"ecs", "common", "save", "record"}

Counted == CASE pc \in {"run", "parse", "ecs"} -> 2 * cur
             [] pc = "common" -> 2 * cur + 1
             [] OTHER -> 2 * cur + 2

TmoutInv == subseqTmouts =< Counted

(* At the start of the fuzzer nothing has timed out.                       *)
LEMMA InitTmout == Init => TmoutInv
  BY DEF Init, TmoutInv, Counted

(* Each pass of a statement through execute_cmd_string and                 *)
(* common_fuzz_stuff adds at most two.                                     *)
LEMMA NextTmout == DataTypeOK /\ TmoutInv /\ [Next]_vars => TmoutInv'
<1> SUFFICES ASSUME DataTypeOK, TmoutInv, [Next]_vars PROVE TmoutInv'
    OBVIOUS
<1>0. cur \in Nat /\ subseqTmouts \in Nat
    BY StageAssumption DEF DataTypeOK, Statements
<1> USE <1>0 DEF TmoutInv, Counted
<1>1. CASE EnterEntry
    BY <1>1 DEF EnterEntry, TmoutsCleared
<1>2. ASSUME NEW f \in Faults, NEW c \in Conns, NEW applied \in BOOLEAN,
             NEW system \in BOOLEAN, NEW own \in Coms \cup {NoCom},
             RunTarget(f, c, applied, system, own)
      PROVE  TmoutInv'
    BY <1>2 DEF RunTarget
<1>3. CASE EndOfExecute
    BY <1>3 DEF EndOfExecute, CountTmout
<1>4. CASE CommonFuzzStuff
    BY <1>4 DEF CommonFuzzStuff, CountTmout
<1>5. ASSUME NEW interesting \in BOOLEAN, SaveIfInteresting(interesting)
      PROVE  TmoutInv'
    BY <1>5 DEF SaveIfInteresting
<1>6. CASE Record
    BY <1>6 DEF Record
<1>7. CASE Generate
    BY <1>7 DEF Generate, NextStatement
<1>8. CASE LoopEnds \/ ParseFails \/ StopAtStatement \/ Abandon
    BY <1>8 DEF LoopEnds, ParseFails, StopAtStatement, Abandon
<1>9. CASE Validate
    BY <1>9 DEF Validate
<1>10. CASE StopSig \/ SkipReq
    BY <1>10 DEF StopSig, SkipReq
<1>11. CASE UNCHANGED vars
    BY <1>11 DEF vars
<1>12. QED
    BY <1>1, <1>2, <1>3, <1>4, <1>5, <1>6, <1>7, <1>8, <1>9, <1>10, <1>11
       DEF Next, MainStep, Stopped

(* The count stays within the limit of 250 although it is advanced twice   *)
(* for each statement that times out.                                      *)
LEMMA Bounded == DataTypeOK /\ TmoutInv => TimeoutsNeverAbandon
<1> SUFFICES ASSUME DataTypeOK, TmoutInv PROVE subseqTmouts =< TmoutLimit
    BY DEF TimeoutsNeverAbandon
<1>1. cur \in Nat /\ cur =< StageMax /\ subseqTmouts \in Nat
    BY StageAssumption DEF DataTypeOK, Statements
<1>2. Counted =< 2 * cur + 2
    BY <1>1 DEF Counted
<1>3. Counted \in Nat
    BY <1>1 DEF Counted
<1>4. QED
    BY <1>1, <1>2, <1>3, StageAssumption, LimitAssumption DEF TmoutInv

(* No input of the fuzzer is abandoned for its timeouts.                   *)
THEOREM TimeoutsBounded == Spec => []TimeoutsNeverAbandon
<1>1. TypeOK /\ TmoutInv /\ [Next]_vars => TmoutInv'
    BY NextTmout DEF TypeOK
<1>2. TypeOK /\ TmoutInv => TimeoutsNeverAbandon
    BY Bounded DEF TypeOK
<1>3. QED
    BY <1>1, <1>2, InitTmout, TypeCorrect, PTL DEF Spec

-----------------------------------------------------------------------------
(* What is recorded is in effect.                                          *)

(* ValidInEffect, extended over the way from the statement's run to its    *)
(* record, where a reset that is due does not yet concern the session.     *)
EffectInv ==
    /\ pc \in {"run", "generate", "parse"} /\ ~isReset /\ conn = "sound"
            => fullValid \subseteq session
    /\ pc \in AfterRun =>
          /\ fault # "none" => isReset
          /\ conn = "sound" =>
                /\ fullValid \subseteq session
                /\ ~resError => cur \in session
                /\ cur = 0 /\ fault = "none" => cur \in session

(* No statement has been recorded at the start.                            *)
LEMMA InitEffect == Init => EffectInv
  BY DEF Init, EffectInv, AfterRun

(* A statement enters full_valid_input only after it took effect, or with  *)
(* a reset ahead; a reset replays all of full_valid_input.                 *)
LEMMA NextEffect == DataTypeOK /\ EffectInv /\ [Next]_vars => EffectInv'
<1> SUFFICES ASSUME DataTypeOK, EffectInv, [Next]_vars PROVE EffectInv'
    OBVIOUS
<1> USE DEF EffectInv, AfterRun
<1>1. CASE EnterEntry
    BY <1>1 DEF EnterEntry
<1>2. ASSUME NEW f \in Faults, NEW c \in Conns, NEW applied \in BOOLEAN,
             NEW system \in BOOLEAN, NEW own \in Coms \cup {NoCom},
             RunTarget(f, c, applied, system, own)
      PROVE  EffectInv'
    <2>0. c = "sound" => isReset \/ conn = "sound"
        BY <1>2 DEF RunTarget, MayBecome
    <2>1. c = "sound" => fullValid \subseteq Replayed
        BY <2>0, <1>2 DEF RunTarget, Replayed
    <2>2. /\ pc' = "ecs" /\ cur' = cur /\ fullValid' = fullValid
          /\ fault' = f /\ conn' = c
        BY <1>2 DEF RunTarget
    <2>3. c = "sound" =>
            fullValid \subseteq session' /\ (applied => cur \in session')
        BY <2>1, <1>2 DEF RunTarget
    <2>4. f # "none" => isReset'
        BY <1>2 DEF RunTarget
    <2>5. ~resError' => applied
        BY <1>2 DEF RunTarget
    <2>6. cur = 0 /\ f = "none" /\ c = "sound" => applied
        BY <1>2 DEF RunTarget
    <2>7. QED
        BY <2>2, <2>3, <2>4, <2>5, <2>6
<1>3. CASE EndOfExecute
    BY <1>3 DEF EndOfExecute, NeedsReset
<1>4. CASE CommonFuzzStuff
    BY <1>4 DEF CommonFuzzStuff
<1>5. ASSUME NEW interesting \in BOOLEAN, SaveIfInteresting(interesting)
      PROVE  EffectInv'
    BY <1>5 DEF SaveIfInteresting
<1>6. CASE Record
    BY <1>6 DEF Record, ResultIsValid
<1>7. CASE Generate
    BY <1>7 DEF Generate
<1>8. CASE LoopEnds \/ ParseFails \/ StopAtStatement \/ Abandon
    BY <1>8 DEF LoopEnds, ParseFails, StopAtStatement, Abandon
<1>9. CASE Validate
    BY <1>9 DEF Validate
<1>10. CASE StopSig \/ SkipReq
    BY <1>10 DEF StopSig, SkipReq
<1>11. CASE UNCHANGED vars
    BY <1>11 DEF vars
<1>12. QED
    BY <1>1, <1>2, <1>3, <1>4, <1>5, <1>6, <1>7, <1>8, <1>9, <1>10, <1>11
       DEF Next, MainStep, Stopped

(* While no reset is due and the session is sound, every statement of      *)
(* full_valid_input is in effect on it, whatever the signals and the       *)
(* effects of its statements.                                              *)
THEOREM ValidIsInEffect == Spec => []ValidInEffect
<1>1. TypeOK /\ EffectInv /\ [Next]_vars => EffectInv'
    BY NextEffect DEF TypeOK
<1>2. EffectInv => ValidInEffect
    BY DEF EffectInv, ValidInEffect
<1>3. QED
    BY <1>1, <1>2, InitEffect, TypeCorrect, PTL DEF Spec

-----------------------------------------------------------------------------
(* The credit of derivations.                                              *)

(* run_target knows neither of the signals nor of the generator.           *)
LEMMA RunLeaves ==
  ASSUME NEW f, NEW c, NEW applied, NEW system, NEW own,
         RunTarget(f, c, applied, system, own)
  PROVE  UNCHANGED <<sigVars, pathOf, pathCredits>>
  BY DEF RunTarget

(* A derivation still at hand has not been credited.                       *)
CreditInv == pathCredits =< 1 /\ (pathOf # 0 => pathCredits = 0)

(* One derivation is rewarded or punished once: the first verdict forgets  *)
(* it.                                                                     *)
THEOREM CreditOnce == Spec => []CreditedOnce
<1>1. Init => CreditInv
    BY DEF Init, CreditInv
<1>2. CreditInv /\ [Next]_vars => CreditInv'
    <2> SUFFICES ASSUME CreditInv, [Next]_vars PROVE CreditInv'
        OBVIOUS
    <2> USE DEF CreditInv
    <2>1. ASSUME NEW interesting \in BOOLEAN, SaveIfInteresting(interesting)
          PROVE  CreditInv'
        BY <2>1 DEF SaveIfInteresting, PathCleared
    <2>2. CASE Generate
        BY <2>2 DEF Generate
    <2>3. CASE UNCHANGED <<pathOf, pathCredits>>
        BY <2>3
    <2>4. QED
        BY <2>1, <2>2, <2>3, RunLeaves
           DEF Next, MainStep, Stopped, EnterEntry, EndOfExecute,
               CommonFuzzStuff, Record, LoopEnds, ParseFails, StopAtStatement,
               Validate, Abandon, StopSig, SkipReq, vars
<1>3. CreditInv => CreditedOnce
    BY DEF CreditInv, CreditedOnce
<1>4. QED
    BY <1>1, <1>2, <1>3, PTL DEF Spec

-----------------------------------------------------------------------------
(* The session is the replay.                                              *)

(* On the way to the record the session holds full_valid_input and, if the *)
(* result had no error in it, the statement at hand.                       *)
Result == IF resError THEN fullValid ELSE fullValid \cup {cur}

SessionInv ==
    /\ systemDone = {}
    /\ ~stopSoon =>
          /\ pc \in {"run", "generate", "parse"} /\ ~isReset /\ conn = "sound"
                => session = fullValid
          /\ pc \in AfterRun =>
                /\ fault # "none" => isReset
                /\ conn = "sound" =>
                      /\ session = Result
                      /\ cur = 0 /\ resError => fault # "none"
          /\ pc \in {"common", "save", "record"} => (isReset <=> fault # "none")
          /\ pc \in {"save", "record"} => ~bailOut

(* The user never asks for a statement to be skipped.                      *)
NoSkip == ~skipRequested

(* Nothing has run at the start, and no signal has come.                   *)
LEMMA InitSession == Init => SessionInv /\ NoSkip
  BY DEF Init, SessionInv, AfterRun, NoSkip

(* Only SIGUSR1 sets skip_requested.                                       *)
LEMMA NextNoSkip == ASSUME ~SkipSignals PROVE NoSkip /\ [Next]_vars => NoSkip'
  BY RunLeaves
     DEF NoSkip, Next, MainStep, Stopped, EnterEntry, EndOfExecute,
         CommonFuzzStuff, SaveIfInteresting, Record, Generate, LoopEnds,
         ParseFails, StopAtStatement, Validate, Abandon, StopSig, SkipReq, vars

(* Without system-level effects and skip requests each statement leaves    *)
(* the session and full_valid_input the same, or a reset due.              *)
LEMMA NextSession ==
  ASSUME ~SystemEffects
  PROVE  TypeOK /\ TmoutInv /\ NoSkip /\ SessionInv /\ [Next]_vars
            => SessionInv'
<1> SUFFICES ASSUME FlagTypeOK, DataTypeOK, TmoutInv, NoSkip, SessionInv,
                    [Next]_vars
             PROVE  SessionInv'
    BY DEF TypeOK
<1> USE DEF SessionInv, AfterRun, Result
<1>0. ~OverLimit
    <2>1. subseqTmouts =< TmoutLimit
        BY Bounded DEF TimeoutsNeverAbandon
    <2>2. subseqTmouts \in Nat
        BY DEF DataTypeOK
    <2>3. QED
        BY <2>1, <2>2, LimitAssumption, StageAssumption DEF OverLimit
<1>1. CASE EnterEntry
    BY <1>1 DEF EnterEntry
<1>2. ASSUME NEW f \in Faults, NEW c \in Conns, NEW applied \in BOOLEAN,
             NEW system \in BOOLEAN, NEW own \in Coms \cup {NoCom},
             RunTarget(f, c, applied, system, own)
      PROVE  SessionInv'
    <2>1. pc = "run" /\ pc' = "ecs" /\ UNCHANGED <<cur, fullValid, stopSoon>>
        BY <1>2 DEF RunTarget
    <2>2. systemDone' = {}
        BY <1>2 DEF RunTarget
    <2>3. c = "sound" => (resError' <=> ~applied)
        BY <1>2 DEF RunTarget, Results, ReplayFails
    <2>4. ~stopSoon /\ c = "sound" => Replayed = fullValid
        BY <2>1, <1>2 DEF RunTarget, MayBecome, Replayed
    <2>5. ~stopSoon /\ c = "sound"
            => session' = IF applied THEN fullValid \cup {cur} ELSE fullValid
        BY <2>4, <1>2 DEF RunTarget
    <2>6. ~stopSoon /\ c = "sound" => session' = Result'
        BY <2>1, <2>3, <2>5
    <2>7. /\ conn' = c
          /\ fault' # "none" => isReset'
          /\ c = "sound" /\ cur = 0 /\ resError' => fault' # "none"
        BY <1>2, <2>3 DEF RunTarget
    <2>8. QED
        BY <2>1, <2>2, <2>6, <2>7
<1>3. CASE EndOfExecute
    <2>1. ~stopSoon => (isReset' <=> fault # "none")
        BY <1>0, <1>3 DEF EndOfExecute, NeedsReset, NoSkip
    <2>2. pc = "ecs" /\ pc' = "common" /\ UNCHANGED <<cur, fullValid, conn, session,
             systemDone, fault, resError, stopSoon>>
        BY <1>3 DEF EndOfExecute
    <2>3. QED
        BY <2>1, <2>2
<1>4. CASE CommonFuzzStuff
    <2>1. ~stopSoon => ~bailOut'
        BY <1>0, <1>4 DEF CommonFuzzStuff, NoSkip
    <2>2. pc = "common" /\ pc' \in {"save", "record"}
        BY <1>4 DEF CommonFuzzStuff
    <2>3. UNCHANGED <<cur, fullValid, conn, session, systemDone, fault,
                      resError, isReset, stopSoon>>
        BY <1>4 DEF CommonFuzzStuff
    <2>4. QED
        BY <2>1, <2>2, <2>3
<1>5. ASSUME NEW interesting \in BOOLEAN, SaveIfInteresting(interesting)
      PROVE  SessionInv'
    BY <1>5 DEF SaveIfInteresting
<1>6. CASE Record
    <2>1. pc = "record" /\ pc' = "generate"
          /\ UNCHANGED <<cur, conn, session, systemDone, isReset, stopSoon>>
        BY <1>6 DEF Record
    <2>2. ASSUME ~stopSoon, ~isReset, conn = "sound" PROVE fullValid' = Result
        BY <2>1, <2>2, <1>6 DEF Record, ResultIsValid
    <2>3. QED
        BY <2>1, <2>2
<1>7. CASE Generate
    BY <1>7 DEF Generate
<1>8. CASE LoopEnds \/ ParseFails \/ StopAtStatement \/ Abandon
    BY <1>8 DEF LoopEnds, ParseFails, StopAtStatement, Abandon
<1>9. CASE Validate
    BY <1>9 DEF Validate
<1>10. CASE StopSig \/ SkipReq
    BY <1>10 DEF StopSig, SkipReq
<1>11. CASE UNCHANGED vars
    BY <1>11 DEF vars
<1>12. QED
    BY <1>1, <1>2, <1>3, <1>4, <1>5, <1>6, <1>7, <1>8, <1>9, <1>10, <1>11
       DEF Next, MainStep, Stopped

LEMMA SessionInvariance ==
  ASSUME ~SystemEffects, ~SkipSignals
  PROVE  Spec => [](TypeOK /\ NoSkip /\ SessionInv)
<1>1. TypeOK /\ TmoutInv /\ [Next]_vars => TmoutInv'
    BY NextTmout DEF TypeOK
<1>2. Init => NoSkip /\ SessionInv
    BY InitSession
<1>3. TypeOK /\ TmoutInv /\ NoSkip /\ SessionInv /\ [Next]_vars => SessionInv'
    BY NextSession
<1>4. NoSkip /\ [Next]_vars => NoSkip'
    BY NextNoSkip
<1>5. QED
    BY <1>1, <1>2, <1>3, <1>4, InitTmout, TypeCorrect, PTL DEF Spec

(* The session the next statement of an input finds, if it is sound, is    *)
(* what a replay of full_valid_input would rebuild.  The property names its conditions on   *)
(* signals and effects itself, so the theorem needs none.                  *)
THEOREM SessionReplays == Spec => []SessionIsReplay
<1>1. CASE ~SystemEffects /\ ~SkipSignals
    <2>1. Spec => [](TypeOK /\ NoSkip /\ SessionInv)
        BY <1>1, SessionInvariance
    <2>2. TypeOK /\ NoSkip /\ SessionInv => SessionIsReplay
        BY DEF SessionInv, SessionIsReplay
    <2>3. QED
        BY <2>1, <2>2, PTL
<1>2. CASE SystemEffects \/ SkipSignals
    <2>1. SessionIsReplay
        BY <1>2 DEF SessionIsReplay
    <2>2. QED
        BY <2>1, PTL
<1>3. QED
    BY <1>1, <1>2

-----------------------------------------------------------------------------
(* The data library.                                                       *)

(* Between validate and the record the library may be ahead of             *)
(* full_valid_input by the statement at hand; its backup never is.         *)
LibraryInv ==
    ~stopSoon =>
        /\ pc \in {"generate", "parse"} => lib \subseteq fullValid
        /\ pc \in {"run"} \cup AfterRun =>
              /\ lib \subseteq fullValid \cup {cur}
              /\ libBackup \subseteq fullValid
        /\ pc \in {"save", "record"} => ~bailOut

(* pre_validate has yet to run, and the library is empty.                  *)
LEMMA InitLibrary == Init => LibraryInv
  BY DEF Init, LibraryInv, AfterRun

(* A statement that fails takes its names back out of the library, and one *)
(* that does not is recorded in the same step.                             *)
LEMMA NextLibrary ==
  DataTypeOK /\ TmoutInv /\ NoSkip /\ LibraryInv /\ [Next]_vars => LibraryInv'
<1> SUFFICES ASSUME DataTypeOK, TmoutInv, NoSkip, LibraryInv, [Next]_vars
             PROVE  LibraryInv'
    OBVIOUS
<1> USE DEF LibraryInv, AfterRun
<1>0. ~OverLimit
    <2>1. subseqTmouts =< TmoutLimit
        BY Bounded DEF TimeoutsNeverAbandon
    <2>2. subseqTmouts \in Nat
        BY DEF DataTypeOK
    <2>3. QED
        BY <2>1, <2>2, LimitAssumption, StageAssumption DEF OverLimit
<1>1. CASE EnterEntry
    BY <1>1 DEF EnterEntry
<1>2. ASSUME NEW f \in Faults, NEW c \in Conns, NEW applied \in BOOLEAN,
             NEW system \in BOOLEAN, NEW own \in Coms \cup {NoCom},
             RunTarget(f, c, applied, system, own)
      PROVE  LibraryInv'
    <2>1. pc = "run" /\ pc' = "ecs"
          /\ UNCHANGED <<cur, fullValid, stopSoon, lib, libBackup>>
        BY <1>2 DEF RunTarget
    <2>2. QED
        BY <2>1
<1>3. CASE EndOfExecute
    BY <1>3 DEF EndOfExecute
<1>4. CASE CommonFuzzStuff
    <2>1. ~stopSoon => ~bailOut'
        BY <1>0, <1>4 DEF CommonFuzzStuff, NoSkip
    <2>2. pc = "common" /\ pc' \in {"save", "record"}
          /\ UNCHANGED <<cur, fullValid, stopSoon, lib, libBackup>>
        BY <1>4 DEF CommonFuzzStuff
    <2>3. QED
        BY <2>1, <2>2
<1>5. ASSUME NEW interesting \in BOOLEAN, SaveIfInteresting(interesting)
      PROVE  LibraryInv'
    BY <1>5 DEF SaveIfInteresting
<1>6. CASE Record
    BY <1>6 DEF Record, ResultIsValid, RolledBack
<1>7. CASE Generate
    BY <1>7 DEF Generate
<1>8. CASE LoopEnds \/ ParseFails \/ StopAtStatement \/ Abandon
    BY <1>8 DEF LoopEnds, ParseFails, StopAtStatement, Abandon
<1>9. CASE Validate
    BY <1>9 DEF Validate, Backup
<1>10. CASE StopSig \/ SkipReq
    BY <1>10 DEF StopSig, SkipReq
<1>11. CASE UNCHANGED vars
    BY <1>11 DEF vars
<1>12. QED
    BY <1>1, <1>2, <1>3, <1>4, <1>5, <1>6, <1>7, <1>8, <1>9, <1>10, <1>11
       DEF Next, MainStep, Stopped

(* The names in the data library come from statements a reset replays,     *)
(* with or without effects that outlive the reset.                         *)
THEOREM LibraryReplays == Spec => []LibraryIsReplayed
<1>1. CASE ~SkipSignals
    <2>1. TypeOK /\ TmoutInv /\ [Next]_vars => TmoutInv'
        BY NextTmout DEF TypeOK
    <2>2. Init => NoSkip
        BY InitSession
    <2>3. NoSkip /\ [Next]_vars => NoSkip'
        BY <1>1, NextNoSkip
    <2>4. TypeOK /\ TmoutInv /\ NoSkip /\ LibraryInv /\ [Next]_vars => LibraryInv'
        BY NextLibrary DEF TypeOK
    <2>5. LibraryInv => LibraryIsReplayed
        BY DEF LibraryInv, LibraryIsReplayed
    <2>6. QED
        BY <2>1, <2>2, <2>3, <2>4, <2>5, InitTmout, InitLibrary, TypeCorrect,
           PTL DEF Spec
<1>2. CASE SkipSignals
    <2>1. LibraryIsReplayed
        BY <1>2 DEF LibraryIsReplayed
    <2>2. QED
        BY <2>1, PTL
<1>3. QED
    BY <1>1, <1>2

-----------------------------------------------------------------------------
(* Refinement.                                                             *)

(* The fuzzer starts between two inputs, with no log.                      *)
LEMMA InitRefines == Init => Replay!RInit
  BY DEF Init, Replay!RInit, Fresh, Lost

(* A step of the loop is a step of the log or leaves it alone.  A reset is *)
(* lost once it is known to be due; it ends in EndOfExecute, when the      *)
(* statement that made it has come back, and there the session is the log. *)
LEMMA StepRefines ==
  ASSUME ~SystemEffects
  PROVE  TypeOK /\ NoSkip /\ SessionInv /\ [Next]_vars
            => [Replay!RNext]_(Replay!rvars)
<1> SUFFICES ASSUME FlagTypeOK, DataTypeOK, NoSkip, SessionInv, [Next]_vars
             PROVE  [Replay!RNext]_(Replay!rvars)
    BY DEF TypeOK
<1> USE DEF Replay!RNext, Replay!rvars, Fresh, Logged, Lost
<1>1. CASE EnterEntry
    BY <1>1 DEF EnterEntry
<1>2. ASSUME NEW f \in Faults, NEW c \in Conns, NEW applied \in BOOLEAN,
             NEW system \in BOOLEAN, NEW own \in Coms \cup {NoCom},
             RunTarget(f, c, applied, system, own)
      PROVE  [Replay!RNext]_(Replay!rvars)
    <2>1. pc = "run" /\ pc' = "ecs" /\ UNCHANGED <<cur, fullValid, stopSoon>>
        BY <1>2 DEF RunTarget
    <2>2. cur \in Statements
        BY DEF DataTypeOK
    <2>3. isReset' <=> (isReset \/ f # "none")
        BY <1>2 DEF RunTarget
    <2>4. conn' = c /\ (c = "sound" => (resError' <=> ~applied))
        BY <1>2 DEF RunTarget, Results, ReplayFails, SessionInv
    <2>5. ~isReset /\ c = "sound"
            => /\ conn = "sound"
               /\ session' = IF applied THEN session \cup {cur} ELSE session
        BY <1>2 DEF RunTarget, MayBecome, Replayed
    <2>6. cur = 0 /\ f = "none" /\ c = "sound" => applied
        BY <1>2 DEF RunTarget
    <2>7. CASE stopSoon
        BY <2>1, <2>7
    <2>8. CASE ~stopSoon /\ (isReset' \/ c # "sound")
        BY <2>1, <2>2, <2>4, <2>8 DEF Replay!RLose
    <2>9. CASE ~stopSoon /\ ~isReset' /\ c = "sound" /\ applied
        BY <2>1, <2>2, <2>3, <2>4, <2>5, <2>9 DEF Replay!RAccept, Replay!Found
    <2>10. CASE ~stopSoon /\ ~isReset' /\ c = "sound" /\ ~applied
        BY <2>1, <2>3, <2>4, <2>5, <2>6, <2>10 DEF Replay!RReject, Replay!Found
    <2>11. QED
        BY <2>7, <2>8, <2>9, <2>10 DEF FlagTypeOK
<1>3. CASE EndOfExecute
    <2>1. pc = "ecs" /\ pc' = "common" /\ UNCHANGED <<cur, fullValid, conn, session,
             fault, resError, stopSoon>>
        BY <1>3 DEF EndOfExecute
    <2>2. ~stopSoon /\ ~isReset' /\ conn = "sound" => Logged = session
        BY <1>3 DEF EndOfExecute, SessionInv, AfterRun, Result, NoSkip, NeedsReset,
                    OverLimit, Faults, DataTypeOK
    <2>3. CASE stopSoon \/ conn # "sound" \/ (isReset' <=> isReset)
        BY <2>1, <2>3
    <2>4. CASE ~stopSoon /\ conn = "sound" /\ isReset /\ ~isReset'
        BY <2>1, <2>2, <2>4 DEF Replay!RReject, Replay!Found
    <2>5. CASE ~stopSoon /\ conn = "sound" /\ ~isReset /\ isReset'
        BY <2>1, <2>5 DEF Replay!RLose
    <2>6. QED
        BY <2>3, <2>4, <2>5
<1>4. CASE CommonFuzzStuff
    BY <1>4 DEF CommonFuzzStuff
<1>5. ASSUME NEW interesting \in BOOLEAN, SaveIfInteresting(interesting)
      PROVE  [Replay!RNext]_(Replay!rvars)
    BY <1>5 DEF SaveIfInteresting
<1>6. CASE Record
    <2>1. pc = "record" /\ pc' = "generate"
          /\ UNCHANGED <<cur, conn, session, isReset, stopSoon>>
        BY <1>6 DEF Record
    <2>2. ~stopSoon => fullValid' = Logged
        BY <2>1, <1>6 DEF Record, ResultIsValid, SessionInv
    <2>3. QED
        BY <2>1, <2>2
<1>7. CASE Generate
    BY <1>7 DEF Generate
<1>8. CASE LoopEnds \/ ParseFails \/ StopAtStatement
    BY <1>8 DEF LoopEnds, ParseFails, StopAtStatement
<1>9. CASE Validate
    BY <1>9 DEF Validate
<1>10. CASE Abandon
    BY <1>10 DEF Abandon, Replay!RStart
<1>11. CASE StopSig
    BY <1>11 DEF StopSig, Replay!RStart
<1>12. CASE SkipReq
    BY <1>12 DEF SkipReq
<1>13. CASE UNCHANGED vars
    BY <1>13 DEF vars
<1>14. QED
    BY <1>1, <1>2, <1>3, <1>4, <1>5, <1>6, <1>7, <1>8, <1>9, <1>10, <1>11,
       <1>12, <1>13 DEF Next, MainStep, Stopped

(* Without SIGUSR1 and system-level effects the statement loop implements  *)
(* the replay log: nothing outside of full_valid_input is ever visible to  *)
(* a later statement.                                                      *)
THEOREM Refinement ==
  ASSUME ~SystemEffects, ~SkipSignals PROVE Spec => ImplementsReplayLog
<1>1. TypeOK /\ NoSkip /\ SessionInv /\ [Next]_vars
        => [Replay!RNext]_(Replay!rvars)
    BY StepRefines
<1>2. QED
    BY <1>1, InitRefines, SessionInvariance, PTL
       DEF Spec, ImplementsReplayLog, Replay!RSpec
=============================================================================
