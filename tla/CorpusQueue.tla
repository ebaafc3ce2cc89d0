---------------------------- MODULE CorpusQueue ----------------------------
(***************************************************************************)
(* The seed queue of afl-fuzz.cpp: perform_dry_run calibrates the seeds    *)
(* and lets them compete for the bytes of the coverage map (top_rated,     *)
(* update_bitmap_score); cull_queue marks favored entries; the main loop   *)
(* walks the queue for ever, and fuzz_one appends what it finds.           *)
(*                                                                         *)
(* Entries are numbered in queue order; 0 is the null entry.  The value of *)
(* a map byte is abstracted to whether it is set, and exec_us * len to one *)
(* number per entry.  The map is shared memory that mysqld writes, also    *)
(* from its background threads, so it may change while the fuzzer reads it.*)
(***************************************************************************)
EXTENDS Integers, FiniteSets

CONSTANTS
    NumSeeds,        \* entries that read_testcases found
    MaxQueue,        \* bound: entries ever
    NumBits,         \* bytes of the coverage map (MAP_SIZE)
    Factors,         \* values of exec_us * len
    TimeoutGiven,    \* timeout_given: 0 without -t, 1 for -t n, 2 for -t n+
    SkipCrashes      \* AFL_SKIP_CRASHES

ASSUME SizeAssumption ==
    /\ NumSeeds \in Nat \ {0} /\ MaxQueue \in Nat /\ NumSeeds =< MaxQueue
    /\ NumBits \in Nat
ASSUME FactorAssumption == Factors # {} /\ Factors \subseteq Nat
ASSUME OptionAssumption ==
    TimeoutGiven \in 0 .. 2 /\ SkipCrashes \in BOOLEAN

Entries == 1 .. MaxQueue
Bits == 1 .. NumBits
CalChances == 3                      \* CAL_CHANCES
Faults == {"none", "tmout", "crash", "noinst", "nobits"}

VARIABLES
    pc,               \* where main is
    queued,           \* queued_paths: entries 1 .. queued are in the queue
    queueCur,         \* the entry at hand, in the dry run and the main loop
    res,              \* local variable of perform_dry_run; "junk" until set
    outcome,          \* history: what calibrate_case returned for an entry
    calFailed,        \* cal_failed of each entry
    tmoutSeed,        \* entries with is_timeout
    wasFuzzed,        \* entries with was_fuzzed
    favored,          \* entries with favored
    factor,           \* exec_us * len of each entry
    topRated,         \* top_rated
    tcRef,            \* tc_ref of each entry
    traceMini,        \* trace_mini of each entry; {} is NULL
    trace,            \* trace_bits
    disturbed,        \* history: did the map change while a seed was scored?
    bit,              \* loop variable i of update_bitmap_score and cull_queue
    tempV,            \* temp_v: bytes that no favored entry covers yet
    scoreChanged,     \* score_changed
    queuedFavored, pendingFavored, pendingNotFuzzed,
    calFailures,      \* cal_failures
    stopSoon          \* stop_soon

seedVars == <<res, outcome, calFailed, tmoutSeed, calFailures>>
scoreVars == <<factor, topRated, tcRef, traceMini, scoreChanged>>
cullVars == <<favored, tempV, queuedFavored, pendingFavored>>
mapVars == <<trace, disturbed>>
vars == <<pc, queued, queueCur, wasFuzzed, pendingNotFuzzed, bit, stopSoon,
          seedVars, scoreVars, cullVars, mapVars>>

PCs == {"seed", "score", "judge", "firstCull", "cull", "next", "fuzz",
        "stopped", "fatal"}

FlagTypeOK ==
    /\ disturbed \in BOOLEAN
    /\ scoreChanged \in BOOLEAN
    /\ stopSoon \in BOOLEAN

DataTypeOK ==
    /\ pc \in PCs
    /\ queued \in NumSeeds .. MaxQueue
    /\ queueCur \in 0 .. MaxQueue
    /\ res \in Faults \cup {"junk"}
    /\ outcome \in [Entries -> Faults \cup {"notRun"}]
    /\ calFailed \in [Entries -> 0 .. CalChances]
    /\ tmoutSeed \subseteq Entries
    /\ wasFuzzed \subseteq Entries
    /\ favored \subseteq Entries
    /\ factor \in [Entries -> Nat]
    /\ topRated \in [Bits -> 0 .. MaxQueue]
    /\ traceMini \in [Entries -> SUBSET Bits]
    /\ trace \subseteq Bits
    /\ bit \in 0 .. NumBits + 1
    /\ tempV \subseteq Bits
    /\ calFailures \in 0 .. NumSeeds

(* The counters are u32 in the code, incremented and decremented far apart. *)
CountersIn(S) ==
    /\ tcRef \in [Entries -> S]
    /\ queuedFavored \in S
    /\ pendingFavored \in S
    /\ pendingNotFuzzed \in S

TypeOK == FlagTypeOK /\ DataTypeOK /\ CountersIn(Nat)

Init ==
    /\ pc = "seed" /\ queued = NumSeeds /\ queueCur = 1
    /\ res = "junk" /\ outcome = [q \in Entries |-> "notRun"]
    /\ calFailed = [q \in Entries |-> 0]
    /\ tmoutSeed = {} /\ wasFuzzed = {} /\ favored = {}
    /\ factor = [q \in Entries |-> 0]
    /\ topRated = [i \in Bits |-> 0]
    /\ tcRef = [q \in Entries |-> 0]
    /\ traceMini = [q \in Entries |-> {}]
    /\ trace = {} /\ disturbed = FALSE /\ bit = 0 /\ tempV = {}
    /\ scoreChanged = FALSE
    /\ queuedFavored = 0 /\ pendingFavored = 0 /\ pendingNotFuzzed = NumSeeds
    /\ calFailures = 0 /\ stopSoon = FALSE

-----------------------------------------------------------------------------
(* perform_dry_run and calibrate_case.                                     *)

(* The seed does not pass the parser: it is not run, and res is not set.   *)
SeedUnparsable ==
    /\ pc = "seed"
    /\ pc' = "judge"
    /\ UNCHANGED <<queued, queueCur, wasFuzzed, pendingNotFuzzed, mapVars, bit,
                   stopSoon, seedVars, scoreVars, cullVars>>

(* calibrate_case gives up: the run faulted or set no byte of the map, or  *)
(* the fuzzer was told to stop meanwhile.                                  *)
CalibrationFails(fault) ==
    /\ pc = "seed"
    /\ fault \in {"tmout", "crash", "noinst"} \/ (stopSoon /\ fault = "none")
    /\ calFailed' = [calFailed EXCEPT ![queueCur] = @ + 1]
    /\ res' = fault
    /\ outcome' = [outcome EXCEPT ![queueCur] = fault]
    /\ pc' = "judge"
    /\ UNCHANGED <<queued, queueCur, wasFuzzed, pendingNotFuzzed, mapVars, bit,
                   stopSoon, tmoutSeed, calFailures, scoreVars, cullVars>>

(* calibrate_case measures the seed and enters update_bitmap_score; the    *)
(* result is FAULT_NOBITS when the map showed nothing new.                 *)
Calibrate(fault, newTrace, newFactor) ==
    /\ pc = "seed"
    /\ ~stopSoon
    /\ fault \in {"none", "nobits"}
    /\ newTrace # {}
    /\ trace' = newTrace
    /\ factor' = [factor EXCEPT ![queueCur] = newFactor]
    /\ calFailed' = [calFailed EXCEPT ![queueCur] = 0]
    /\ res' = fault
    /\ outcome' = [outcome EXCEPT ![queueCur] = fault]
    /\ bit' = 1
    /\ pc' = "score"
    /\ UNCHANGED <<queued, queueCur, wasFuzzed, pendingNotFuzzed, disturbed,
                   stopSoon, tmoutSeed, calFailures, topRated, tcRef, traceMini,
                   scoreChanged, cullVars>>

(* One byte of the map that the entry wins: the entry that held it loses a *)
(* reference, and its compressed trace with the last one; the winner       *)
(* compresses the map as it is now if it has not done so yet.              *)
Wins(q, i) ==
    i \in trace /\ (topRated[i] # 0 => factor[q] =< factor[topRated[i]])

HolderKeepsRef(i) == tcRef                                       \* mutant
RefsWithoutHolder(i) ==
    IF topRated[i] = 0 THEN tcRef
                       ELSE [tcRef EXCEPT ![topRated[i]] = @ - 1]

TracesFreedEarly(i) ==                                           \* mutant
    IF topRated[i] = 0 THEN traceMini
                       ELSE [traceMini EXCEPT ![topRated[i]] = {}]
TracesWithoutHolder(i) ==
    IF topRated[i] # 0 /\ RefsWithoutHolder(i)[topRated[i]] = 0
    THEN [traceMini EXCEPT ![topRated[i]] = {}]
    ELSE traceMini

ScoreByte ==
    /\ pc = "score"
    /\ bit =< NumBits
    /\ Wins(queueCur, bit)
    /\ topRated' = [topRated EXCEPT ![bit] = queueCur]
    /\ tcRef' = [RefsWithoutHolder(bit) EXCEPT ![queueCur] = @ + 1]
    /\ traceMini' = IF TracesWithoutHolder(bit)[queueCur] = {}
                    THEN [TracesWithoutHolder(bit) EXCEPT ![queueCur] = trace]
                    ELSE TracesWithoutHolder(bit)
    /\ scoreChanged' = TRUE
    /\ bit' = bit + 1
    /\ UNCHANGED <<pc, queued, queueCur, wasFuzzed, pendingNotFuzzed, mapVars,
                   stopSoon, seedVars, factor, cullVars>>

SkipByte ==
    /\ pc = "score"
    /\ bit =< NumBits
    /\ ~Wins(queueCur, bit)
    /\ bit' = bit + 1
    /\ UNCHANGED <<pc, queued, queueCur, wasFuzzed, pendingNotFuzzed, mapVars,
                   stopSoon, seedVars, scoreVars, cullVars>>

Scored ==
    /\ pc = "score"
    /\ bit > NumBits
    /\ bit' = 0
    /\ pc' = "judge"
    /\ UNCHANGED <<queued, queueCur, wasFuzzed, pendingNotFuzzed, mapVars,
                   stopSoon, seedVars, scoreVars, cullVars>>

(* A background thread of mysqld sets a byte of the map. *)
MysqldWrites(i) ==
    /\ pc = "score"
    /\ i \notin trace
    /\ trace' = trace \cup {i}
    /\ disturbed' = TRUE
    /\ UNCHANGED <<pc, queued, queueCur, wasFuzzed, pendingNotFuzzed, bit,
                   stopSoon, seedVars, scoreVars, cullVars>>

(* The seeds that count as failures of the dry run.                        *)
Rejects(fault) == \/ fault = "tmout" /\ TimeoutGiven # 1
                  \/ fault = "crash" /\ SkipCrashes

(* The switch on res, where a res that was never set may hold any value,   *)
(* and the step to the next seed.  After the last one the run goes on      *)
(* unless every seed was rejected.                                         *)
Judge(fault) ==
    /\ pc = "judge"
    /\ res = "junk" \/ fault = res
    /\ IF stopSoon
       THEN /\ pc' = "firstCull"
            /\ UNCHANGED <<calFailed, tmoutSeed, calFailures, queueCur>>
       ELSE /\ calFailed' = IF Rejects(fault)
                            THEN [calFailed EXCEPT ![queueCur] = CalChances]
                            ELSE calFailed
            /\ tmoutSeed' = IF fault = "tmout" /\ TimeoutGiven =< 1
                            THEN tmoutSeed \cup {queueCur} ELSE tmoutSeed
            /\ calFailures' = IF Rejects(fault) THEN calFailures + 1
                                                ELSE calFailures
            /\ queueCur' = IF queueCur = queued THEN 0 ELSE queueCur + 1
            /\ pc' = CASE queueCur < queued -> "seed"
                       [] queueCur = queued /\ calFailures' = queued -> "fatal"
                       [] OTHER -> "firstCull"
    /\ UNCHANGED <<queued, wasFuzzed, pendingNotFuzzed, mapVars, bit, stopSoon,
                   res, outcome, scoreVars, cullVars>>

-----------------------------------------------------------------------------
(* cull_queue, from its test of score_changed through the loop over the    *)
(* map.  main culls once after the dry run, where it may have to stop, and *)
(* then before every entry.                                                *)

AfterCull == CASE pc = "cull" -> "next"
               [] pc = "firstCull" /\ stopSoon -> "stopped"
               [] OTHER -> "cull"

CullNothing ==
    /\ pc \in {"firstCull", "cull"}
    /\ bit = 0 /\ ~scoreChanged
    /\ pc' = AfterCull
    /\ UNCHANGED <<queued, queueCur, wasFuzzed, pendingNotFuzzed, mapVars, bit,
                   stopSoon, seedVars, scoreVars, cullVars>>

CullStart ==
    /\ pc \in {"firstCull", "cull"}
    /\ bit = 0 /\ scoreChanged
    /\ scoreChanged' = FALSE
    /\ tempV' = Bits
    /\ favored' = {} /\ queuedFavored' = 0 /\ pendingFavored' = 0
    /\ bit' = 1
    /\ UNCHANGED <<pc, queued, queueCur, wasFuzzed, pendingNotFuzzed, mapVars,
                   stopSoon, seedVars, factor, topRated, tcRef, traceMini>>

(* A byte that no favored entry has covered makes its holder favored.      *)
CoveredToo(i) == topRated[i] # 0                                 \* mutant
StillOpen(i) == topRated[i] # 0 /\ i \in tempV

KeepsCovered(i) == tempV \cap traceMini[topRated[i]]             \* mutant
LeftOpen(i) == tempV \ traceMini[topRated[i]]

FavorHolder ==
    /\ pc \in {"firstCull", "cull"}
    /\ bit \in Bits
    /\ StillOpen(bit)
    /\ tempV' = LeftOpen(bit)
    /\ favored' = favored \cup {topRated[bit]}
    /\ queuedFavored' = queuedFavored + 1
    /\ pendingFavored' = IF topRated[bit] \in wasFuzzed THEN pendingFavored
                                                        ELSE pendingFavored + 1
    /\ bit' = bit + 1
    /\ UNCHANGED <<pc, queued, queueCur, wasFuzzed, pendingNotFuzzed, mapVars,
                   stopSoon, seedVars, scoreVars>>

PassByte ==
    /\ pc \in {"firstCull", "cull"}
    /\ bit \in Bits
    /\ ~StillOpen(bit)
    /\ bit' = bit + 1
    /\ UNCHANGED <<pc, queued, queueCur, wasFuzzed, pendingNotFuzzed, mapVars,
                   stopSoon, seedVars, scoreVars, cullVars>>

CullEnd ==
    /\ pc \in {"firstCull", "cull"}
    /\ bit > NumBits
    /\ bit' = 0
    /\ pc' = AfterCull
    /\ UNCHANGED <<queued, queueCur, wasFuzzed, pendingNotFuzzed, mapVars,
                   stopSoon, seedVars, scoreVars, cullVars>>

CullQueue == CullNothing \/ CullStart \/ FavorHolder \/ PassByte \/ CullEnd

-----------------------------------------------------------------------------
(* The main loop and fuzz_one.                                             *)

(* The end of the queue starts a new cycle.                                *)
LastEntry == queued                                              \* mutant
EntryToFuzz == IF queueCur = 0 THEN 1 ELSE queueCur

FuzzEntry ==
    /\ pc = "next"
    /\ queueCur' = EntryToFuzz
    /\ pc' = "fuzz"
    /\ UNCHANGED <<queued, wasFuzzed, pendingNotFuzzed, mapVars, bit, stopSoon,
                   seedVars, scoreVars, cullVars>>

(* save_if_interesting appends an entry; it does not calibrate it.         *)
AddToQueue ==
    /\ pc = "fuzz"
    /\ queued < MaxQueue
    /\ queued' = queued + 1
    /\ pendingNotFuzzed' = pendingNotFuzzed + 1
    /\ UNCHANGED <<pc, queueCur, wasFuzzed, mapVars, bit, stopSoon, seedVars,
                   scoreVars, cullVars>>

(* Does the entry leave the pending ones, now that fuzz_one is done?       *)
CountedAgain == ~stopSoon /\ calFailed[queueCur] = 0             \* mutant
NowFuzzed == ~stopSoon /\ calFailed[queueCur] = 0 /\ queueCur \notin wasFuzzed

FavoredOrNot == TRUE                                             \* mutant
WasPendingFavorite == queueCur \in favored

(* abandon_entry, and the step of main to the next entry.                  *)
EndEntry ==
    /\ pc = "fuzz"
    /\ IF NowFuzzed
       THEN /\ wasFuzzed' = wasFuzzed \cup {queueCur}
            /\ pendingNotFuzzed' = pendingNotFuzzed - 1
            /\ pendingFavored' = IF WasPendingFavorite THEN pendingFavored - 1
                                                       ELSE pendingFavored
       ELSE UNCHANGED <<wasFuzzed, pendingNotFuzzed, pendingFavored>>
    /\ IF stopSoon
       THEN pc' = "stopped" /\ UNCHANGED queueCur
       ELSE /\ pc' = "cull"
            /\ queueCur' = IF queueCur = queued THEN 0 ELSE queueCur + 1
    /\ UNCHANGED <<queued, mapVars, bit, stopSoon, seedVars, scoreVars, favored,
                   tempV, queuedFavored>>

(* SIGINT and its like. *)
StopSig ==
    /\ ~stopSoon
    /\ pc \notin {"stopped", "fatal"}
    /\ stopSoon' = TRUE
    /\ UNCHANGED <<pc, queued, queueCur, wasFuzzed, pendingNotFuzzed, mapVars,
                   bit, seedVars, scoreVars, cullVars>>

Exited == pc \in {"stopped", "fatal"} /\ UNCHANGED vars

MainStep ==
    \/ SeedUnparsable
    \/ \E fault \in Faults : CalibrationFails(fault)
    \/ \E fault \in Faults, newTrace \in SUBSET Bits, f \in Factors :
            Calibrate(fault, newTrace, f)
    \/ ScoreByte \/ SkipByte \/ Scored
    \/ \E fault \in Faults : Judge(fault)
    \/ CullQueue \/ FuzzEntry \/ EndEntry

Next ==
    \/ MainStep
    \/ AddToQueue
    \/ \E i \in Bits : MysqldWrites(i)
    \/ StopSig
    \/ Exited

Spec == Init /\ [][Next]_vars

(* The fuzzer is scheduled, and fuzz_one ends: its loop runs 23 times.     *)
FairSpec == Spec /\ WF_vars(MainStep)

-----------------------------------------------------------------------------
(* Properties.                                                             *)

(* tc_ref counts the bytes an entry holds, at every step of every loop:    *)
(* update_bitmap_score moves references one byte at a time.                *)
RefCounts ==
    \A q \in Entries : tcRef[q] = Cardinality({i \in Bits : topRated[i] = q})

(* Whoever holds a byte has its compressed trace, which cull_queue reads   *)
(* without a test; and a trace is kept for holders only.                   *)
HoldersKeepTrace ==
    \A q \in Entries :
        (\E i \in Bits : topRated[i] = q) <=> traceMini[q] # {}

(* The favored entries between them stand for every byte that any          *)
(* calibrated seed has set.                                                *)
FavoredCover ==
    pc \in {"next", "fuzz"} => 
        \A i \in Bits : topRated[i] # 0 =>
            \E q \in favored : i \in traceMini[q] \/ topRated[i] = q

(* queued_favored ("Paths deemed favorable") and pending_favored ("Pending *)
(* favored paths") count entries, though cull_queue adds one per byte ...  *)
FavoredCounted ==
    /\ queuedFavored = Cardinality(favored)
    /\ pendingFavored = Cardinality(favored \ wasFuzzed)

(* ... which comes to the same as long as no map changed while its seed    *)
(* was scored: the holder of a byte then has that byte in its trace.       *)
FavoredCountedIfQuiet == ~disturbed => FavoredCounted

(* pending_not_fuzzed counts the entries that fuzz_one has yet to finish.  *)
PendingCounted == pendingNotFuzzed = queued - Cardinality(wasFuzzed)

(* An entry is marked "Is timeout test cases" only if it was run and timed *)
(* out in the dry run.                                                     *)
TimeoutSeedsTimedOut == \A q \in tmoutSeed : outcome[q] = "tmout"

(* No entry starves: whatever passes calibration, or was found later, is   *)
(* fuzzed unless the fuzzer stops, however many entries are added behind.  *)
EntriesAreFuzzed ==
    \A q \in Entries :
        (pc = "next" /\ q =< queued /\ calFailed[q] = 0)
            ~> (q \in wasFuzzed \/ stopSoon)
=============================================================================
