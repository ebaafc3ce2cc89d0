------------------------------ MODULE Feedback ------------------------------
(***************************************************************************)
(* What afl-fuzz makes of the two shared segments that mysqld writes into: *)
(* the coverage map and the id of the last command.  run_target clears and *)
(* reads them, has_new_bits compares the map with what earlier executions  *)
(* have covered and takes that out of virgin_bits or virgin_crash, and     *)
(* save_if_interesting keeps the input if something was new.               *)
(*                                                                         *)
(* Background threads of mysqld go on writing into the map after the       *)
(* statement has returned, so has_new_bits reads a map that changes.       *)
(* execute also calls has_new_bits by itself, before it sends a statement, *)
(* and drops the result.                                                   *)
(***************************************************************************)
EXTENDS Integers

CONSTANTS
    NumBytes,       \* MAP_SIZE
    WordSize,       \* bytes that has_new_bits compares at once
    Coms,           \* values of enum_sql_command
    KeepCrashes,    \* KEEP_UNIQUE_CRASH
    MaxWrites       \* bound on background writes during one examination

ASSUME FeedbackAssumption ==
    /\ NumBytes \in Nat \ {0} /\ WordSize \in Nat \ {0}
    /\ KeepCrashes \in Nat /\ MaxWrites \in Nat

\* A byte of the map is a set of bits.  After classify_counts a byte that was
\* counted has one bit, which background writes may change.
Bits == 1..2
Bytes == 1..NumBytes
Maps == [Bytes -> SUBSET Bits]
Words == 0..(NumBytes - 1) \div WordSize
InWord(b, w) == (b - 1) \div WordSize = w
NoCom == "noCom"             \* -1, the sentinel

VARIABLES
    pc,            \* where run_target and its callers are
    calibrating,   \* is the caller calibrate_case, for an entry of the queue?
    fault,         \* what run_target returned
    trace,         \* trace_bits
    virgin,        \* virgin_bits and virgin_crash
    map,           \* which of them has_new_bits is at
    word, ret,     \* i, ret of has_new_bits
    counted,       \* the commands with sqlcom_exec_count > 0
    lastCom,       \* last_sqlcom
    lastIsNew,     \* last_sqlcom_is_new
    crashes,       \* unique_crashes
    writes,        \* history: background writes since the execution
    taken,         \* history: bits this call of has_new_bits took out
    edge,          \* history: did it take out a bit of a byte never hit before?
    dropped,       \* history: bits an examination took out for an input not kept
    keptComs,      \* history: commands first counted for an input that was kept
    lostComs       \* history: ... in an execution that was not examined

scanVars == <<map, word, ret, taken, edge>>
comVars == <<counted, lastCom, lastIsNew>>
keptVars == <<crashes, dropped, keptComs>>
vars == <<pc, calibrating, fault, trace, virgin, writes, lostComs,
          scanVars, comVars, keptVars>>

AllBits == [b \in Bytes |-> Bits]
NoBits == [b \in Bytes |-> {}]

Init ==
    /\ pc = "idle" /\ calibrating = FALSE /\ fault = "none"
    /\ trace = NoBits
    /\ virgin = [bits |-> AllBits, crash |-> AllBits]
    /\ map = "bits" /\ word = 0 /\ ret = 0 /\ taken = NoBits /\ edge = FALSE
    /\ counted = {} /\ lastCom = NoCom /\ lastIsNew = FALSE
    /\ crashes = 0 /\ dropped = [bits |-> NoBits, crash |-> NoBits]
    /\ keptComs = {} /\ lostComs = {}
    /\ writes = 0

(***************************************************************************)
(* run_target: memset, and execute until it is about to send the           *)
(* statement.  The map holds the raw counts that the reset and background  *)
(* threads have left in it since the memset.  execute runs                 *)
(* has_new_bits(virgin_bits) over it and ignores what it returns: all of   *)
(* that stops being new, and nothing is kept for it.                       *)
(***************************************************************************)
ScanEarly ==
    /\ pc = "idle"
    /\ \E before \in Maps :
          virgin' = [virgin EXCEPT !.bits = [b \in Bytes |-> @[b] \ before[b]]]
    /\ pc' = "sent"
    /\ UNCHANGED <<calibrating, fault, trace, writes, lostComs, scanVars,
                   comVars, keptVars>>

(***************************************************************************)
(* The rest of run_target: the statement, the command id, classify_counts. *)
(* The counts go on from those before it, and a byte may wrap to zero.  A  *)
(* second try after kConnectFailed adds to the same map.                   *)
(***************************************************************************)
Classified == [Bytes -> {{}} \cup {{x} : x \in Bits}]

RunTarget ==
    /\ pc = "sent"
    /\ calibrating' \in BOOLEAN
    /\ fault' \in {"none", "tmout", "crash"}
    /\ trace' \in Classified
    /\ lastCom' \in Coms \cup {NoCom}
    /\ lastIsNew' = (lastCom' \in Coms \ counted)
    /\ counted' = counted \cup ({lastCom'} \cap Coms)
    /\ writes' = 0
    /\ pc' = "ran"
    /\ UNCHANGED <<virgin, lostComs, scanVars, keptVars>>

NewCom == IF lastIsNew THEN {lastCom} ELSE {}

\* Back in fuzz_one; the next run_target overwrites all this.
Return ==
    /\ pc' = "idle" /\ calibrating' = FALSE /\ fault' = "none"
    /\ trace' = NoBits /\ writes' = 0
    /\ lastCom' = NoCom /\ lastIsNew' = FALSE
    /\ map' = "bits" /\ word' = 0 /\ ret' = 0 /\ taken' = NoBits /\ edge' = FALSE
    /\ UNCHANGED <<virgin, counted>>

\* execute_cmd_string or common_fuzz_stuff returns early: too many timeouts,
\* SIGUSR1, SIGINT.  A timeout is never kept.
NotExamined ==
    /\ pc = "ran" /\ ~calibrating
    /\ lostComs' = lostComs \cup NewCom
    /\ Return
    /\ UNCHANGED keptVars

\* calibrate_case: a fault, or a map without a byte, or the same checksum as
\* last time.  The entry is in the queue already.
NotCompared ==
    /\ pc = "ran" /\ calibrating
    /\ keptComs' = keptComs \cup NewCom
    /\ Return
    /\ UNCHANGED <<lostComs, crashes, dropped>>

(***************************************************************************)
(* has_new_bits, word by word from the top.                                *)
(***************************************************************************)
LastWord == (NumBytes - 1) \div WordSize

StartScan(m) ==
    /\ map' = m /\ word' = LastWord /\ ret' = 0
    /\ taken' = NoBits /\ edge' = FALSE
    /\ pc' = "word"

Examine ==
    /\ pc = "ran" /\ fault = "none"
    /\ calibrating => trace # NoBits
    /\ StartScan("bits")
    /\ UNCHANGED <<calibrating, fault, trace, virgin, writes, lostComs, comVars, keptVars>>

SimplifyTrace == [b \in Bytes |-> IF trace[b] = {} THEN {1} ELSE {2}]

ExamineCrash ==
    /\ pc = "ran" /\ fault = "crash" /\ ~calibrating
    /\ crashes < KeepCrashes
    /\ trace' = SimplifyTrace
    /\ StartScan("crash")
    /\ UNCHANGED <<calibrating, fault, virgin, writes, lostComs, comVars, keptVars>>

WordBytes == {b \in Bytes : InWord(b, word)}

NextPc == IF word = 0 THEN "scanned" ELSE "word"
PastZero == IF word = -1 THEN "scanned" ELSE "word"               \* mutant
ScanVerdict == NextPc

\* *current & *virgin
CompareWord ==
    /\ pc = "word"
    /\ IF \E b \in WordBytes : trace[b] \cap virgin[map][b] # {}
       THEN pc' = "test" /\ word' = word
       ELSE pc' = ScanVerdict /\ word' = word - 1
    /\ UNCHANGED <<calibrating, fault, trace, virgin, writes, lostComs, map, ret, taken,
                   edge, comVars, keptVars>>

\* cur[k] && vir[k] == 0xff
TestBytes ==
    /\ pc = "test"
    /\ ret' = IF ret = 2 \/ \E b \in WordBytes : trace[b] # {} /\ virgin[map][b] = Bits
              THEN 2 ELSE 1
    /\ pc' = "clear"
    /\ UNCHANGED <<calibrating, fault, trace, virgin, writes, lostComs, map, word, taken,
                   edge, comVars, keptVars>>

\* *virgin &= ~*current
ClearWord ==
    /\ pc = "clear"
    /\ LET clear == [b \in Bytes |-> IF b \in WordBytes THEN trace[b] \cap virgin[map][b]
                                     ELSE {}]
       IN /\ virgin' = [virgin EXCEPT ![map] = [b \in Bytes |-> @[b] \ clear[b]]]
          /\ taken' = [b \in Bytes |-> taken[b] \cup clear[b]]
          /\ edge' = (edge \/ \E b \in WordBytes : clear[b] # {} /\ virgin[map][b] = Bits)
    /\ pc' = ScanVerdict /\ word' = word - 1
    /\ UNCHANGED <<calibrating, fault, trace, writes, lostComs, map, ret, comVars, keptVars>>

\* A thread of mysqld hits an edge.
Background ==
    /\ pc \in {"word", "test", "clear"} /\ writes < MaxWrites
    /\ \E b \in Bytes, value \in SUBSET Bits \ {{}} : trace' = [trace EXCEPT ![b] = value]
    /\ writes' = writes + 1
    /\ UNCHANGED <<pc, calibrating, fault, virgin, lostComs, scanVars, comVars, keptVars>>

(***************************************************************************)
(* save_if_interesting, calibrate_case: the verdict.                       *)
(***************************************************************************)
NewEdges == ret = 2 \/ lastIsNew                                 \* mutant
NewCoverage == ret # 0                                            \* mutant
Interesting == ret # 0 \/ lastIsNew

Drop == [dropped EXCEPT ![map] = [b \in Bytes |-> @[b] \cup taken[b]]]

Verdict ==
    /\ pc = "scanned"
    /\ \/ /\ map = "bits" /\ (calibrating \/ Interesting)
          /\ keptComs' = keptComs \cup NewCom
          /\ UNCHANGED <<crashes, dropped, lostComs>>
       \/ /\ map = "bits" /\ ~calibrating /\ ~Interesting
          /\ dropped' = Drop
          /\ UNCHANGED <<crashes, keptComs, lostComs>>
       \/ /\ map = "crash" /\ ret # 0
          /\ crashes' = crashes + 1
          /\ lostComs' = lostComs \cup NewCom
          /\ UNCHANGED <<dropped, keptComs>>
       \/ /\ map = "crash" /\ ret = 0
          /\ dropped' = Drop
          /\ lostComs' = lostComs \cup NewCom
          /\ UNCHANGED <<crashes, keptComs>>
    /\ Return

Next ==
    \/ ScanEarly \/ RunTarget \/ NotExamined \/ NotCompared \/ Examine \/ ExamineCrash
    \/ CompareWord \/ TestBytes \/ ClearWord \/ Background \/ Verdict

Spec == Init /\ [][Next]_vars

-----------------------------------------------------------------------------
(***************************************************************************)
(* Properties.                                                             *)
(***************************************************************************)
\* The type of the state.
TypeOK ==
    /\ pc \in {"idle", "sent", "ran", "word", "test", "clear", "scanned"}
    /\ calibrating \in BOOLEAN /\ lastIsNew \in BOOLEAN /\ edge \in BOOLEAN
    /\ fault \in {"none", "tmout", "crash"}
    /\ trace \in Maps /\ taken \in Maps
    /\ virgin \in [bits : Maps, crash : Maps]
    /\ dropped \in [bits : Maps, crash : Maps]
    /\ map \in {"bits", "crash"}
    /\ word \in -1..LastWord /\ (pc \in {"word", "test", "clear"} => word \in Words)
    /\ ret \in 0..2
    /\ counted \subseteq Coms /\ keptComs \subseteq Coms /\ lostComs \subseteq Coms
    /\ lastCom \in Coms \cup {NoCom}
    /\ crashes \in 0..KeepCrashes
    /\ writes \in 0..MaxWrites

\* What save_if_interesting and calibrate_case take out of virgin_bits or
\* virgin_crash belongs to an input or a crash that is kept, whatever mysqld
\* writes while has_new_bits looks.  And if mysqld was quiet, an input counts
\* as new coverage (2) exactly if it hit a byte that was never hit.  What
\* execute itself took out before the statement is not meant: see
\* CoveredAfterExec.
CoverageKept ==
    /\ dropped = [bits |-> NoBits, crash |-> NoBits]
    /\ pc = "scanned" /\ writes = 0 => (ret = 2 <=> edge)

\* "This function is called after every exec()": coverage is taken out of
\* virgin_bits when the map of an execution is examined, and at no other time.
CoveredAfterExec == [][virgin'.bits # virgin.bits => pc = "clear"]_vars

\* The first execution of each command is kept, unless it was not examined or
\* ended in a fault; then the command is never new again.
CommandsKept ==
    pc = "idle" => counted = keptComs \cup lostComs /\ keptComs \cap lostComs = {}
=============================================================================
