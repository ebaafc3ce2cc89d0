--------------------------- MODULE FeedbackProofs ---------------------------
(***************************************************************************)
(* Proofs about Feedback for every size of the map and of its words, every *)
(* set of commands and any number of background writes.                    *)
(***************************************************************************)
EXTENDS Feedback, TLAPS

(* Everything an action mentions in its UNCHANGED. *)
USE DEF scanVars, comVars, keptVars

(* The types of the maps ... *)
MapTypes ==
    /\ trace \in Maps /\ taken \in Maps
    /\ virgin \in [bits : Maps, crash : Maps]
    /\ dropped \in [bits : Maps, crash : Maps]
    /\ map \in {"bits", "crash"}

(* ... of the numbers ... *)
NumberTypes ==
    /\ word \in -1..LastWord
    /\ pc \in {"word", "test", "clear"} => word \in 0..LastWord
    /\ ret \in 0..2
    /\ crashes \in 0..KeepCrashes
    /\ map = "crash" => crashes < KeepCrashes
    /\ writes \in 0..MaxWrites

(* ... and of the rest. *)
OtherTypes ==
    /\ pc \in {"idle", "sent", "ran", "word", "test", "clear", "scanned"}
    /\ calibrating \in BOOLEAN /\ lastIsNew \in BOOLEAN /\ edge \in BOOLEAN
    /\ fault \in {"none", "tmout", "crash"}
    /\ counted \subseteq Coms /\ keptComs \subseteq Coms /\ lostComs \subseteq Coms
    /\ lastCom \in Coms \cup {NoCom}

(* Outside the scan there is nothing in hand.  A bit that was taken out    *)
(* makes ret differ from 0.                                                *)
PlaceInv ==
    /\ pc \in {"idle", "sent", "ran"} => map = "bits" /\ ret = 0 /\ ~edge
    /\ ret = 0 => taken = NoBits
    /\ pc = "clear" => ret # 0

(* Nothing an examination took out has been dropped. *)
DropInv == dropped = [bits |-> NoBits, crash |-> NoBits]

Pristine == \E b \in WordBytes : trace[b] # {} /\ virgin[map][b] = Bits

(* Without a background write ret is 2 as soon as a byte is hit first. *)
EdgeInv ==
    writes = 0 =>
        /\ pc # "clear" => (ret = 2 <=> edge)
        /\ pc = "clear" => (ret = 2 <=> edge \/ Pristine)

(* A command was first counted for an input that is kept, for one that is  *)
(* lost, or for the one at hand.                                           *)
ComInv ==
    /\ counted = keptComs \cup lostComs \cup NewCom
    /\ keptComs \cap lostComs = {}
    /\ NewCom \cap (keptComs \cup lostComs) = {}
    /\ lastIsNew => lastCom \in Coms
    /\ pc \in {"idle", "sent"} => ~lastIsNew

Types == MapTypes /\ NumberTypes /\ OtherTypes
IInv == Types /\ PlaceInv /\ DropInv /\ EdgeInv /\ ComInv

-----------------------------------------------------------------------------
(* The number of words is a natural number. *)
LEMMA LastWordNat == LastWord \in Nat
BY FeedbackAssumption DEF LastWord

(* A word is left for the one below it, or the scan ends. *)
LEMMA LeaveWord ==
    ASSUME NumberTypes, pc \in {"word", "test", "clear"},
           word' = word - 1, pc' = ScanVerdict
    PROVE  /\ word' \in -1..LastWord
           /\ pc' \in {"word", "scanned"}
           /\ pc' \in {"word", "test", "clear"} => word' \in 0..LastWord
<1>1. word \in 0..LastWord
    BY DEF NumberTypes
<1>2. CASE word = 0
    <2>1. pc' = "scanned"
        BY <1>2 DEF ScanVerdict, NextPc
    <2>2. word' = -1
        BY <1>2
    <2>3. QED
        BY <2>1, <2>2, LastWordNat
<1>3. CASE word # 0
    <2>1. pc' = "word"
        BY <1>3 DEF ScanVerdict, NextPc
    <2>2. word' \in 0..LastWord /\ word' \in -1..LastWord
        BY <1>1, <1>3, LastWordNat
    <2>3. QED
        BY <2>1, <2>2
<1>4. QED
    BY <1>2, <1>3

(* The start state. *)
LEMMA InitInv == Init => IInv
<1> SUFFICES ASSUME Init PROVE IInv
    OBVIOUS
<1> USE DEF Init
<1>1. MapTypes
    BY DEF MapTypes, Maps, NoBits, AllBits
<1>2. NumberTypes
    BY LastWordNat, FeedbackAssumption DEF NumberTypes
<1>3. OtherTypes
    BY DEF OtherTypes
<1>4. PlaceInv
    BY DEF PlaceInv
<1>5. DropInv
    BY DEF DropInv
<1>6. EdgeInv
    BY DEF EdgeInv
<1>7. ComInv
    BY DEF ComInv, NewCom
<1>8. QED
    BY <1>1, <1>2, <1>3, <1>4, <1>5, <1>6, <1>7 DEF IInv, Types
-----------------------------------------------------------------------------
(* Types. *)
LEMMA MapStep == Types /\ [Next]_vars => MapTypes'
<1> SUFFICES ASSUME Types, [Next]_vars PROVE MapTypes'
    OBVIOUS
<1> USE DEF Types, MapTypes
<1>0. CASE ScanEarly
    <2>1. PICK before \in Maps :
            virgin' = [virgin EXCEPT !.bits = [b \in Bytes |-> @[b] \ before[b]]]
        BY <1>0 DEF ScanEarly
    <2>2. virgin.bits \in Maps
        OBVIOUS
    <2>3. [b \in Bytes |-> virgin.bits[b] \ before[b]] \in Maps
        BY <2>2 DEF Maps
    <2>4. virgin' \in [bits : Maps, crash : Maps]
        BY <2>1, <2>3
    <2>5. QED
        BY <1>0, <2>4 DEF ScanEarly
<1>1. CASE RunTarget
    <2>1. Classified \subseteq Maps
        BY DEF Classified, Maps
    <2>2. QED
        BY <1>1, <2>1 DEF RunTarget
<1>2. CASE NotExamined \/ NotCompared
    BY <1>2 DEF NotExamined, NotCompared, Return, NoBits, Maps
<1>3. CASE Examine
    BY <1>3 DEF Examine, StartScan, NoBits, Maps
<1>4. CASE ExamineCrash
    BY <1>4 DEF ExamineCrash, StartScan, SimplifyTrace, NoBits, Maps, Bits
<1>5. CASE CompareWord \/ TestBytes
    BY <1>5 DEF CompareWord, TestBytes
<1>6. CASE ClearWord
    <2> DEFINE clear == [b \in Bytes |-> IF b \in WordBytes
                                         THEN trace[b] \cap virgin[map][b] ELSE {}]
    <2>1. virgin[map] \in Maps
        OBVIOUS
    <2>2. [b \in Bytes |-> virgin[map][b] \ clear[b]] \in Maps
        BY <2>1 DEF Maps
    <2>3. [b \in Bytes |-> taken[b] \cup clear[b]] \in Maps
        BY <2>1 DEF Maps
    <2>4. QED
        BY <1>6, <2>2, <2>3 DEF ClearWord
<1>7. CASE Background
    BY <1>7 DEF Background, Maps
<1>8. CASE Verdict
    <2>1. dropped' = Drop \/ dropped' = dropped
        BY <1>8 DEF Verdict
    <2>2. dropped[map] \in Maps
        OBVIOUS
    <2>3. [b \in Bytes |-> dropped[map][b] \cup taken[b]] \in Maps
        BY <2>2 DEF Maps
    <2>4. Drop \in [bits : Maps, crash : Maps]
        BY <2>3 DEF Drop
    <2>5. QED
        BY <1>8, <2>1, <2>4 DEF Verdict, Return, NoBits, Maps
<1>9. CASE UNCHANGED vars
    BY <1>9 DEF vars
<1>10. QED
    BY <1>0, <1>1, <1>2, <1>3, <1>4, <1>5, <1>6, <1>7, <1>8, <1>9 DEF Next

LEMMA NumberStep == Types /\ [Next]_vars => NumberTypes'
<1> SUFFICES ASSUME Types, [Next]_vars PROVE NumberTypes'
    OBVIOUS
<1> USE DEF Types
<1>0. CASE ScanEarly
    BY <1>0 DEF ScanEarly, NumberTypes
<1>1. CASE RunTarget
    BY <1>1, FeedbackAssumption DEF RunTarget, NumberTypes
<1>2. CASE NotExamined \/ NotCompared
    BY <1>2, LastWordNat, FeedbackAssumption
    DEF NotExamined, NotCompared, Return, NumberTypes
<1>3. CASE Examine
    BY <1>3, LastWordNat DEF Examine, StartScan, NumberTypes
<1>4. CASE ExamineCrash
    BY <1>4, LastWordNat DEF ExamineCrash, StartScan, NumberTypes
<1>5. CASE CompareWord
    <2>1. CASE pc' = "test" /\ word' = word
        BY <1>5, <2>1 DEF CompareWord, NumberTypes
    <2>2. CASE pc' = ScanVerdict /\ word' = word - 1
        BY <1>5, <2>2, LeaveWord DEF CompareWord, NumberTypes
    <2>3. QED
        BY <1>5, <2>1, <2>2 DEF CompareWord
<1>6. CASE TestBytes
    BY <1>6 DEF TestBytes, NumberTypes
<1>7. CASE ClearWord
    BY <1>7, LeaveWord DEF ClearWord, NumberTypes
<1>8. CASE Background
    BY <1>8, FeedbackAssumption DEF Background, NumberTypes
<1>9. CASE Verdict
    <2>1. crashes' \in 0..KeepCrashes
        BY <1>9, FeedbackAssumption DEF Verdict, NumberTypes
    <2>2. QED
        BY <1>9, <2>1, LastWordNat, FeedbackAssumption DEF Verdict, Return, NumberTypes
<1>10. CASE UNCHANGED vars
    BY <1>10 DEF vars, NumberTypes
<1>11. QED
    BY <1>0, <1>1, <1>2, <1>3, <1>4, <1>5, <1>6, <1>7, <1>8, <1>9, <1>10 DEF Next

LEMMA OtherStep == IInv /\ [Next]_vars => OtherTypes'
<1> SUFFICES ASSUME IInv, [Next]_vars PROVE OtherTypes'
    OBVIOUS
<1> USE DEF IInv, Types, OtherTypes
<1>0. CASE ScanEarly
    BY <1>0 DEF ScanEarly
<1>1. CASE RunTarget
    BY <1>1 DEF RunTarget
<1>2. NewCom \subseteq Coms
    BY DEF ComInv, NewCom
<1>3. CASE NotExamined \/ NotCompared
    BY <1>2, <1>3 DEF NotExamined, NotCompared, Return
<1>4. CASE Examine \/ ExamineCrash
    BY <1>4 DEF Examine, ExamineCrash, StartScan
<1>5. CASE CompareWord
    BY <1>5 DEF CompareWord, ScanVerdict, NextPc
<1>6. CASE TestBytes \/ Background
    BY <1>6 DEF TestBytes, Background
<1>7. CASE ClearWord
    BY <1>7 DEF ClearWord, ScanVerdict, NextPc
<1>8. CASE Verdict
    <2>1. keptComs' \subseteq Coms /\ lostComs' \subseteq Coms
        BY <1>2, <1>8 DEF Verdict
    <2>2. QED
        BY <1>8, <2>1 DEF Verdict, Return
<1>9. CASE UNCHANGED vars
    BY <1>9 DEF vars
<1>10. QED
    BY <1>0, <1>1, <1>3, <1>4, <1>5, <1>6, <1>7, <1>8, <1>9 DEF Next

-----------------------------------------------------------------------------
(* What is in hand between the steps. *)
LEMMA PlaceStep == IInv /\ [Next]_vars => PlaceInv'
<1> SUFFICES ASSUME IInv, [Next]_vars PROVE PlaceInv'
    OBVIOUS
<1> USE DEF IInv, PlaceInv
<1>0. CASE ScanEarly
    BY <1>0 DEF ScanEarly
<1>1. CASE RunTarget
    BY <1>1 DEF RunTarget
<1>2. CASE NotExamined \/ NotCompared \/ Verdict
    BY <1>2 DEF NotExamined, NotCompared, Verdict, Return
<1>3. CASE Examine \/ ExamineCrash
    BY <1>3 DEF Examine, ExamineCrash, StartScan
<1>4. CASE CompareWord
    BY <1>4 DEF CompareWord, ScanVerdict, NextPc
<1>5. CASE TestBytes \/ Background
    BY <1>5 DEF TestBytes, Background
<1>6. CASE ClearWord
    BY <1>6 DEF ClearWord, ScanVerdict, NextPc
<1>7. CASE UNCHANGED vars
    BY <1>7 DEF vars
<1>8. QED
    BY <1>0, <1>1, <1>2, <1>3, <1>4, <1>5, <1>6, <1>7 DEF Next

(* An input that is not kept had nothing taken out for it. *)
LEMMA DropStep == IInv /\ [Next]_vars => DropInv'
<1> SUFFICES ASSUME IInv, [Next]_vars PROVE DropInv'
    OBVIOUS
<1> USE DEF IInv, DropInv
<1>1. CASE UNCHANGED dropped
    BY <1>1
<1>2. CASE ScanEarly \/ RunTarget \/ NotExamined \/ NotCompared \/ UNCHANGED vars
    BY <1>1, <1>2 DEF ScanEarly, RunTarget, NotExamined, NotCompared, vars
<1>3. CASE Examine \/ ExamineCrash \/ CompareWord \/ TestBytes \/ ClearWord
           \/ Background
    BY <1>1, <1>3 DEF Examine, ExamineCrash, CompareWord, TestBytes, ClearWord,
                      Background
<1>4. CASE Verdict
    <2>1. CASE dropped' = Drop /\ ret = 0
        <3>1. taken = NoBits
            BY <2>1 DEF PlaceInv
        <3>2. [b \in Bytes |-> NoBits[b] \cup taken[b]] = NoBits
            BY <3>1 DEF NoBits
        <3>3. dropped[map] = NoBits
            BY DEF Types, MapTypes
        <3>4. QED
            BY <2>1, <3>2, <3>3 DEF Drop
    <2>2. dropped' = dropped \/ (dropped' = Drop /\ ret = 0)
        BY <1>4 DEF Verdict, Interesting
    <2>3. QED
        BY <1>1, <2>1, <2>2
<1>5. QED
    BY <1>2, <1>3, <1>4 DEF Next

(* Without a background write TestBytes looks at what ClearWord takes. *)
LEMMA EdgeStep == IInv /\ [Next]_vars => EdgeInv'
<1> SUFFICES ASSUME IInv, [Next]_vars PROVE EdgeInv'
    OBVIOUS
<1> USE DEF IInv
<1>0. CASE ScanEarly
    BY <1>0 DEF ScanEarly, EdgeInv, PlaceInv
<1>1. CASE RunTarget
    BY <1>1 DEF RunTarget, EdgeInv, PlaceInv
<1>2. CASE NotExamined \/ NotCompared \/ Verdict
    BY <1>2 DEF NotExamined, NotCompared, Verdict, Return, EdgeInv
<1>3. CASE Examine \/ ExamineCrash
    BY <1>3 DEF Examine, ExamineCrash, StartScan, EdgeInv
<1>4. CASE CompareWord
    <2>1. pc' \in {"test", "word", "scanned"} /\ UNCHANGED <<ret, edge, writes>>
        BY <1>4 DEF CompareWord, ScanVerdict, NextPc
    <2>2. pc = "word"
        BY <1>4 DEF CompareWord
    <2>3. QED
        BY <2>1, <2>2 DEF EdgeInv
<1>5. CASE TestBytes
    <2>1. Pristine' <=> Pristine
        BY <1>5 DEF TestBytes, Pristine, WordBytes
    <2>2. ret' = IF ret = 2 \/ Pristine THEN 2 ELSE 1
        BY <1>5 DEF TestBytes, Pristine
    <2>3. pc = "test" /\ pc' = "clear" /\ UNCHANGED <<edge, writes>>
        BY <1>5 DEF TestBytes
    <2>4. ret' = 2 <=> ret = 2 \/ Pristine
        BY <2>2
    <2>5. QED
        BY <2>1, <2>3, <2>4 DEF EdgeInv
<1>6. CASE ClearWord
    <2> DEFINE clear == [x \in Bytes |-> IF x \in WordBytes
                                         THEN trace[x] \cap virgin[map][x] ELSE {}]
    <2>1. edge' = (edge \/ \E b \in WordBytes : clear[b] # {} /\ virgin[map][b] = Bits)
        BY <1>6 DEF ClearWord
    <2>2. WordBytes \subseteq Bytes
        BY DEF WordBytes
    <2>3. ASSUME NEW b \in Bytes, virgin[map][b] = Bits
          PROVE  trace[b] \cap virgin[map][b] = trace[b]
        BY <2>3 DEF Types, MapTypes, Maps
    <2>4. ASSUME NEW b \in WordBytes, virgin[map][b] = Bits
          PROVE  clear[b] = trace[b]
        BY <2>2, <2>3, <2>4
    <2> HIDE DEF clear
    <2>5. edge' <=> edge \/ Pristine
        BY <2>1, <2>4 DEF Pristine
    <2>6. pc = "clear" /\ pc' # "clear" /\ UNCHANGED <<ret, writes>>
        BY <1>6 DEF ClearWord, ScanVerdict, NextPc
    <2>7. QED
        BY <2>5, <2>6 DEF EdgeInv
<1>7. CASE Background
    <2>1. writes' # 0
        BY <1>7 DEF Background, Types, NumberTypes
    <2>2. QED
        BY <2>1 DEF EdgeInv
<1>8. CASE UNCHANGED vars
    <2>1. Pristine' <=> Pristine
        BY <1>8 DEF vars, Pristine, WordBytes
    <2>2. QED
        BY <1>8, <2>1 DEF vars, EdgeInv
<1>9. QED
    BY <1>0, <1>1, <1>2, <1>3, <1>4, <1>5, <1>6, <1>7, <1>8 DEF Next

(* The first execution of a command is accounted for once. *)
LEMMA ComStep == IInv /\ [Next]_vars => ComInv'
<1> SUFFICES ASSUME IInv, [Next]_vars PROVE ComInv'
    OBVIOUS
<1> USE DEF IInv, ComInv
<1>0. CASE ScanEarly
    <2>1. UNCHANGED <<comVars, keptComs, lostComs>> /\ pc' = "sent" /\ pc = "idle"
        BY <1>0 DEF ScanEarly
    <2>2. NewCom' = NewCom
        BY <2>1 DEF NewCom
    <2>3. QED
        BY <2>1, <2>2
<1>1. CASE RunTarget
    <2>1. NewCom = {}
        BY <1>1 DEF RunTarget, NewCom
    <2>2. counted' = counted \cup NewCom' /\ counted \cap NewCom' = {}
        BY <1>1 DEF RunTarget, NewCom
    <2>3. keptComs' = keptComs /\ lostComs' = lostComs /\ pc' = "ran"
        BY <1>1 DEF RunTarget
    <2>4. lastIsNew' => lastCom' \in Coms
        BY <1>1 DEF RunTarget
    <2>5. QED
        BY <2>1, <2>2, <2>3, <2>4
<1>2. ASSUME Return,
             \/ keptComs' = keptComs \cup NewCom /\ lostComs' = lostComs
             \/ lostComs' = lostComs \cup NewCom /\ keptComs' = keptComs
      PROVE  ComInv'
    <2>1. NewCom' = {}
        BY <1>2 DEF Return, NewCom
    <2>2. counted' = counted /\ ~lastIsNew'
        BY <1>2 DEF Return
    <2>3. QED
        BY <1>2, <2>1, <2>2
<1>3. CASE NotExamined
    BY <1>2, <1>3 DEF NotExamined
<1>4. CASE NotCompared
    BY <1>2, <1>4 DEF NotCompared
<1>5. CASE Verdict
    <2>1. Return
        BY <1>5 DEF Verdict
    <2>2. CASE ~Interesting /\ keptComs' = keptComs /\ lostComs' = lostComs
        <3>1. NewCom = {}
            BY <2>2 DEF Interesting, NewCom
        <3>2. QED
            BY <1>2, <2>1, <2>2, <3>1
    <2>3. CASE keptComs' = keptComs \cup NewCom /\ lostComs' = lostComs
        BY <1>2, <2>1, <2>3
    <2>4. CASE lostComs' = lostComs \cup NewCom /\ keptComs' = keptComs
        BY <1>2, <2>1, <2>4
    <2>5. QED
        BY <1>5, <2>2, <2>3, <2>4 DEF Verdict
<1>6. CASE UNCHANGED <<comVars, keptComs, lostComs>> /\ pc' \notin {"idle", "sent"}
    BY <1>6 DEF NewCom
<1>7. CASE Examine \/ ExamineCrash \/ TestBytes \/ Background
    BY <1>6, <1>7 DEF Examine, ExamineCrash, StartScan, TestBytes, Background
<1>8. CASE CompareWord \/ ClearWord
    BY <1>6, <1>8 DEF CompareWord, ClearWord, ScanVerdict, NextPc
<1>9. CASE UNCHANGED vars
    BY <1>9 DEF vars, NewCom
<1>10. QED
    BY <1>0, <1>1, <1>3, <1>4, <1>5, <1>7, <1>8, <1>9 DEF Next

-----------------------------------------------------------------------------
(* The inductive invariant holds in every state. *)
THEOREM Invariance == Spec => []IInv
<1>1. IInv /\ [Next]_vars => IInv'
    BY MapStep, NumberStep, OtherStep, PlaceStep, DropStep, EdgeStep, ComStep
    DEF IInv, Types
<1>2. QED
    BY InitInv, <1>1, PTL DEF Spec

(* Every state has its type; has_new_bits stays within the map, and no     *)
(* more crashes are kept than KEEP_UNIQUE_CRASH.                           *)
THEOREM TypeCorrect == Spec => []TypeOK
<1>1. IInv => TypeOK
    BY DEF IInv, Types, MapTypes, NumberTypes, OtherTypes, TypeOK, Words, LastWord
<1>2. QED
    BY Invariance, <1>1, PTL

(* What an examination took out of a virgin map belongs to an input or a   *)
(* crash that is kept, whatever mysqld writes during the scan.             *)
THEOREM CoverageIsKept == Spec => []CoverageKept
<1>1. IInv => CoverageKept
    BY DEF IInv, DropInv, EdgeInv, CoverageKept
<1>2. QED
    BY Invariance, <1>1, PTL

(* The first execution of each command is kept, or was never examined.     *)
THEOREM CommandsAreKept == Spec => []CommandsKept
<1>1. IInv => CommandsKept
    BY DEF IInv, ComInv, NewCom, CommandsKept
<1>2. QED
    BY Invariance, <1>1, PTL
=============================================================================
