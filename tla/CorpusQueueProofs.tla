------------------------- MODULE CorpusQueueProofs -------------------------
(***************************************************************************)
(* Proofs about CorpusQueue for every number of seeds, entries and bytes   *)
(* of the map.  The counters are natural numbers only because of what they *)
(* count: TypeOK follows from LooseType, where they are integers, and the  *)
(* invariants that say what each of them counts.                           *)
(***************************************************************************)
EXTENDS CorpusQueue, FiniteSetTheorems, TLAPS

(* Everything an action mentions in its UNCHANGED. *)
USE DEF seedVars, scoreVars, cullVars, mapVars

Culling == pc \in {"firstCull", "cull"}
DryRun == pc \in {"seed", "score", "judge"}

(* The types but for the signs of the counters: of the functions ... *)
FunTypes ==
    /\ outcome \in [Entries -> Faults \cup {"notRun"}]
    /\ calFailed \in [Entries -> 0 .. CalChances]
    /\ factor \in [Entries -> Nat]
    /\ topRated \in [Bits -> 0 .. MaxQueue]
    /\ tcRef \in [Entries -> Int]
    /\ traceMini \in [Entries -> SUBSET Bits]

(* ... of the numbers ... *)
NumberTypes ==
    /\ queued \in NumSeeds .. MaxQueue
    /\ queueCur \in 0 .. MaxQueue
    /\ bit \in 0 .. NumBits + 1
    /\ calFailures \in 0 .. NumSeeds
    /\ queuedFavored \in Int
    /\ pendingFavored \in Int
    /\ pendingNotFuzzed \in Int

(* ... and of the rest. *)
SetTypes ==
    /\ pc \in PCs
    /\ res \in Faults \cup {"junk"}
    /\ tmoutSeed \subseteq Entries
    /\ wasFuzzed \subseteq Entries
    /\ favored \subseteq Entries
    /\ trace \subseteq Bits
    /\ tempV \subseteq Bits

LooseType == FunTypes /\ NumberTypes /\ SetTypes

(* What the dry run knows of the seed at hand, and the main loop of the    *)
(* entry at hand.                                                          *)
PlaceInv ==
    /\ queueCur =< queued
    /\ DryRun => queueCur >= 1 /\ queued = NumSeeds /\ calFailures < queueCur
    /\ pc = "fuzz" => queueCur >= 1
    /\ pc = "seed" => \A q \in Entries : q >= queueCur => calFailed[q] = 0
    /\ DryRun => \A q \in Entries : q > queueCur => calFailed[q] = 0
    /\ pc = "seed" => \A i \in Bits : topRated[i] < queueCur
    /\ DryRun => \A i \in Bits : topRated[i] =< queueCur
    /\ pc \in {"seed", "judge", "next", "fuzz"} => bit = 0
    /\ pc = "score" => bit >= 1

PendingInv == PendingCounted /\ wasFuzzed \subseteq 1 .. queued

RefInv == RefCounts /\ HoldersKeepTrace

(* The counters of favored entries are never below what they count. *)
FavoredBound ==
    /\ queuedFavored >= Cardinality(favored)
    /\ pendingFavored >= Cardinality(favored \ wasFuzzed)

(* Byte i has no holder, or a favored entry stands for it. *)
Covered(i) ==
    topRated[i] # 0 => \E q \in favored : i \in traceMini[q] \/ topRated[i] = q

CoverInv ==
    /\ DryRun /\ ~scoreChanged => \A i \in Bits : topRated[i] = 0
    /\ Culling /\ bit = 0 /\ ~scoreChanged => \A i \in Bits : Covered(i)
    /\ Culling /\ bit >= 1 =>
        /\ \A i \in Bits : i < bit => Covered(i)
        /\ \A i \in Bits \ tempV : \E q \in favored : i \in traceMini[q]
    /\ pc \in {"next", "fuzz"} => \A i \in Bits : Covered(i)

(* As long as no map changed under update_bitmap_score, a holder has its   *)
(* bytes in its trace, so that the loop of cull_queue never meets a        *)
(* favored entry again.                                                    *)
CountInv ==
    /\ \A i \in Bits : topRated[i] # 0 => i \in traceMini[topRated[i]]
    /\ pc = "score" /\ traceMini[queueCur] # {} => traceMini[queueCur] = trace
    /\ Culling /\ bit >= 1 => \A q \in favored : traceMini[q] \cap tempV = {}
    /\ FavoredCounted

QuietInv == ~disturbed => CountInv

IInv == /\ LooseType /\ PlaceInv /\ PendingInv /\ RefInv /\ FavoredBound
        /\ CoverInv /\ QuietInv

-----------------------------------------------------------------------------
(* Flags, types and places.                                                *)

(* The start state satisfies the invariant.                                 *)
LEMMA InitInv == Init => FlagTypeOK /\ IInv
<1> SUFFICES ASSUME Init PROVE FlagTypeOK /\ IInv
    OBVIOUS
<1> USE DEF Init
<1>1. FlagTypeOK
    BY DEF FlagTypeOK
<1>2. LooseType
    BY SizeAssumption
       DEF LooseType, FunTypes, NumberTypes, SetTypes, PCs, Entries, Faults,
           Bits, CalChances
<1>3. PlaceInv
    BY SizeAssumption DEF PlaceInv, DryRun, Entries, Bits
<1>4. PendingInv
    BY FS_EmptySet, SizeAssumption DEF PendingInv, PendingCounted
<1>5. RefInv
    <2>1. \A q \in Entries : {i \in Bits : topRated[i] = q} = {}
        BY DEF Entries
    <2>2. RefCounts
        BY <2>1, FS_EmptySet DEF RefCounts
    <2>3. HoldersKeepTrace
        BY <2>1 DEF HoldersKeepTrace
    <2>4. QED
        BY <2>2, <2>3 DEF RefInv
<1>6. FavoredBound
    BY FS_EmptySet DEF FavoredBound
<1>7. CoverInv
    BY DEF CoverInv, DryRun, Culling
<1>8. QuietInv
    BY FS_EmptySet DEF QuietInv, CountInv, Culling, FavoredCounted
<1>9. QED
    BY <1>1, <1>2, <1>3, <1>4, <1>5, <1>6, <1>7, <1>8 DEF IInv

(* Flags stay Boolean.                                                      *)
LEMMA NextFlagType == FlagTypeOK /\ [Next]_vars => FlagTypeOK'
<1> SUFFICES ASSUME FlagTypeOK, [Next]_vars PROVE FlagTypeOK'
    OBVIOUS
<1> USE DEF FlagTypeOK
<1>1. ASSUME NEW fault \in Faults, CalibrationFails(fault) \/ Judge(fault)
      PROVE  FlagTypeOK'
    BY <1>1 DEF CalibrationFails, Judge
<1>2. ASSUME NEW fault \in Faults, NEW newTrace \in SUBSET Bits,
             NEW f \in Factors, Calibrate(fault, newTrace, f)
      PROVE  FlagTypeOK'
    BY <1>2 DEF Calibrate
<1>3. CASE SeedUnparsable \/ ScoreByte \/ SkipByte \/ Scored
    BY <1>3 DEF SeedUnparsable, ScoreByte, SkipByte, Scored
<1>4. CASE CullQueue
    BY <1>4 DEF CullQueue, CullNothing, CullStart, FavorHolder, PassByte, CullEnd
<1>5. CASE FuzzEntry \/ EndEntry \/ AddToQueue \/ StopSig
    BY <1>5 DEF FuzzEntry, EndEntry, AddToQueue, StopSig
<1>6. ASSUME NEW i \in Bits, MysqldWrites(i) PROVE FlagTypeOK'
    BY <1>6 DEF MysqldWrites
<1>7. CASE UNCHANGED vars
    BY <1>7 DEF vars
<1>8. QED
    BY <1>1, <1>2, <1>3, <1>4, <1>5, <1>6, <1>7 DEF Next, MainStep, Exited

(* Places and sets keep their types ...                                     *)
LEMMA NextSetTypes == LooseType /\ PlaceInv /\ [Next]_vars => SetTypes'
<1> SUFFICES ASSUME LooseType, PlaceInv, [Next]_vars PROVE SetTypes'
    OBVIOUS
<1>0. SetTypes /\ (DryRun \/ pc = "fuzz" => queueCur \in Entries)
    BY DEF LooseType, NumberTypes, PlaceInv, Entries
<1> USE <1>0 DEF SetTypes, PCs
<1>1. ASSUME NEW fault \in Faults, CalibrationFails(fault) PROVE SetTypes'
    BY <1>1 DEF CalibrationFails
<1>2. ASSUME NEW fault \in Faults, Judge(fault) PROVE SetTypes'
    BY <1>2 DEF Judge, DryRun
<1>3. ASSUME NEW fault \in Faults, NEW newTrace \in SUBSET Bits,
             NEW f \in Factors, Calibrate(fault, newTrace, f)
      PROVE  SetTypes'
    BY <1>3 DEF Calibrate
<1>4. CASE ScoreByte
    BY <1>4 DEF ScoreByte
<1>5. CASE SeedUnparsable \/ SkipByte \/ Scored
    BY <1>5 DEF SeedUnparsable, SkipByte, Scored
<1>6. CASE FavorHolder
    <2>1. topRated[bit] \in Entries
        BY <1>6 DEF FavorHolder, StillOpen, LooseType, FunTypes, Entries
    <2>2. QED
        BY <1>6, <2>1 DEF FavorHolder, LeftOpen
<1>7. CASE CullNothing \/ CullStart
    BY <1>7 DEF CullNothing, CullStart, AfterCull
<1>8. CASE PassByte \/ CullEnd
    BY <1>8 DEF PassByte, CullEnd, AfterCull
<1>9. CASE FuzzEntry \/ EndEntry
    BY <1>9 DEF FuzzEntry, EndEntry
<1>10. CASE AddToQueue \/ StopSig
    BY <1>10 DEF AddToQueue, StopSig
<1>11. ASSUME NEW i \in Bits, MysqldWrites(i) PROVE SetTypes'
    BY <1>11 DEF MysqldWrites
<1>12. CASE UNCHANGED vars
    BY <1>12 DEF vars
<1>13. QED
    BY <1>1, <1>2, <1>3, <1>4, <1>5, <1>6, <1>7, <1>8, <1>9, <1>10, <1>11,
       <1>12
       DEF Next, MainStep, CullQueue, Exited

(* ... and numbers, entries and loop variables stay in range ...            *)
LEMMA NextNumberTypes == LooseType /\ PlaceInv /\ [Next]_vars => NumberTypes'
<1> SUFFICES ASSUME LooseType, PlaceInv, [Next]_vars PROVE NumberTypes'
    OBVIOUS
<1>0. NumberTypes /\ queueCur =< queued /\ (DryRun => calFailures < queueCur)
                  /\ (DryRun => queued = NumSeeds)
    BY DEF LooseType, PlaceInv
<1> USE <1>0, SizeAssumption DEF NumberTypes, Bits
<1>1. ASSUME NEW fault \in Faults, CalibrationFails(fault) PROVE NumberTypes'
    BY <1>1 DEF CalibrationFails
<1>2. ASSUME NEW fault \in Faults, Judge(fault) PROVE NumberTypes'
    BY <1>2 DEF Judge, DryRun
<1>3. ASSUME NEW fault \in Faults, NEW newTrace \in SUBSET Bits,
             NEW f \in Factors, Calibrate(fault, newTrace, f)
      PROVE  NumberTypes'
    BY <1>3 DEF Calibrate
<1>4. CASE ScoreByte
    BY <1>4 DEF ScoreByte
<1>5. CASE SeedUnparsable \/ SkipByte \/ Scored
    BY <1>5 DEF SeedUnparsable, SkipByte, Scored
<1>6. CASE CullNothing \/ CullStart \/ FavorHolder
    BY <1>6 DEF CullNothing, CullStart, FavorHolder
<1>7. CASE PassByte \/ CullEnd
    BY <1>7 DEF PassByte, CullEnd
<1>8. CASE FuzzEntry \/ EndEntry
    BY <1>8 DEF FuzzEntry, EntryToFuzz, EndEntry
<1>9. CASE AddToQueue \/ StopSig
    BY <1>9 DEF AddToQueue, StopSig
<1>10. ASSUME NEW i \in Bits, MysqldWrites(i) PROVE NumberTypes'
    BY <1>10 DEF MysqldWrites
<1>11. CASE UNCHANGED vars
    BY <1>11 DEF vars
<1>12. QED
    BY <1>1, <1>2, <1>3, <1>4, <1>5, <1>6, <1>7, <1>8, <1>9, <1>10, <1>11
       DEF Next, MainStep, CullQueue, Exited

(* ... and so do the arrays that are indexed by entries and bytes.          *)
LEMMA NextFunTypes == LooseType /\ PlaceInv /\ [Next]_vars => FunTypes'
<1> SUFFICES ASSUME LooseType, PlaceInv, [Next]_vars PROVE FunTypes'
    OBVIOUS
<1>0. FunTypes /\ trace \subseteq Bits /\ (DryRun => queueCur \in Entries)
    BY DEF LooseType, SetTypes, NumberTypes, PlaceInv, Entries
<1>1. ASSUME NEW fault \in Faults, CalibrationFails(fault) PROVE FunTypes'
    <2>1. queueCur \in Entries /\ calFailed[queueCur] = 0
        BY <1>0, <1>1 DEF CalibrationFails, PlaceInv, DryRun, LooseType,
           NumberTypes
    <2>2. calFailed' \in [Entries -> 0 .. CalChances]
        BY <1>0, <1>1, <2>1 DEF CalibrationFails, FunTypes, CalChances
    <2>3. outcome' \in [Entries -> Faults \cup {"notRun"}]
        BY <1>0, <1>1, <2>1 DEF CalibrationFails, FunTypes
    <2>4. UNCHANGED <<factor, topRated, tcRef, traceMini>>
        BY <1>1 DEF CalibrationFails
    <2>5. QED
        BY <1>0, <2>2, <2>3, <2>4 DEF FunTypes
<1>2. ASSUME NEW fault \in Faults, Judge(fault) PROVE FunTypes'
    <2>1. calFailed' \in [Entries -> 0 .. CalChances]
        BY <1>0, <1>2 DEF Judge, FunTypes, CalChances
    <2>2. UNCHANGED <<outcome, factor, topRated, tcRef, traceMini>>
        BY <1>2 DEF Judge
    <2>3. QED
        BY <1>0, <2>1, <2>2 DEF FunTypes
<1>3. ASSUME NEW fault \in Faults, NEW newTrace \in SUBSET Bits,
             NEW f \in Factors, Calibrate(fault, newTrace, f)
      PROVE  FunTypes'
    <2>0. calFailed' = [calFailed EXCEPT ![queueCur] = 0]
        BY <1>3 DEF Calibrate
    <2>6. calFailed \in [Entries -> 0 .. CalChances] /\ 0 \in 0 .. CalChances
        BY <1>0 DEF FunTypes, CalChances
    <2>1. calFailed' \in [Entries -> 0 .. CalChances]
        BY <2>0, <2>6
    <2>2. outcome' \in [Entries -> Faults \cup {"notRun"}]
        BY <1>0, <1>3 DEF Calibrate, FunTypes
    <2>3. factor' \in [Entries -> Nat]
        BY <1>0, <1>3, FactorAssumption DEF Calibrate, FunTypes
    <2>4. UNCHANGED <<topRated, tcRef, traceMini>>
        BY <1>3 DEF Calibrate
    <2>5. QED
        BY <1>0, <2>1, <2>2, <2>3, <2>4 DEF FunTypes
<1>4. CASE ScoreByte
    <2>1. queueCur \in Entries /\ bit \in Bits
        BY <1>0, <1>4, SizeAssumption
           DEF ScoreByte, PlaceInv, DryRun, LooseType, NumberTypes, Bits
    <2>2. topRated' \in [Bits -> 0 .. MaxQueue]
        BY <1>0, <1>4, <2>1, SizeAssumption DEF ScoreByte, FunTypes, Entries
    <2>9. topRated[bit] = 0 \/ topRated[bit] \in Entries
        BY <1>0, <2>1, SizeAssumption DEF FunTypes, Entries
    <2>3. RefsWithoutHolder(bit) \in [Entries -> Int]
        BY <1>0, <2>9 DEF RefsWithoutHolder, FunTypes
    <2>4. tcRef' \in [Entries -> Int]
        BY <1>0, <1>4, <2>1, <2>3 DEF ScoreByte
    <2>5. TracesWithoutHolder(bit) \in [Entries -> SUBSET Bits]
        BY <1>0, <2>1 DEF TracesWithoutHolder, FunTypes
    <2>6. traceMini' \in [Entries -> SUBSET Bits]
        BY <1>0, <1>4, <2>1, <2>5 DEF ScoreByte
    <2>7. UNCHANGED <<outcome, calFailed, factor>>
        BY <1>4 DEF ScoreByte
    <2>8. QED
        BY <1>0, <2>2, <2>4, <2>6, <2>7 DEF FunTypes
<1>5. ASSUME UNCHANGED <<outcome, calFailed, factor, topRated, tcRef, traceMini>>
      PROVE  FunTypes'
    BY <1>0, <1>5 DEF FunTypes
<1>6. CASE SeedUnparsable \/ SkipByte \/ Scored
    BY <1>5, <1>6 DEF SeedUnparsable, SkipByte, Scored
<1>7. CASE CullQueue
    BY <1>5, <1>7
       DEF CullQueue, CullNothing, CullStart, FavorHolder, PassByte, CullEnd
<1>8. CASE FuzzEntry \/ EndEntry \/ AddToQueue \/ StopSig
    BY <1>5, <1>8 DEF FuzzEntry, EndEntry, AddToQueue, StopSig
<1>9. ASSUME NEW i \in Bits, MysqldWrites(i) PROVE FunTypes'
    BY <1>5, <1>9 DEF MysqldWrites
<1>10. CASE UNCHANGED vars
    BY <1>5, <1>10 DEF vars
<1>11. QED
    BY <1>1, <1>2, <1>3, <1>4, <1>6, <1>7, <1>8, <1>9, <1>10
       DEF Next, MainStep, Exited

(* The types, but for the signs of the counters, are inductive.             *)
LEMMA LooseTypeKept == LooseType /\ PlaceInv /\ [Next]_vars => LooseType'
<1>1. QED
    BY NextFunTypes, NextNumberTypes, NextSetTypes DEF LooseType

(* Every step keeps what is known of the seed or entry at hand.             *)
LEMMA NextPlace == LooseType /\ PlaceInv /\ [Next]_vars => PlaceInv'
<1> SUFFICES ASSUME LooseType, PlaceInv, [Next]_vars PROVE PlaceInv'
    OBVIOUS
<1>0. NumberTypes /\ NumBits \in Nat /\ NumSeeds \in Nat /\ MaxQueue \in Nat
    BY SizeAssumption DEF LooseType
<1>1. /\ calFailed \in [Entries -> 0 .. CalChances]
      /\ topRated \in [Bits -> 0 .. MaxQueue]
    BY DEF LooseType, FunTypes
<1> USE <1>0 DEF PlaceInv, NumberTypes, DryRun, Bits, Entries
<1>2. CASE SeedUnparsable
    BY <1>2 DEF SeedUnparsable
<1>3. ASSUME NEW fault \in Faults, CalibrationFails(fault) PROVE PlaceInv'
    <2>1. \A q \in Entries : q > queueCur => calFailed'[q] = 0
        BY <1>1, <1>3 DEF CalibrationFails
    <2>2. QED
        BY <1>3, <2>1 DEF CalibrationFails
<1>4. ASSUME NEW fault \in Faults, NEW newTrace \in SUBSET Bits,
             NEW f \in Factors, Calibrate(fault, newTrace, f)
      PROVE  PlaceInv'
    <2>1. calFailed' = [calFailed EXCEPT ![queueCur] = 0] /\ pc = "seed"
        BY <1>4 DEF Calibrate
    <2>2. \A q \in Entries : q > queueCur => calFailed'[q] = 0
        BY <1>1, <2>1
    <2>3. QED
        BY <1>4, <2>2 DEF Calibrate
<1>5. CASE ScoreByte
    <2>1. \A i \in Bits : topRated'[i] =< queueCur
        BY <1>1, <1>5 DEF ScoreByte
    <2>2. QED
        BY <1>5, <2>1 DEF ScoreByte
<1>6. CASE SkipByte
    BY <1>6 DEF SkipByte
<1>7. CASE Scored
    BY <1>7 DEF Scored
<1>8. ASSUME NEW fault \in Faults, Judge(fault) PROVE PlaceInv'
    <2>1. CASE stopSoon
        BY <1>8, <2>1 DEF Judge
    <2>2. CASE ~stopSoon
        <3>1. \A q \in Entries : q > queueCur => calFailed'[q] = 0
            BY <1>1, <1>8, <2>2 DEF Judge
        <3>2. calFailures' < queueCur + 1 /\ UNCHANGED <<topRated, queued, bit>>
            BY <1>8, <2>2 DEF Judge
        <3>3. CASE queueCur < queued
            <4>1. queueCur' = queueCur + 1 /\ pc' = "seed"
                BY <1>8, <2>2, <3>3 DEF Judge
            <4>2. \A i \in Bits : topRated'[i] < queueCur' /\ topRated'[i] =< queueCur'
                BY <1>1, <1>8, <3>2, <4>1 DEF Judge
            <4>3. queued' = NumSeeds /\ bit' = 0
                BY <1>8, <3>2 DEF Judge
            <4>4. \A q \in Entries : q >= queueCur' => calFailed'[q] = 0
                BY <3>1, <4>1
            <4>5. QED
                BY <3>2, <3>3, <4>1, <4>2, <4>3, <4>4
        <3>4. CASE queueCur = queued
            <4>1. queueCur' = 0 /\ pc' \in {"fatal", "firstCull"}
                BY <1>8, <2>2, <3>4 DEF Judge
            <4>2. QED
                BY <3>2, <4>1
        <3>5. QED
            BY <1>8, <3>3, <3>4 DEF Judge
    <2>3. QED
        BY <2>1, <2>2
<1>9. CASE CullNothing \/ CullEnd
    BY <1>9 DEF CullNothing, CullEnd, AfterCull
<1>10. CASE CullStart \/ FavorHolder \/ PassByte
    BY <1>10 DEF CullStart, FavorHolder, PassByte
<1>11. CASE FuzzEntry
    BY <1>11, SizeAssumption DEF FuzzEntry, EntryToFuzz
<1>12. CASE EndEntry
    BY <1>12 DEF EndEntry
<1>13. CASE AddToQueue \/ StopSig
    BY <1>13 DEF AddToQueue, StopSig
<1>14. ASSUME NEW i \in Bits, MysqldWrites(i) PROVE PlaceInv'
    BY <1>14 DEF MysqldWrites
<1>15. CASE UNCHANGED vars
    BY <1>15 DEF vars
<1>16. QED
    BY <1>2, <1>3, <1>4, <1>5, <1>6, <1>7, <1>8, <1>9, <1>10, <1>11, <1>12,
       <1>13, <1>14, <1>15
       DEF Next, MainStep, CullQueue, Exited

(* Sets of entries and of bytes are finite.                                *)
LEMMA FiniteEntries == \A S \in SUBSET Entries : IsFiniteSet(S)
<1>1. IsFiniteSet(Entries)
    BY FS_Interval, SizeAssumption DEF Entries
<1>2. QED
    BY <1>1, FS_Subset

LEMMA FiniteBits == \A S \in SUBSET Bits : IsFiniteSet(S)
<1>1. IsFiniteSet(Bits)
    BY FS_Interval, SizeAssumption DEF Bits
<1>2. QED
    BY <1>1, FS_Subset

-----------------------------------------------------------------------------
(* pending_not_fuzzed.                                                     *)

(* Each entry is counted when it is added and leaves the count once.        *)
LEMMA NextPending ==
    LooseType /\ PlaceInv /\ PendingInv /\ [Next]_vars => PendingInv'
<1> SUFFICES ASSUME LooseType, PlaceInv, PendingInv, [Next]_vars
             PROVE  PendingInv'
    OBVIOUS
<1>0. /\ NumberTypes /\ wasFuzzed \subseteq Entries /\ IsFiniteSet(wasFuzzed)
      /\ Cardinality(wasFuzzed) \in Nat /\ NumSeeds \in Nat
    BY FiniteEntries, FS_CardinalityType, SizeAssumption DEF LooseType, SetTypes
<1>1. ASSUME UNCHANGED <<wasFuzzed, pendingNotFuzzed, queued>> PROVE PendingInv'
    BY <1>1 DEF PendingInv, PendingCounted
<1>2. CASE AddToQueue
    BY <1>0, <1>2 DEF AddToQueue, PendingInv, PendingCounted, NumberTypes
<1>3. CASE EndEntry
    <2>1. CASE NowFuzzed
        <3>1. wasFuzzed' = wasFuzzed \cup {queueCur} /\ queueCur \notin wasFuzzed
            BY <1>3, <2>1 DEF EndEntry, NowFuzzed
        <3>2. Cardinality(wasFuzzed') = Cardinality(wasFuzzed) + 1
            BY <1>0, <3>1, FS_AddElement
        <3>3. queueCur \in 1 .. queued /\ queued' = queued
            BY <1>0, <1>3 DEF EndEntry, PlaceInv, NumberTypes
        <3>4. pendingNotFuzzed' = pendingNotFuzzed - 1
            BY <1>3, <2>1 DEF EndEntry
        <3>5. QED
            BY <1>0, <3>1, <3>2, <3>3, <3>4
               DEF PendingInv, PendingCounted, NumberTypes
    <2>2. CASE ~NowFuzzed
        BY <1>1, <1>3, <2>2 DEF EndEntry
    <2>3. QED
        BY <2>1, <2>2
<1>4. ASSUME NEW fault \in Faults, CalibrationFails(fault) \/ Judge(fault)
      PROVE  PendingInv'
    BY <1>1, <1>4 DEF CalibrationFails, Judge
<1>5. ASSUME NEW fault \in Faults, NEW newTrace \in SUBSET Bits,
             NEW f \in Factors, Calibrate(fault, newTrace, f)
      PROVE  PendingInv'
    BY <1>1, <1>5 DEF Calibrate
<1>6. CASE SeedUnparsable \/ ScoreByte \/ SkipByte \/ Scored
    BY <1>1, <1>6 DEF SeedUnparsable, ScoreByte, SkipByte, Scored
<1>7. CASE CullQueue
    BY <1>1, <1>7
       DEF CullQueue, CullNothing, CullStart, FavorHolder, PassByte, CullEnd
<1>8. CASE FuzzEntry \/ StopSig
    BY <1>1, <1>8 DEF FuzzEntry, StopSig
<1>9. ASSUME NEW i \in Bits, MysqldWrites(i) PROVE PendingInv'
    BY <1>1, <1>9 DEF MysqldWrites
<1>10. CASE UNCHANGED vars
    BY <1>1, <1>10 DEF vars
<1>11. QED
    BY <1>2, <1>3, <1>4, <1>5, <1>6, <1>7, <1>8, <1>9, <1>10
       DEF Next, MainStep, Exited

-----------------------------------------------------------------------------
(* References and traces: update_bitmap_score takes byte i from its holder *)
(* and gives it to the entry at hand.                                      *)

Held(q) == {i \in Bits : topRated[i] = q}

(* What ScoreByte does to each entry, in terms of the bytes it holds.      *)
LEMMA ScoreByteHolds ==
  ASSUME LooseType, PlaceInv, RefInv, ScoreByte
  PROVE  \A q \in Entries :
            /\ tcRef'[q] = Cardinality(Held(q)')
            /\ traceMini'[q] # {} <=> Held(q)' # {}
<1>1. /\ topRated \in [Bits -> 0 .. MaxQueue] /\ tcRef \in [Entries -> Int]
      /\ traceMini \in [Entries -> SUBSET Bits]
    BY DEF LooseType, FunTypes
<1>2. queueCur \in Entries /\ bit \in Bits /\ bit \in trace
    BY SizeAssumption
       DEF ScoreByte, Wins, PlaceInv, DryRun, LooseType, NumberTypes, Bits, Entries
<1>3. topRated' = [topRated EXCEPT ![bit] = queueCur]
    BY DEF ScoreByte
<1>4. \A x \in Entries : /\ IsFiniteSet(Held(x)) /\ Cardinality(Held(x)) \in Nat
                         /\ tcRef[x] = Cardinality(Held(x))
                         /\ traceMini[x] # {} <=> Held(x) # {}
                         /\ Cardinality(Held(x)) = 0 <=> Held(x) = {}
    <2> TAKE x \in Entries
    <2>1. IsFiniteSet(Held(x))
        BY FiniteBits DEF Held
    <2>2. Cardinality(Held(x)) \in Nat /\ (Cardinality(Held(x)) = 0 <=> Held(x) = {})
        BY <2>1, FS_CardinalityType, FS_EmptySet
    <2>3. tcRef[x] = Cardinality(Held(x))
        BY DEF RefInv, RefCounts, Held
    <2>4. traceMini[x] # {} <=> Held(x) # {}
        BY DEF RefInv, HoldersKeepTrace, Held
    <2>5. QED
        BY <2>1, <2>2, <2>3, <2>4
<1> SUFFICES ASSUME NEW q \in Entries
             PROVE  /\ tcRef'[q] = Cardinality(Held(q)')
                    /\ traceMini'[q] # {} <=> Held(q)' # {}
    OBVIOUS
<1> DEFINE R == RefsWithoutHolder(bit)
           T == TracesWithoutHolder(bit)
<1>5. R \in [Entries -> Int] /\ R[q] = IF topRated[bit] = q THEN tcRef[q] - 1
                                                            ELSE tcRef[q]
    BY <1>1, <1>2, SizeAssumption DEF RefsWithoutHolder, Entries
<1>6. T \in [Entries -> SUBSET Bits]
      /\ T[q] = IF topRated[bit] = q /\ R[q] = 0 THEN {} ELSE traceMini[q]
    BY <1>1, <1>2, SizeAssumption DEF TracesWithoutHolder, Entries
<1>9. bit \in Held(q) <=> topRated[bit] = q
    BY <1>2 DEF Held
<1>7. CASE q = queueCur
    <2>1. Held(q)' = Held(q) \cup {bit}
        BY <1>1, <1>2, <1>3, <1>7 DEF Held
    <2>2. Cardinality(Held(q)') = IF topRated[bit] = q THEN Cardinality(Held(q))
                                  ELSE Cardinality(Held(q)) + 1
        <3>1. Cardinality(Held(q) \cup {bit}) =
                IF bit \in Held(q) THEN Cardinality(Held(q))
                ELSE Cardinality(Held(q)) + 1
            BY <1>4, FS_AddElement
        <3>2. QED
            BY <1>9, <2>1, <3>1
    <2>3. tcRef'[q] = R[q] + 1
        BY <1>5, <1>7 DEF ScoreByte
    <2>4. traceMini'[q] # {}
        BY <1>2, <1>6, <1>7 DEF ScoreByte
    <2>5. QED
        BY <1>4, <1>5, <2>1, <2>2, <2>3, <2>4
<1>8. CASE q # queueCur
    <2>1. Held(q)' = Held(q) \ {bit}
        BY <1>1, <1>2, <1>3, <1>8 DEF Held
    <2>2. Cardinality(Held(q)') = IF topRated[bit] = q THEN Cardinality(Held(q)) - 1
                                  ELSE Cardinality(Held(q))
        <3>1. Cardinality(Held(q) \ {bit}) =
                IF bit \in Held(q) THEN Cardinality(Held(q)) - 1
                ELSE Cardinality(Held(q))
            BY <1>4, FS_RemoveElement
        <3>2. QED
            BY <1>9, <2>1, <3>1
    <2>3. tcRef'[q] = R[q]
        BY <1>5, <1>8 DEF ScoreByte
    <2>4. traceMini'[q] = T[q]
        BY <1>2, <1>6, <1>8 DEF ScoreByte
    <2>5. tcRef'[q] = Cardinality(Held(q)')
        BY <1>4, <1>5, <2>2, <2>3
    <2>6. CASE topRated[bit] = q
        <3>1. IsFiniteSet(Held(q)')
            BY <1>4, <2>1, FS_RemoveElement
        <3>2. R[q] = 0 <=> Held(q)' = {}
            BY <2>3, <2>5, <3>1, FS_EmptySet
        <3>3. traceMini[q] # {}
            BY <1>2, <1>4, <2>6 DEF Held
        <3>4. QED
            BY <1>6, <2>4, <2>5, <2>6, <3>2, <3>3
    <2>7. CASE topRated[bit] # q
        <3>1. Held(q)' = Held(q)
            BY <2>1, <2>7 DEF Held
        <3>2. QED
            BY <1>4, <1>6, <2>4, <2>5, <2>7, <3>1
    <2>8. QED
        BY <2>6, <2>7
<1>10. QED
    BY <1>7, <1>8

(* Only update_bitmap_score touches references and traces.                  *)
LEMMA NextRef == LooseType /\ PlaceInv /\ RefInv /\ [Next]_vars => RefInv'
<1> SUFFICES ASSUME LooseType, PlaceInv, RefInv, [Next]_vars PROVE RefInv'
    OBVIOUS
<1>1. ASSUME UNCHANGED <<topRated, tcRef, traceMini>> PROVE RefInv'
    BY <1>1 DEF RefInv, RefCounts, HoldersKeepTrace
<1>2. CASE ScoreByte
    <2>1. RefCounts'
        BY <1>2, ScoreByteHolds DEF RefCounts, Held
    <2>2. HoldersKeepTrace'
        BY <1>2, ScoreByteHolds DEF HoldersKeepTrace, Held
    <2>3. QED
        BY <2>1, <2>2 DEF RefInv
<1>3. ASSUME NEW fault \in Faults, CalibrationFails(fault) \/ Judge(fault)
      PROVE  RefInv'
    BY <1>1, <1>3 DEF CalibrationFails, Judge
<1>4. ASSUME NEW fault \in Faults, NEW newTrace \in SUBSET Bits,
             NEW f \in Factors, Calibrate(fault, newTrace, f)
      PROVE  RefInv'
    BY <1>1, <1>4 DEF Calibrate
<1>5. CASE SeedUnparsable \/ SkipByte \/ Scored
    BY <1>1, <1>5 DEF SeedUnparsable, SkipByte, Scored
<1>6. CASE CullQueue
    BY <1>1, <1>6
       DEF CullQueue, CullNothing, CullStart, FavorHolder, PassByte, CullEnd
<1>7. CASE FuzzEntry \/ EndEntry \/ AddToQueue \/ StopSig
    BY <1>1, <1>7 DEF FuzzEntry, EndEntry, AddToQueue, StopSig
<1>8. ASSUME NEW i \in Bits, MysqldWrites(i) PROVE RefInv'
    BY <1>1, <1>8 DEF MysqldWrites
<1>9. CASE UNCHANGED vars
    BY <1>1, <1>9 DEF vars
<1>10. QED
    BY <1>2, <1>3, <1>4, <1>5, <1>6, <1>7, <1>8, <1>9
       DEF Next, MainStep, Exited

-----------------------------------------------------------------------------
(* Favored entries: how the loop of cull_queue and the end of fuzz_one     *)
(* change the two sets that queued_favored and pending_favored count.      *)

LEMMA FavorStep ==
  ASSUME LooseType, FavorHolder
  PROVE  LET t == topRated[bit]
         IN  /\ t \in Entries
             /\ favored' = favored \cup {t}
             /\ wasFuzzed' = wasFuzzed
             /\ Cardinality(favored) \in Nat
             /\ Cardinality(favored \ wasFuzzed) \in Nat
             /\ Cardinality(favored') = Cardinality(favored)
                                        + (IF t \in favored THEN 0 ELSE 1)
             /\ Cardinality(favored' \ wasFuzzed') =
                    Cardinality(favored \ wasFuzzed)
                    + (IF t \in favored \cup wasFuzzed THEN 0 ELSE 1)
<1> DEFINE t == topRated[bit]
<1>1. /\ t \in Entries
      /\ favored' = favored \cup {t}
      /\ wasFuzzed' = wasFuzzed
    BY DEF FavorHolder, StillOpen, LooseType, FunTypes, Entries
<1>2. IsFiniteSet(favored) /\ IsFiniteSet(favored \ wasFuzzed)
    BY FiniteEntries DEF LooseType, SetTypes
<1>3. Cardinality(favored) \in Nat /\ Cardinality(favored \ wasFuzzed) \in Nat
    BY <1>2, FS_CardinalityType
<1>4. Cardinality(favored \cup {t}) =
        IF t \in favored THEN Cardinality(favored) ELSE Cardinality(favored) + 1
    BY <1>2, FS_AddElement
<1>5. CASE t \in wasFuzzed
    <2>1. favored' \ wasFuzzed' = favored \ wasFuzzed
        BY <1>1, <1>5
    <2>2. QED
        BY <1>1, <1>3, <1>4, <1>5, <2>1
<1>6. CASE t \notin wasFuzzed
    <2>1. favored' \ wasFuzzed' = (favored \ wasFuzzed) \cup {t}
        BY <1>1, <1>6
    <2>2. t \in favored \ wasFuzzed <=> t \in favored \cup wasFuzzed
        BY <1>6
    <2>3. Cardinality((favored \ wasFuzzed) \cup {t}) =
            IF t \in favored \cup wasFuzzed THEN Cardinality(favored \ wasFuzzed)
            ELSE Cardinality(favored \ wasFuzzed) + 1
        BY <1>2, <2>2, FS_AddElement
    <2>4. Cardinality(favored' \ wasFuzzed') =
            Cardinality(favored \ wasFuzzed)
            + (IF t \in favored \cup wasFuzzed THEN 0 ELSE 1)
        <3>1. CASE t \in favored \cup wasFuzzed
            BY <1>3, <2>1, <2>3, <3>1
        <3>2. CASE t \notin favored \cup wasFuzzed
            BY <1>3, <2>1, <2>3, <3>2
        <3>3. QED
            BY <3>1, <3>2
    <2>5. Cardinality(favored') = Cardinality(favored)
                                  + (IF t \in favored THEN 0 ELSE 1)
        BY <1>1, <1>3, <1>4
    <2>6. QED
        BY <1>1, <1>3, <2>4, <2>5
<1>7. QED
    BY <1>5, <1>6

(* The end of fuzz_one takes at most one favorite off the pending ones.     *)
LEMMA EndStep ==
  ASSUME LooseType, EndEntry
  PROVE  /\ favored' = favored
         /\ queuedFavored' = queuedFavored
         /\ Cardinality(favored \ wasFuzzed) \in Nat
         /\ \E n \in {0, 1} :
                /\ pendingFavored' = pendingFavored - n
                /\ Cardinality(favored' \ wasFuzzed') =
                        Cardinality(favored \ wasFuzzed) - n
<1>1. /\ favored' = favored
      /\ queuedFavored' = queuedFavored
    BY DEF EndEntry
<1>2. IsFiniteSet(favored \ wasFuzzed)
    BY FiniteEntries DEF LooseType, SetTypes
<1>3. Cardinality(favored \ wasFuzzed) \in Nat /\ pendingFavored \in Int
    BY <1>2, FS_CardinalityType DEF LooseType, NumberTypes
<1>4. CASE NowFuzzed /\ WasPendingFavorite
    <2>1. /\ pendingFavored' = pendingFavored - 1
          /\ wasFuzzed' = wasFuzzed \cup {queueCur}
        BY <1>4 DEF EndEntry
    <2>2. favored' \ wasFuzzed' = (favored \ wasFuzzed) \ {queueCur}
        BY <1>1, <2>1
    <2>3. queueCur \in favored \ wasFuzzed
        BY <1>4 DEF NowFuzzed, WasPendingFavorite
    <2>4. Cardinality(favored' \ wasFuzzed') =
            Cardinality(favored \ wasFuzzed) - 1
        BY <1>2, <2>2, <2>3, FS_RemoveElement
    <2>5. QED
        BY <1>1, <1>3, <2>1, <2>4
<1>5. CASE ~(NowFuzzed /\ WasPendingFavorite)
    <2>1. pendingFavored' = pendingFavored
        BY <1>5 DEF EndEntry
    <2>2. favored' \ wasFuzzed' = favored \ wasFuzzed
        BY <1>1, <1>5 DEF EndEntry, NowFuzzed, WasPendingFavorite
    <2>3. QED
        BY <1>1, <1>3, <2>1, <2>2
<1>6. QED
    BY <1>4, <1>5

(* No favored entry goes uncounted, whatever the maps do.                   *)
LEMMA NextFavoredBound ==
    LooseType /\ FavoredBound /\ [Next]_vars => FavoredBound'
<1> SUFFICES ASSUME LooseType, FavoredBound, [Next]_vars PROVE FavoredBound'
    OBVIOUS
<1>0. queuedFavored \in Int /\ pendingFavored \in Int
    BY DEF LooseType, NumberTypes
<1>1. ASSUME UNCHANGED <<favored, wasFuzzed, queuedFavored, pendingFavored>>
      PROVE  FavoredBound'
    BY <1>1 DEF FavoredBound
<1>2. CASE FavorHolder
    <2>1. /\ queuedFavored' = queuedFavored + 1
          /\ pendingFavored' = pendingFavored
                + (IF topRated[bit] \in wasFuzzed THEN 0 ELSE 1)
        BY <1>0, <1>2 DEF FavorHolder
    <2>2. QED
        BY <1>0, <1>2, <2>1, FavorStep DEF FavoredBound
<1>3. CASE EndEntry
    BY <1>0, <1>3, EndStep DEF FavoredBound
<1>4. CASE CullStart
    <2>1. favored' = {} /\ queuedFavored' = 0 /\ pendingFavored' = 0
        BY <1>4 DEF CullStart
    <2>2. favored' \ wasFuzzed' = {}
        BY <2>1
    <2>3. QED
        BY <2>1, <2>2, FS_EmptySet DEF FavoredBound
<1>5. ASSUME NEW fault \in Faults, CalibrationFails(fault) \/ Judge(fault)
      PROVE  FavoredBound'
    BY <1>1, <1>5 DEF CalibrationFails, Judge
<1>6. ASSUME NEW fault \in Faults, NEW newTrace \in SUBSET Bits,
             NEW f \in Factors, Calibrate(fault, newTrace, f)
      PROVE  FavoredBound'
    BY <1>1, <1>6 DEF Calibrate
<1>7. CASE SeedUnparsable \/ ScoreByte \/ SkipByte \/ Scored
    BY <1>1, <1>7 DEF SeedUnparsable, ScoreByte, SkipByte, Scored
<1>8. CASE CullNothing \/ PassByte \/ CullEnd
    BY <1>1, <1>8 DEF CullNothing, PassByte, CullEnd
<1>9. CASE FuzzEntry \/ AddToQueue \/ StopSig
    BY <1>1, <1>9 DEF FuzzEntry, AddToQueue, StopSig
<1>10. ASSUME NEW i \in Bits, MysqldWrites(i) PROVE FavoredBound'
    BY <1>1, <1>10 DEF MysqldWrites
<1>11. CASE UNCHANGED vars
    BY <1>1, <1>11 DEF vars
<1>12. QED
    BY <1>2, <1>3, <1>4, <1>5, <1>6, <1>7, <1>8, <1>9, <1>10, <1>11
       DEF Next, MainStep, CullQueue, Exited

-----------------------------------------------------------------------------
(* The cover.                                                              *)

(* The loop of cull_queue leaves no byte behind it uncovered.               *)
LEMMA NextCover ==
    LooseType /\ PlaceInv /\ CoverInv /\ [Next]_vars => CoverInv'
<1> SUFFICES ASSUME LooseType, PlaceInv, CoverInv, [Next]_vars PROVE CoverInv'
    OBVIOUS
<1>0. bit \in Int /\ tempV \subseteq Bits /\ NumBits \in Nat
    BY SizeAssumption DEF LooseType, NumberTypes, SetTypes
<1> USE DEF DryRun, Culling
<1>1. CASE SeedUnparsable \/ SkipByte \/ Scored
    BY <1>1 DEF CoverInv, SeedUnparsable, SkipByte, Scored
<1>2. ASSUME NEW fault \in Faults, CalibrationFails(fault) PROVE CoverInv'
    BY <1>2 DEF CoverInv, CalibrationFails
<1>3. ASSUME NEW fault \in Faults, NEW newTrace \in SUBSET Bits,
             NEW f \in Factors, Calibrate(fault, newTrace, f)
      PROVE  CoverInv'
    BY <1>3 DEF CoverInv, Calibrate
<1>4. CASE ScoreByte
    BY <1>4 DEF CoverInv, ScoreByte
<1>5. ASSUME NEW fault \in Faults, Judge(fault) PROVE CoverInv'
    <2>1. /\ pc = "judge" /\ pc' \in {"seed", "firstCull", "fatal"}
          /\ bit' = 0 /\ UNCHANGED <<topRated, scoreChanged>>
        BY <1>5 DEF Judge, PlaceInv
    <2>2. QED
        BY <2>1 DEF CoverInv, Covered
<1>6. CASE CullNothing
    <2>1. \A i \in Bits : Covered(i)'
        BY <1>6 DEF CullNothing, CoverInv, Covered
    <2>2. pc' \in {"cull", "next", "stopped"} /\ bit' = 0
        BY <1>6 DEF CullNothing, AfterCull
    <2>3. QED
        BY <2>1, <2>2 DEF CoverInv
<1>7. CASE CullStart
    <2>1. pc' \in {"firstCull", "cull"} /\ bit' = 1 /\ tempV' = Bits
        BY <1>7 DEF CullStart
    <2>2. QED
        BY <2>1 DEF CoverInv, Bits
<1>8. CASE FavorHolder
    <2>1. /\ Culling /\ bit \in Bits /\ bit >= 1 /\ bit' = bit + 1
          /\ pc' = pc /\ UNCHANGED <<topRated, traceMini>>
          /\ tempV' = tempV \ traceMini[topRated[bit]]
          /\ favored' = favored \cup {topRated[bit]}
        BY <1>8 DEF FavorHolder, LeftOpen, Bits
    <2>2. \A i \in Bits : i < bit => Covered(i)'
        BY <2>1 DEF CoverInv, Covered
    <2>4. \A i \in Bits : i < bit' => Covered(i)'
        <3>1. \A i \in Bits : i < bit' => i < bit \/ i = bit
            BY <1>0, <2>1 DEF Bits
        <3>2. \A i \in Bits : i = bit => Covered(i)'
            BY <2>1 DEF Covered
        <3>3. QED
            BY <2>2, <3>1, <3>2
    <2>5. \A i \in Bits \ tempV' : \E q \in favored' : i \in traceMini'[q]
        BY <2>1 DEF CoverInv
    <2>6. QED
        BY <1>0, <2>1, <2>4, <2>5 DEF CoverInv
<1>9. CASE PassByte
    <2>1. /\ Culling /\ bit \in Bits /\ bit >= 1 /\ bit' = bit + 1
          /\ pc' = pc /\ UNCHANGED <<topRated, traceMini, favored, tempV>>
        BY <1>9 DEF PassByte, Bits
    <2>2. topRated[bit] = 0 \/ bit \notin tempV
        BY <1>9 DEF PassByte, StillOpen
    <2>3. \A i \in Bits : i = bit => Covered(i)'
        BY <2>1, <2>2 DEF CoverInv, Covered
    <2>4. \A i \in Bits : i < bit => Covered(i)'
        BY <2>1 DEF CoverInv, Covered
    <2>5. \A i \in Bits : i < bit' => i < bit \/ i = bit
        BY <1>0, <2>1 DEF Bits
    <2>6. \A i \in Bits : i < bit' => Covered(i)'
        BY <2>3, <2>4, <2>5
    <2>7. QED
        BY <1>0, <2>1, <2>6 DEF CoverInv
<1>10. CASE CullEnd
    <2>1. /\ Culling /\ bit >= 1 /\ bit > NumBits /\ bit' = 0
          /\ pc' \in {"cull", "next", "stopped"}
          /\ UNCHANGED <<topRated, traceMini, favored>>
        BY <1>0, <1>10 DEF CullEnd, AfterCull
    <2>2. \A i \in Bits : i < bit
        BY <1>0, <2>1 DEF Bits
    <2>3. \A i \in Bits : Covered(i)'
        BY <2>1, <2>2 DEF CoverInv, Covered
    <2>4. QED
        BY <2>1, <2>3 DEF CoverInv
<1>11. CASE FuzzEntry
    BY <1>11 DEF CoverInv, FuzzEntry, Covered
<1>12. CASE EndEntry
    BY <1>12 DEF CoverInv, EndEntry, PlaceInv, Covered
<1>13. CASE AddToQueue \/ StopSig
    BY <1>13 DEF CoverInv, AddToQueue, StopSig, Covered
<1>14. ASSUME NEW i \in Bits, MysqldWrites(i) PROVE CoverInv'
    BY <1>14 DEF CoverInv, MysqldWrites
<1>15. CASE UNCHANGED vars
    BY <1>15 DEF CoverInv, vars, Covered
<1>16. QED
    BY <1>1, <1>2, <1>3, <1>4, <1>5, <1>6, <1>7, <1>8, <1>9, <1>10, <1>11,
       <1>12, <1>13, <1>14, <1>15
       DEF Next, MainStep, CullQueue, Exited

-----------------------------------------------------------------------------
(* The counts, as long as no map changed while its seed was scored.        *)

(* The map does not become undisturbed again.                               *)
LEMMA QuietBefore == [Next]_vars /\ ~disturbed' => ~disturbed
<1> SUFFICES ASSUME [Next]_vars, ~disturbed' PROVE ~disturbed
    OBVIOUS
<1>1. ASSUME NEW fault \in Faults, CalibrationFails(fault) \/ Judge(fault)
      PROVE  ~disturbed
    BY <1>1 DEF CalibrationFails, Judge
<1>2. ASSUME NEW fault \in Faults, NEW newTrace \in SUBSET Bits,
             NEW f \in Factors, Calibrate(fault, newTrace, f)
      PROVE  ~disturbed
    BY <1>2 DEF Calibrate
<1>3. CASE SeedUnparsable \/ ScoreByte \/ SkipByte \/ Scored
    BY <1>3 DEF SeedUnparsable, ScoreByte, SkipByte, Scored
<1>4. CASE CullQueue
    BY <1>4
       DEF CullQueue, CullNothing, CullStart, FavorHolder, PassByte, CullEnd
<1>5. CASE FuzzEntry \/ EndEntry \/ AddToQueue \/ StopSig
    BY <1>5 DEF FuzzEntry, EndEntry, AddToQueue, StopSig
<1>6. ASSUME NEW i \in Bits, MysqldWrites(i) PROVE ~disturbed
    BY <1>6 DEF MysqldWrites
<1>7. CASE UNCHANGED vars
    BY <1>7 DEF vars
<1>8. QED
    BY <1>1, <1>2, <1>3, <1>4, <1>5, <1>6, <1>7 DEF Next, MainStep, Exited

(* The byte that an undisturbed ScoreByte moves is in the trace of the     *)
(* winner, and no other holder loses a trace it still needs.               *)
LEMMA ScoreByteTraces ==
  ASSUME LooseType, PlaceInv, RefInv, CountInv, ScoreByte
  PROVE  /\ \A i \in Bits : topRated'[i] # 0 => i \in traceMini'[topRated'[i]]
         /\ traceMini'[queueCur] = trace
<1>1. /\ topRated \in [Bits -> 0 .. MaxQueue]
      /\ traceMini \in [Entries -> SUBSET Bits]
      /\ trace \subseteq Bits
    BY DEF LooseType, FunTypes, SetTypes
<1>2. queueCur \in Entries /\ bit \in Bits /\ bit \in trace
    BY SizeAssumption
       DEF ScoreByte, Wins, PlaceInv, DryRun, LooseType, NumberTypes, Bits, Entries
<1>3. topRated' = [topRated EXCEPT ![bit] = queueCur]
    BY DEF ScoreByte
<1> DEFINE T == TracesWithoutHolder(bit)
<1>4. T \in [Entries -> SUBSET Bits]
      /\ \A x \in Entries : T[x] = traceMini[x] \/ T[x] = {}
    BY <1>1 DEF TracesWithoutHolder
<1>5. traceMini[queueCur] = {} \/ traceMini[queueCur] = trace
    BY DEF CountInv, ScoreByte
<1>6. traceMini'[queueCur] = trace
    <2>1. CASE T[queueCur] = {}
        <3>1. traceMini' = [T EXCEPT ![queueCur] = trace]
            BY <2>1 DEF ScoreByte
        <3>2. QED
            BY <1>2, <1>4, <3>1
    <2>2. CASE T[queueCur] # {}
        <3>1. traceMini' = T
            BY <2>2 DEF ScoreByte
        <3>2. QED
            BY <1>2, <1>4, <1>5, <2>2, <3>1
    <2>3. QED
        BY <2>1, <2>2
<1>7. \A x \in Entries : x # queueCur => traceMini'[x] = T[x]
    BY <1>4 DEF ScoreByte
<1>8. ASSUME NEW i \in Bits, topRated'[i] # 0
      PROVE  i \in traceMini'[topRated'[i]]
    <2>1. CASE i = bit
        BY <1>1, <1>2, <1>3, <1>6, <2>1
    <2>2. CASE i # bit
        <3>1. topRated'[i] = topRated[i] /\ topRated[i] \in Entries
            BY <1>1, <1>3, <1>8, <2>2, SizeAssumption DEF Entries
        <3>2. i \in traceMini[topRated[i]]
            BY <1>8, <3>1 DEF CountInv
        <3>3. CASE topRated[i] = queueCur
            BY <1>5, <1>6, <3>1, <3>2, <3>3
        <3>4. CASE topRated[i] # queueCur
            <4>1. i \in Held(topRated[i])'
                BY <3>1 DEF Held
            <4>2. traceMini'[topRated[i]] # {}
                BY <3>1, <4>1, ScoreByteHolds
            <4>3. QED
                BY <1>4, <1>7, <3>1, <3>2, <3>4, <4>2
        <3>5. QED
            BY <3>3, <3>4
    <2>3. QED
        BY <2>1, <2>2
<1>9. QED
    BY <1>6, <1>8

(* Counts stay exact while no map has changed under a score.                *)
LEMMA NextQuiet ==
    LooseType /\ PlaceInv /\ RefInv /\ QuietInv /\ [Next]_vars => QuietInv'
<1> SUFFICES ASSUME LooseType, PlaceInv, RefInv, QuietInv, [Next]_vars,
                    ~disturbed'
             PROVE  CountInv'
    BY DEF QuietInv
<1>1. CountInv /\ FavoredCounted
    BY QuietBefore DEF QuietInv, CountInv
<1>2. bit \in Int /\ queuedFavored \in Int /\ pendingFavored \in Int
    BY DEF LooseType, NumberTypes
<1>3. ASSUME UNCHANGED <<topRated, traceMini, trace, favored, wasFuzzed,
                         queuedFavored, pendingFavored, queueCur, tempV>>,
             pc' = "score" => pc = "score",
             Culling' /\ bit' >= 1 => Culling /\ bit >= 1
      PROVE  CountInv'
    BY <1>1, <1>3 DEF CountInv, FavoredCounted
<1>4. ASSUME UNCHANGED <<topRated, traceMini, favored, wasFuzzed,
                         queuedFavored, pendingFavored>>,
             pc' # "score", bit' = 0
      PROVE  CountInv'
    BY <1>1, <1>4 DEF CountInv, FavoredCounted
<1>5. CASE SeedUnparsable \/ Scored
    BY <1>4, <1>5 DEF SeedUnparsable, Scored, PlaceInv
<1>6. ASSUME NEW fault \in Faults, CalibrationFails(fault) PROVE CountInv'
    BY <1>4, <1>6 DEF CalibrationFails, PlaceInv
<1>7. ASSUME NEW fault \in Faults, Judge(fault) PROVE CountInv'
    <2>1. pc' \in {"seed", "firstCull", "fatal"} /\ bit' = 0
        BY <1>7 DEF Judge, PlaceInv
    <2>2. QED
        BY <1>4, <1>7, <2>1 DEF Judge
<1>8. ASSUME NEW fault \in Faults, NEW newTrace \in SUBSET Bits,
             NEW f \in Factors, Calibrate(fault, newTrace, f)
      PROVE  CountInv'
    <2>1. traceMini[queueCur] = {}
        <3>1. queueCur \in Entries /\ \A i \in Bits : topRated[i] # queueCur
            BY <1>8, SizeAssumption
               DEF Calibrate, PlaceInv, DryRun, LooseType, NumberTypes,
                   FunTypes, Entries
        <3>2. QED
            BY <3>1 DEF RefInv, HoldersKeepTrace
    <2>2. /\ pc' = "score"
          /\ UNCHANGED <<topRated, traceMini, favored, wasFuzzed,
                         queuedFavored, pendingFavored, queueCur>>
        BY <1>8 DEF Calibrate
    <2>3. QED
        BY <1>1, <2>1, <2>2 DEF CountInv, FavoredCounted, Culling
<1>9. CASE ScoreByte
    <2>1. /\ \A i \in Bits : topRated'[i] # 0 => i \in traceMini'[topRated'[i]]
          /\ traceMini'[queueCur] = trace
        BY <1>1, <1>9, ScoreByteTraces
    <2>2. /\ pc' = "score"
          /\ UNCHANGED <<trace, favored, wasFuzzed, queuedFavored,
                         pendingFavored, queueCur>>
        BY <1>9 DEF ScoreByte
    <2>3. QED
        BY <1>1, <2>1, <2>2 DEF CountInv, FavoredCounted, Culling
<1>10. CASE SkipByte
    <2>1. pc' = "score" /\ pc = "score"
        BY <1>10 DEF SkipByte
    <2>2. QED
        BY <1>3, <1>10, <2>1 DEF SkipByte, Culling
<1>11. CASE CullNothing \/ CullEnd
    <2>1. pc' \in {"cull", "next", "stopped"} /\ bit' = 0
        BY <1>11 DEF CullNothing, CullEnd, AfterCull
    <2>2. QED
        BY <1>4, <1>11, <2>1 DEF CullNothing, CullEnd
<1>12. CASE CullStart
    <2>1. /\ favored' = {} /\ queuedFavored' = 0 /\ pendingFavored' = 0
          /\ pc' # "score" /\ UNCHANGED <<topRated, traceMini>>
        BY <1>12 DEF CullStart
    <2>2. favored' \ wasFuzzed' = {}
        BY <2>1
    <2>3. FavoredCounted'
        BY <2>1, <2>2, FS_EmptySet DEF FavoredCounted
    <2>4. QED
        BY <1>1, <2>1, <2>3 DEF CountInv
<1>13. CASE FavorHolder
    <2>1. /\ Culling /\ bit \in Bits /\ bit >= 1 /\ bit \in tempV
          /\ topRated[bit] # 0
          /\ pc' = pc /\ UNCHANGED <<topRated, traceMini>>
          /\ tempV' = tempV \ traceMini[topRated[bit]]
          /\ favored' = favored \cup {topRated[bit]}
        BY <1>13 DEF FavorHolder, StillOpen, LeftOpen, Bits, Culling
    <2>2. bit \in traceMini[topRated[bit]]
        BY <1>1, <2>1 DEF CountInv
    <2>3. topRated[bit] \notin favored
        BY <1>1, <2>1, <2>2 DEF CountInv
    <2>4. \A q \in favored' : traceMini'[q] \cap tempV' = {}
        BY <1>1, <2>1 DEF CountInv
    <2>5. /\ queuedFavored' = queuedFavored + 1
          /\ pendingFavored' = pendingFavored
                + (IF topRated[bit] \in wasFuzzed THEN 0 ELSE 1)
        BY <1>2, <1>13 DEF FavorHolder
    <2>6. (IF topRated[bit] \in favored \cup wasFuzzed THEN 0 ELSE 1)
            = (IF topRated[bit] \in wasFuzzed THEN 0 ELSE 1)
        BY <2>3
    <2>7. FavoredCounted'
        BY <1>1, <1>13, <2>3, <2>5, <2>6, FavorStep DEF FavoredCounted
    <2>8. QED
        BY <1>1, <2>1, <2>4, <2>7 DEF CountInv, Culling
<1>14. CASE PassByte
    <2>1. /\ Culling /\ bit >= 1 /\ pc' = pc /\ pc # "score"
        BY <1>14 DEF PassByte, Bits, Culling
    <2>2. QED
        BY <1>3, <1>14, <2>1 DEF PassByte
<1>15. CASE FuzzEntry
    BY <1>4, <1>15 DEF FuzzEntry, PlaceInv
<1>16. CASE EndEntry
    <2>1. /\ pc' \in {"cull", "stopped"} /\ bit' = 0
          /\ UNCHANGED <<topRated, traceMini>>
        BY <1>16 DEF EndEntry, PlaceInv
    <2>2. FavoredCounted'
        BY <1>1, <1>2, <1>16, EndStep DEF FavoredCounted
    <2>3. QED
        BY <1>1, <2>1, <2>2 DEF CountInv
<1>17. CASE AddToQueue \/ StopSig
    BY <1>3, <1>17 DEF AddToQueue, StopSig, Culling
<1>18. ASSUME NEW i \in Bits, MysqldWrites(i) PROVE CountInv'
    BY <1>18 DEF MysqldWrites
<1>19. CASE UNCHANGED vars
    BY <1>3, <1>19 DEF vars, Culling
<1>20. QED
    BY <1>5, <1>6, <1>7, <1>8, <1>9, <1>10, <1>11, <1>12, <1>13, <1>14,
       <1>15, <1>16, <1>17, <1>18, <1>19
       DEF Next, MainStep, CullQueue, Exited

-----------------------------------------------------------------------------
(* Theorems.                                                               *)

(* The inductive invariant.                                                *)
LEMMA Invariance == Spec => [](FlagTypeOK /\ IInv)
<1>1. FlagTypeOK /\ IInv /\ [Next]_vars => (FlagTypeOK /\ IInv)'
    BY NextFlagType, LooseTypeKept, NextPlace, NextPending, NextRef,
       NextFavoredBound, NextCover, NextQuiet DEF IInv
<1>2. QED
    BY InitInv, <1>1, PTL DEF Spec

(* Every variable has its type; in particular no counter of afl-fuzz is    *)
(* ever decremented below zero.                                            *)
THEOREM TypeCorrect == Spec => []TypeOK
<1>1. IInv => CountersIn(Nat)
    <2> SUFFICES ASSUME IInv PROVE CountersIn(Nat)
        OBVIOUS
    <2>1. tcRef \in [Entries -> Nat]
        <3>1. tcRef \in [Entries -> Int]
            BY DEF IInv, LooseType, FunTypes
        <3>2. \A q \in Entries : tcRef[q] \in Nat
            BY FiniteBits, FS_CardinalityType DEF IInv, RefInv, RefCounts
        <3>3. QED
            BY <3>1, <3>2
    <2>2. queuedFavored \in Nat /\ pendingFavored \in Nat
        <3>1. IsFiniteSet(favored) /\ IsFiniteSet(favored \ wasFuzzed)
            BY FiniteEntries DEF IInv, LooseType, SetTypes
        <3>2. /\ Cardinality(favored) \in Nat
              /\ Cardinality(favored \ wasFuzzed) \in Nat
            BY <3>1, FS_CardinalityType
        <3>3. QED
            BY <3>2 DEF IInv, FavoredBound, LooseType, NumberTypes
    <2>3. pendingNotFuzzed \in Nat
        <3>1. queued \in Nat /\ wasFuzzed \subseteq 1 .. queued
            BY SizeAssumption DEF IInv, PendingInv, LooseType, NumberTypes
        <3>2. IsFiniteSet(1 .. queued) /\ Cardinality(1 .. queued) = queued
            BY <3>1, FS_Interval
        <3>3. IsFiniteSet(wasFuzzed) /\ Cardinality(wasFuzzed) =< queued
            BY <3>1, <3>2, FS_Subset
        <3>4. Cardinality(wasFuzzed) \in Nat
            BY <3>3, FS_CardinalityType
        <3>5. QED
            BY <3>1, <3>3, <3>4 DEF IInv, PendingInv, PendingCounted
    <2>4. QED
        BY <2>1, <2>2, <2>3 DEF CountersIn
<1>2. IInv => DataTypeOK
    BY DEF IInv, LooseType, FunTypes, NumberTypes, SetTypes, DataTypeOK
<1>3. QED
    BY Invariance, <1>1, <1>2, PTL DEF TypeOK

(* tc_ref counts the bytes an entry holds.                                 *)
THEOREM ReferencesCounted == Spec => []RefCounts
<1>1. IInv => RefCounts
    BY DEF IInv, RefInv
<1>2. QED
    BY Invariance, <1>1, PTL

(* Exactly the holders of bytes have a compressed trace, so cull_queue     *)
(* never follows a null trace_mini.                                        *)
THEOREM TracesKept == Spec => []HoldersKeepTrace
<1>1. IInv => HoldersKeepTrace
    BY DEF IInv, RefInv
<1>2. QED
    BY Invariance, <1>1, PTL

(* When an entry is taken up, the favored entries stand for every byte     *)
(* that some seed has set, even if maps changed while they were scored.    *)
THEOREM FavoredStandForAll == Spec => []FavoredCover
<1>1. IInv => FavoredCover
    BY DEF IInv, CoverInv, FavoredCover, Covered
<1>2. QED
    BY Invariance, <1>1, PTL

(* The two counters of favored entries are right as long as no map changed *)
(* while its seed was scored.                                              *)
THEOREM FavoredCountsRight == Spec => []FavoredCountedIfQuiet
<1>1. IInv => FavoredCountedIfQuiet
    BY DEF IInv, QuietInv, CountInv, FavoredCountedIfQuiet
<1>2. QED
    BY Invariance, <1>1, PTL

(* pending_not_fuzzed counts the entries that fuzz_one has yet to finish.  *)
THEOREM PendingCountsRight == Spec => []PendingCounted
<1>1. IInv => PendingCounted
    BY DEF IInv, PendingInv
<1>2. QED
    BY Invariance, <1>1, PTL

=============================================================================
