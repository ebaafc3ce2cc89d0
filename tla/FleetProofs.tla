---------------------------- MODULE FleetProofs ----------------------------
(***************************************************************************)
(* Proofs about Fleet for every number of instances, deaths and keys.      *)
(* ServersComeBack is a liveness property and is only model-checked.       *)
(***************************************************************************)
EXTENDS Fleet, SequenceTheorems, TLAPS

(* Everything an action mentions in its UNCHANGED. *)
USE DEF Others, Untouched

Watching == pc \in {"ask", "answer", "forget", "restart", "dead"}

(* The launch of instance i is over. *)
Done(i) == Watching \/ i < cur

(* shm_env.txt and the afl-fuzz that the script waits for. *)
Handed == \/ fuzz[cur] = "opened" /\ shmEnv = Empty
          \/ fuzz[cur] = "running" /\ shmEnv = cur

InstInv(i) ==
    /\ ~Done(i) => pane[i] = <<>> /\ procs[i] = 0
    /\ Done(i) => fuzz[i] \in {"opened", "running"} /\ command[i] \in {i, Empty}
    /\ ~Watching /\ i > cur => fuzz[i] = "off"

FileInv ==
    /\ pc \in {"clean", "launch"} => fuzz[cur] = "off"
    /\ pc = "launch" \/ pc = "start" \/ Watching => shmEnv = NoFile
    /\ pc = "poll" =>
          (fuzz[cur] \in {"typed", "segments", "failed"} /\ shmEnv = NoFile) \/ Handed
    /\ pc \in {"read", "remove"} => Handed
    /\ pc \in {"remove", "start"} => command[cur] \in {cur, Empty}
    /\ pc = "start" => fuzz[cur] \in {"opened", "running"}

LaunchInv == FileInv /\ \A i \in Insts : InstInv(i)

(* No server runs on the data directory that the pane is about to start.   *)
Settled(i) ==
    \/ pane[i] = <<>> /\ procs[i] =< 1
    \/ pane[i] = <<Mysqld>> /\ procs[i] = 0

(* The pane that was asked: it has answered, and truly, or it is about to. *)
Asked(i) ==
    \/ /\ pane[i] = <<>> /\ procs[i] =< 1
       /\ answer \in {"running", "gone"} /\ (answer = "gone" => procs[i] = 0)
    \/ pane[i] = <<Jobs>> /\ procs[i] =< 1
    \/ pane[i] = <<Writing>> /\ procs[i] =< 1 /\ answer = "empty"
    \/ pane[i] = <<Mysqld, Jobs>> /\ procs[i] = 0

PaneInv(i) ==
    IF i = cur /\ pc = "answer" THEN Asked(i)
    ELSE IF i = cur /\ pc \in {"forget", "restart"}
    THEN pane[i] = <<>> /\ procs[i] =< 1 /\ (isCrash => procs[i] = 0)
    ELSE Settled(i)

(* Before the first late answer. *)
WatchInv == ~late => pc # "dead" /\ \A i \in Insts : PaneInv(i)

IInv == TypeOK /\ LaunchInv /\ WatchInv

-----------------------------------------------------------------------------
(* The ids and the other contents of the file are told apart. *)
LEMMA ContentFacts ==
    /\ 1 \in Insts /\ Insts \subseteq Contents
    /\ Empty \in Contents /\ NoFile \in Contents /\ Stale \in Contents
    /\ NoCommand \in Contents
    /\ Empty # NoFile /\ Stale # NoFile
    /\ \A i \in Insts : i # Empty /\ i # NoFile
BY FleetAssumption DEF Insts, Contents, Empty, NoFile, Stale, NoCommand

(* What the script types and the shell reads. *)
LEMMA PaneFacts ==
    /\ Append(<<>>, Mysqld) = <<Mysqld>>
    /\ Append(<<>>, Jobs) = <<Jobs>>
    /\ Append(<<Mysqld>>, Jobs) = <<Mysqld, Jobs>>
    /\ Head(<<Mysqld>>) = Mysqld /\ Tail(<<Mysqld>>) = <<>>
    /\ Head(<<Jobs>>) = Jobs /\ Tail(<<Jobs>>) = <<>>
    /\ Head(<<Mysqld, Jobs>>) = Mysqld /\ Tail(<<Mysqld, Jobs>>) = <<Jobs>>
    /\ Head(<<Writing>>) = Writing /\ Tail(<<Writing>>) = <<>>
    /\ <<Writing>> \o <<>> = <<Writing>> /\ <<Writing>> # <<>>
    /\ Jobs # Mysqld /\ Jobs # Writing /\ Writing # Mysqld
    /\ <<Mysqld>> # <<>> /\ <<Jobs>> # <<>> /\ <<Mysqld, Jobs>> # <<>>
<1>1. Jobs # Mysqld /\ Jobs # Writing /\ Writing # Mysqld
    BY DEF Mysqld, Jobs, Writing
<1>2. ASSUME NEW a, NEW b
      PROVE  /\ Append(<<>>, a) = <<a>> /\ <<a>> \o <<>> = <<a>>
             /\ Head(<<a>>) = a /\ Tail(<<a>>) = <<>>
             /\ Head(<<a, b>>) = a /\ Tail(<<a, b>>) = <<b>>
             /\ <<a>> # <<>> /\ <<a, b>> # <<>>
    OBVIOUS
<1>3. Append(<<Mysqld>>, Jobs) = <<Mysqld, Jobs>>
    <2>1. <<Mysqld>> \in Seq({Mysqld, Jobs}) /\ <<Mysqld, Jobs>> \in Seq({Mysqld, Jobs})
        OBVIOUS
    <2>2. Append(<<Mysqld>>, Jobs) \in Seq({Mysqld, Jobs})
        BY <2>1
    <2>3. /\ Len(Append(<<Mysqld>>, Jobs)) = 2
          /\ Append(<<Mysqld>>, Jobs)[1] = Mysqld
          /\ Append(<<Mysqld>>, Jobs)[2] = Jobs
        BY <2>1
    <2>4. \A k \in 1..2 : Append(<<Mysqld>>, Jobs)[k] = <<Mysqld, Jobs>>[k]
        BY <2>3
    <2>5. QED
        BY <2>1, <2>2, <2>3, <2>4, SeqEqual
<1>4. QED
    BY <1>1, <1>2, <1>3

LEMMA SeqTypes ==
    ASSUME NEW s \in Seq(Keys)
    PROVE  /\ Append(s, Jobs) \in Seq(Keys)
           /\ Append(s, Mysqld) \in Seq(Keys)
           /\ s # <<>> => Tail(s) \in Seq(Keys)
           /\ s # <<>> => <<Writing>> \o Tail(s) \in Seq(Keys)
BY DEF Keys

-----------------------------------------------------------------------------
(* Types. *)
LEMMA InitType == Init => TypeOK
<1> SUFFICES ASSUME Init PROVE TypeOK
    OBVIOUS
<1>1. pane \in [Insts -> Seq(Keys)]
    <2>1. <<>> \in Seq(Keys)
        OBVIOUS
    <2>2. QED
        BY <2>1 DEF Init
<1>2. procs \in [Insts -> 0..2] /\ deaths \in 0..MaxDeaths
    BY FleetAssumption DEF Init
<1>3. QED
    BY <1>1, <1>2, ContentFacts DEF Init, TypeOK

LEMMA ScriptType ==
    ASSUME TypeOK, Script PROVE TypeOK'
<1> USE DEF TypeOK
<1>1. CASE CleanUp \/ LaunchFuzzer \/ Poll \/ ReadShmEnv \/ RemoveShmEnv
    BY <1>1, ContentFacts DEF CleanUp, LaunchFuzzer, Poll, ReadShmEnv, RemoveShmEnv, Removed
<1>2. CASE StartServer
    <2>1. pane' \in [Insts -> Seq(Keys)]
        BY <1>2, SeqTypes DEF StartServer
    <2>2. cur' \in Insts
        BY <1>2, FleetAssumption DEF StartServer, Insts
    <2>3. pc' \in {"launch", "ask"}
        BY <1>2 DEF StartServer
    <2>4. QED
        BY <1>2, <2>1, <2>2, <2>3 DEF StartServer
<1>3. CASE Ask
    BY <1>3, SeqTypes DEF Ask
<1>4. CASE ReadAnswer
    BY <1>4 DEF ReadAnswer, LooksDead, Answered
<1>5. CASE RemoveAnswer
    BY <1>5 DEF RemoveAnswer
<1>6. CASE RestartIfDead
    <2>1. pane' \in [Insts -> Seq(Keys)]
        BY <1>6, SeqTypes DEF RestartIfDead
    <2>2. cur' \in Insts
        BY <1>6, FleetAssumption DEF RestartIfDead, LastInst, Insts
    <2>3. QED
        BY <1>6, <2>1, <2>2 DEF RestartIfDead
<1>7. QED
    BY <1>1, <1>2, <1>3, <1>4, <1>5, <1>6 DEF Script

LEMMA InstType ==
    ASSUME TypeOK, NEW i \in Insts,
           Fuzzer(i) \/ FuzzerFails(i) \/ Shell(i) \/ FindsLock(i) \/ FindsNoMap(i) \/ Dies(i)
    PROVE  TypeOK'
<1> USE DEF TypeOK
<1>1. CASE Fuzzer(i) \/ FuzzerFails(i)
    BY <1>1, ContentFacts
    DEF Fuzzer, CreateSegments, OpenShmEnv, WriteShmEnv, FuzzerFails
<1>2. CASE ShellOpens(i) \/ ShellWrites(i)
    BY <1>2, SeqTypes DEF ShellOpens, ShellWrites
<1>3. CASE ShellStarts(i)
    <2>1. pane' \in [Insts -> Seq(Keys)]
        BY <1>3, SeqTypes DEF ShellStarts
    <2>2. procs[i] + 1 \in 0..2
        <3>1. procs[i] \in 0..2 /\ procs[i] < 2
            BY <1>3 DEF ShellStarts
        <3>2. QED
            BY <3>1
    <2>3. QED
        BY <1>3, <2>1, <2>2 DEF ShellStarts
<1>4. CASE FindsLock(i) \/ FindsNoMap(i)
    <2>1. procs[i] \in 0..2 /\ procs[i] > 0
        BY <1>4 DEF FindsLock, FindsNoMap
    <2>2. procs[i] - 1 \in 0..2 /\ 1 \in 0..2
        BY <2>1
    <2>3. procs' \in [Insts -> 0..2]
        BY <1>4, <2>2 DEF FindsLock, FindsNoMap
    <2>4. QED
        BY <1>4, <2>3 DEF FindsLock, FindsNoMap
<1>5. CASE Dies(i)
    BY <1>5, FleetAssumption DEF Dies
<1>6. QED
    BY <1>1, <1>2, <1>3, <1>4, <1>5 DEF Shell

LEMMA NextType == TypeOK /\ [Next]_vars => TypeOK'
<1> SUFFICES ASSUME TypeOK, [Next]_vars PROVE TypeOK'
    OBVIOUS
<1>1. CASE UNCHANGED vars
    BY <1>1 DEF vars, TypeOK
<1>2. CASE Dead
    BY <1>1, <1>2 DEF Dead
<1>3. QED
    BY <1>1, <1>2, ScriptType, InstType DEF Next
-----------------------------------------------------------------------------
(* The launch: who may write shm_env.txt, and what the script reads there. *)
LEMMA InitLaunch == Init => LaunchInv
BY ContentFacts DEF Init, LaunchInv, FileInv, InstInv, Done, Watching, Handed, Insts

(* The steps up to the mysqld of an instance. *)
LEMMA LaunchStep ==
    ASSUME TypeOK, LaunchInv,
           CleanUp \/ LaunchFuzzer \/ Poll \/ ReadShmEnv \/ RemoveShmEnv \/ StartServer
    PROVE  LaunchInv'
<1> USE DEF TypeOK, LaunchInv, Watching
<1>0. cur \in Insts /\ ~(cur < cur) /\ ~(cur > cur)
    BY DEF Insts
<1>1. CASE CleanUp
    <2>1. FileInv'
        BY <1>1 DEF CleanUp, Removed, FileInv
    <2>2. ASSUME NEW k \in Insts PROVE InstInv(k)'
        BY <1>1, <2>2 DEF CleanUp, InstInv, Done
    <2>3. QED
        BY <2>1, <2>2
<1>2. CASE LaunchFuzzer
    <2>1. fuzz'[cur] = "typed" /\ \A k \in Insts \ {cur} : fuzz'[k] = fuzz[k]
        BY <1>2 DEF LaunchFuzzer
    <2>2. FileInv'
        BY <1>2, <2>1 DEF LaunchFuzzer, FileInv
    <2>3. ASSUME NEW k \in Insts PROVE InstInv(k)'
        BY <1>0, <1>2, <2>1, <2>3 DEF LaunchFuzzer, InstInv, Done
    <2>4. QED
        BY <2>2, <2>3
<1>3. CASE Poll
    <2>1. Handed' <=> Handed
        BY <1>3 DEF Poll, Handed
    <2>2. pc' = "read" => Handed
        BY <1>3 DEF Poll, FileInv
    <2>3. FileInv'
        BY <1>3, <2>1, <2>2 DEF Poll, FileInv
    <2>4. ASSUME NEW k \in Insts PROVE InstInv(k)'
        BY <1>3, <2>4 DEF Poll, InstInv, Done
    <2>5. QED
        BY <2>3, <2>4
<1>4. CASE ReadShmEnv
    <2>1. command'[cur] = shmEnv /\ \A k \in Insts \ {cur} : command'[k] = command[k]
        BY <1>4 DEF ReadShmEnv
    <2>2. Handed /\ (Handed' <=> Handed)
        BY <1>4 DEF ReadShmEnv, Handed, FileInv
    <2>3. FileInv'
        BY <1>4, <2>1, <2>2 DEF ReadShmEnv, FileInv, Handed
    <2>4. ASSUME NEW k \in Insts PROVE InstInv(k)'
        BY <1>0, <1>4, <2>1, <2>4 DEF ReadShmEnv, InstInv, Done
    <2>5. QED
        BY <2>3, <2>4
<1>5. CASE RemoveShmEnv
    <2>1. FileInv'
        BY <1>5 DEF RemoveShmEnv, Removed, FileInv, Handed
    <2>2. ASSUME NEW k \in Insts PROVE InstInv(k)'
        BY <1>5, <2>2 DEF RemoveShmEnv, InstInv, Done
    <2>3. QED
        BY <2>1, <2>2
<1>6. CASE StartServer
    <2>1. /\ pc = "start" /\ shmEnv' = NoFile /\ UNCHANGED <<fuzz, command, procs>>
          /\ \A k \in Insts \ {cur} : pane'[k] = pane[k]
        BY <1>6 DEF StartServer, FileInv
    <2>2. fuzz[cur] \in {"opened", "running"} /\ command[cur] \in {cur, Empty}
        BY <2>1 DEF FileInv
    <2>3. \/ cur < NumInst /\ cur' = cur + 1 /\ pc' = "launch"
          \/ ~(cur < NumInst) /\ cur' = 1 /\ pc' = "ask"
        BY <1>6 DEF StartServer
    <2>4. CASE cur < NumInst /\ cur' = cur + 1 /\ pc' = "launch"
        <3>1. cur' \in Insts /\ cur' > cur
            BY <1>0, <2>4, FleetAssumption DEF Insts
        <3>2. fuzz[cur'] = "off"
            BY <2>1, <3>1 DEF InstInv
        <3>3. FileInv'
            BY <2>1, <2>4, <3>2 DEF FileInv
        <3>4. ASSUME NEW k \in Insts PROVE InstInv(k)'
            <4>1. k < cur' <=> k < cur \/ k = cur
                BY <1>0, <2>4 DEF Insts
            <4>2. k > cur' => k > cur
                BY <1>0, <2>4 DEF Insts
            <4>3. QED
                BY <2>1, <2>2, <2>4, <4>1, <4>2 DEF InstInv, Done
        <3>5. QED
            BY <3>3, <3>4
    <2>5. CASE ~(cur < NumInst) /\ cur' = 1 /\ pc' = "ask"
        <3>1. FileInv'
            BY <2>1, <2>5 DEF FileInv
        <3>2. ASSUME NEW k \in Insts PROVE InstInv(k)'
            <4>1. k < cur \/ k = cur
                BY <1>0, <2>5, FleetAssumption DEF Insts
            <4>2. QED
                BY <2>1, <2>2, <2>5, <4>1 DEF InstInv, Done
        <3>3. QED
            BY <3>1, <3>2
    <2>6. QED
        BY <2>3, <2>4, <2>5
<1>7. QED
    BY <1>1, <1>2, <1>3, <1>4, <1>5, <1>6

(* The watch touches neither shm_env.txt nor the commands. *)
LEMMA WatchStep ==
    ASSUME TypeOK, LaunchInv, Ask \/ ReadAnswer \/ RemoveAnswer \/ RestartIfDead
    PROVE  LaunchInv'
<1>1. Watching /\ Watching' /\ UNCHANGED <<shmEnv, fuzz, command>>
    BY DEF Ask, ReadAnswer, RemoveAnswer, RestartIfDead, Watching
<1>2. pc' \notin {"clean", "launch", "poll", "read", "remove", "start"}
    BY <1>1 DEF Watching
<1>3. FileInv'
    BY <1>1, <1>2 DEF LaunchInv, FileInv
<1>4. ASSUME NEW k \in Insts PROVE InstInv(k)'
    BY <1>1, <1>4 DEF LaunchInv, InstInv, Done
<1>5. QED
    BY <1>3, <1>4 DEF LaunchInv

(* An afl-fuzz that writes shm_env.txt is the one the script waits for,    *)
(* or its file has lost its name.                                          *)
LEMMA FuzzerStep ==
    ASSUME TypeOK, LaunchInv, NEW i \in Insts, Fuzzer(i) \/ FuzzerFails(i)
    PROVE  LaunchInv'
<1> USE DEF TypeOK, LaunchInv
<1>1. /\ UNCHANGED Others
      /\ \A k \in Insts \ {i} : fuzz'[k] = fuzz[k]
      /\ fuzz[i] \in {"typed", "segments", "opened"}
    BY DEF Fuzzer, FuzzerFails, CreateSegments, OpenShmEnv, WriteShmEnv
<1>2. Watching' <=> Watching
    BY <1>1 DEF Watching
<1>3. i = cur \/ i < cur \/ i > cur
    BY DEF Insts
<1>4. ~(cur < cur) /\ ~(cur > cur)
    BY DEF Insts
<1>5. (i = cur /\ ~Watching) \/ (Done(i) /\ fuzz[i] = "opened")
    BY <1>1, <1>3 DEF InstInv, Done
<1>6. CASE i = cur /\ ~Watching
    <2>1. pc \in {"poll", "read", "remove", "start"}
        BY <1>1, <1>6 DEF FileInv, Watching
    <2>2. CASE CreateSegments(i) \/ FuzzerFails(i)
        <3>1. pc = "poll" /\ shmEnv = NoFile /\ UNCHANGED shmEnv
            BY <1>6, <2>1, <2>2 DEF CreateSegments, FuzzerFails, FileInv, Handed
        <3>2. fuzz'[cur] \in {"segments", "failed"}
            BY <1>6, <2>2 DEF CreateSegments, FuzzerFails
        <3>3. QED
            BY <1>1, <1>2, <1>4, <1>6, <3>1, <3>2 DEF FileInv, InstInv, Done
    <2>3. CASE OpenShmEnv(i)
        <3>1. pc = "poll" /\ shmEnv' = Empty
            BY <1>6, <2>1, <2>3 DEF OpenShmEnv, FileInv, Handed
        <3>2. fuzz'[cur] = "opened"
            BY <1>6, <2>3 DEF OpenShmEnv
        <3>3. QED
            BY <1>1, <1>2, <1>4, <1>6, <3>1, <3>2 DEF FileInv, InstInv, Done, Handed
    <2>4. CASE WriteShmEnv(i)
        <3>1. fuzz'[cur] = "running"
            BY <1>6, <2>4 DEF WriteShmEnv
        <3>2. CASE pc = "start"
            <4>1. shmEnv' = NoFile
                BY <2>4, <3>2, ContentFacts DEF WriteShmEnv, FileInv
            <4>2. QED
                BY <1>1, <1>2, <1>4, <1>6, <3>1, <3>2, <4>1 DEF FileInv, InstInv, Done
        <3>3. CASE pc # "start"
            <4>1. Handed /\ shmEnv = Empty
                BY <1>6, <2>1, <2>4, <3>3 DEF WriteShmEnv, FileInv, Handed
            <4>2. shmEnv' = cur
                BY <1>6, <2>4, <4>1 DEF WriteShmEnv
            <4>3. QED
                BY <1>1, <1>2, <1>4, <1>6, <2>1, <3>1, <3>3, <4>2
                DEF FileInv, InstInv, Done, Handed
        <3>4. QED
            BY <3>2, <3>3
    <2>5. QED
        BY <2>2, <2>3, <2>4 DEF Fuzzer
<1>7. CASE Done(i) /\ fuzz[i] = "opened"
    <2>1. WriteShmEnv(i)
        BY <1>7 DEF Fuzzer, FuzzerFails, CreateSegments, OpenShmEnv
    <2>2. UNCHANGED shmEnv
        BY <1>4, <1>7, <2>1, ContentFacts DEF WriteShmEnv, FileInv, Done
    <2>3. fuzz'[i] = "running"
        BY <2>1 DEF WriteShmEnv
    <2>4. FileInv'
        <3>1. CASE Watching
            BY <1>1, <1>2, <2>2, <3>1 DEF FileInv, Watching
        <3>2. CASE i # cur
            BY <1>1, <1>2, <2>2, <3>2 DEF FileInv, Handed
        <3>3. QED
            BY <1>4, <1>7, <3>1, <3>2 DEF Done
    <2>5. ASSUME NEW k \in Insts PROVE InstInv(k)'
        <3>1. i > cur => Watching
            BY <1>7 DEF Done, Insts
        <3>2. QED
            BY <1>1, <1>2, <1>7, <2>3, <3>1 DEF InstInv, Done
    <2>6. QED
        BY <2>4, <2>5
<1>8. QED
    BY <1>5, <1>6, <1>7

(* Panes and servers move only where the launch is over. *)
LEMMA ServerStep ==
    ASSUME TypeOK, LaunchInv, NEW i \in Insts,
           Shell(i) \/ FindsLock(i) \/ FindsNoMap(i) \/ Dies(i)
    PROVE  LaunchInv'
<1> USE DEF TypeOK, LaunchInv
<1>1. UNCHANGED <<pc, cur, shmEnv, command, fuzz>>
    BY DEF Shell, ShellOpens, ShellWrites, ShellStarts, FindsLock, FindsNoMap, Dies
<1>2. \A k \in Insts \ {i} : pane'[k] = pane[k] /\ procs'[k] = procs[k]
    BY DEF Shell, ShellOpens, ShellWrites, ShellStarts, FindsLock, FindsNoMap, Dies
<1>3. pane[i] # <<>> \/ procs[i] # 0
    BY DEF Shell, ShellOpens, ShellWrites, ShellStarts, FindsLock, FindsNoMap, Dies
<1>4. FileInv'
    BY <1>1 DEF FileInv, Handed, Watching
<1>5. ASSUME NEW k \in Insts PROVE InstInv(k)'
    BY <1>1, <1>2, <1>3, <1>5 DEF InstInv, Done, Watching
<1>6. QED
    BY <1>4, <1>5

LEMMA NextLaunch == TypeOK /\ LaunchInv /\ [Next]_vars => LaunchInv'
<1> SUFFICES ASSUME TypeOK, LaunchInv, [Next]_vars PROVE LaunchInv'
    OBVIOUS
<1>1. CASE UNCHANGED vars
    BY <1>1 DEF vars, LaunchInv, FileInv, InstInv, Done, Handed, Watching
<1>2. CASE Dead
    BY <1>1, <1>2 DEF Dead
<1>3. QED
    BY <1>1, <1>2, LaunchStep, WatchStep, FuzzerStep, ServerStep DEF Next, Script
-----------------------------------------------------------------------------
(* The watch: as long as no pane is late, the answer is that of the pane.  *)
LEMMA InitWatch == Init => WatchInv
BY DEF Init, WatchInv, PaneInv, Settled

(* The launch types mysqld into an empty pane. *)
LEMMA LaunchWatch ==
    ASSUME TypeOK, LaunchInv, WatchInv, ~late',
           CleanUp \/ LaunchFuzzer \/ Poll \/ ReadShmEnv \/ RemoveShmEnv \/ StartServer
    PROVE  WatchInv'
<1> USE DEF TypeOK
<1>0. cur \in Insts /\ ~(cur < cur)
    BY DEF Insts
<1>1. ~late /\ ~Watching /\ pc' \notin {"answer", "forget", "restart", "dead"}
    BY DEF CleanUp, LaunchFuzzer, Poll, ReadShmEnv, RemoveShmEnv, StartServer, Watching
<1>2. \A k \in Insts : Settled(k)
    BY <1>1 DEF WatchInv, PaneInv, Watching
<1>3. procs' = procs
    BY DEF CleanUp, LaunchFuzzer, Poll, ReadShmEnv, RemoveShmEnv, StartServer
<1>4. ASSUME NEW k \in Insts PROVE Settled(k)'
    <2>1. CASE pane'[k] = pane[k]
        BY <1>2, <1>3, <2>1 DEF Settled
    <2>2. CASE StartServer /\ k = cur
        <3>1. pane[cur] = <<>> /\ procs[cur] = 0
            BY <1>0, <1>1 DEF LaunchInv, InstInv, Done
        <3>2. pane'[k] = <<Mysqld>>
            BY <1>0, <2>2, <3>1, PaneFacts DEF StartServer
        <3>3. QED
            BY <1>3, <2>2, <3>1, <3>2 DEF Settled
    <2>3. QED
        BY <2>1, <2>2 DEF CleanUp, LaunchFuzzer, Poll, ReadShmEnv, RemoveShmEnv, StartServer
<1>5. QED
    BY <1>1, <1>4 DEF WatchInv, PaneInv

LEMMA AskWatch ==
    ASSUME TypeOK, WatchInv, ~late', Ask PROVE WatchInv'
<1> USE DEF TypeOK, Ask
<1>1. ~late /\ pc = "ask" /\ pc' = "answer" /\ cur' = cur /\ procs' = procs
    OBVIOUS
<1>2. \A k \in Insts : Settled(k)
    BY <1>1 DEF WatchInv, PaneInv
<1>3. Asked(cur)'
    <2>1. pane'[cur] = Append(pane[cur], Jobs)
        OBVIOUS
    <2>2. CASE pane[cur] = <<>> /\ procs[cur] =< 1
        BY <1>1, <2>1, <2>2, PaneFacts DEF Asked
    <2>3. CASE pane[cur] = <<Mysqld>> /\ procs[cur] = 0
        BY <1>1, <2>1, <2>3, PaneFacts DEF Asked
    <2>4. QED
        BY <1>2, <2>2, <2>3 DEF Settled
<1>4. ASSUME NEW k \in Insts \ {cur} PROVE Settled(k)'
    BY <1>1, <1>2, <1>4 DEF Settled
<1>5. QED
    BY <1>1, <1>3, <1>4 DEF WatchInv, PaneInv

(* A pane that is not late has written the answer that is read. *)
LEMMA ReadWatch ==
    ASSUME TypeOK, WatchInv, ~late', ReadAnswer PROVE WatchInv'
<1> USE DEF TypeOK
<1>1. ~late /\ pane[cur] = <<>> /\ pc = "answer" /\ UNCHANGED <<cur, procs, pane>>
    BY DEF ReadAnswer, Answered
<1>2. procs[cur] =< 1 /\ answer \in {"running", "gone"} /\ (answer = "gone" => procs[cur] = 0)
    <2>1. Asked(cur)
        BY <1>1 DEF WatchInv, PaneInv
    <2>2. QED
        BY <1>1, <2>1, PaneFacts DEF Asked
<1>3. pc' = "forget" /\ isCrash' = LooksDead(answer)
    BY <1>2 DEF ReadAnswer
<1>4. isCrash' => procs[cur] = 0
    <2>1. LooksDead(answer) => answer = "gone"
        BY <1>2 DEF LooksDead
    <2>2. QED
        BY <1>2, <1>3, <2>1
<1>5. \A k \in Insts \ {cur} : Settled(k)
    BY <1>1 DEF WatchInv, PaneInv
<1>6. ASSUME NEW k \in Insts \ {cur} PROVE Settled(k)'
    BY <1>1, <1>5, <1>6 DEF Settled
<1>7. QED
    BY <1>1, <1>2, <1>3, <1>4, <1>6 DEF WatchInv, PaneInv

LEMMA RestartWatch ==
    ASSUME TypeOK, WatchInv, ~late', RemoveAnswer \/ RestartIfDead PROVE WatchInv'
<1> USE DEF TypeOK
<1>1. ~late /\ UNCHANGED procs /\ pc \in {"forget", "restart"}
    BY DEF RemoveAnswer, RestartIfDead
<1>2. /\ pane[cur] = <<>> /\ procs[cur] =< 1 /\ (isCrash => procs[cur] = 0)
      /\ \A k \in Insts \ {cur} : Settled(k)
    BY <1>1 DEF WatchInv, PaneInv
<1>3. CASE RemoveAnswer
    <2>1. UNCHANGED <<cur, pane, isCrash, procs>> /\ pc' = "restart"
        BY <1>3 DEF RemoveAnswer
    <2>2. ASSUME NEW k \in Insts \ {cur} PROVE Settled(k)'
        BY <1>2, <2>1, <2>2 DEF Settled
    <2>3. QED
        BY <1>2, <2>1, <2>2 DEF WatchInv, PaneInv
<1>4. CASE RestartIfDead
    <2>1. ASSUME NEW k \in Insts, k = cur PROVE Settled(k)'
        <3>1. CASE isCrash
            <4>1. pane'[k] = <<Mysqld>>
                BY <1>2, <1>4, <2>1, <3>1, PaneFacts DEF RestartIfDead
            <4>2. QED
                BY <1>1, <1>2, <2>1, <3>1, <4>1 DEF Settled
        <3>2. CASE ~isCrash
            BY <1>1, <1>2, <1>4, <2>1, <3>2 DEF RestartIfDead, Settled
        <3>3. QED
            BY <3>1, <3>2
    <2>2. ASSUME NEW k \in Insts \ {cur} PROVE Settled(k)'
        BY <1>1, <1>2, <1>4, <2>2 DEF RestartIfDead, Settled
    <2>3. pc' = "ask"
        BY <1>4 DEF RestartIfDead
    <2>4. QED
        BY <2>1, <2>2, <2>3 DEF WatchInv, PaneInv
<1>5. QED
    BY <1>3, <1>4

(* Shells: only the pane that was asked answers. *)
LEMMA ShellWatch ==
    ASSUME TypeOK, WatchInv, ~late', NEW i \in Insts, Shell(i) PROVE WatchInv'
<1> USE DEF TypeOK
<1>1. ~late /\ UNCHANGED <<pc, cur, isCrash>> /\ pane[i] # <<>>
    BY DEF Shell, ShellOpens, ShellWrites, ShellStarts
<1>2. \A k \in Insts \ {i} : pane'[k] = pane[k] /\ procs'[k] = procs[k]
    BY DEF Shell, ShellOpens, ShellWrites, ShellStarts
<1>3. CASE i = cur /\ pc = "answer"
    <2>1. Asked(i)
        BY <1>1, <1>3 DEF WatchInv, PaneInv
    <2>2. CASE ShellOpens(i)
        <3>1. pane[i] = <<Jobs>> /\ procs[i] =< 1
            BY <1>1, <2>1, <2>2, PaneFacts DEF Asked, ShellOpens
        <3>2. pane'[i] = <<Writing>> /\ procs'[i] = procs[i] /\ answer' = "empty"
            BY <2>2, <3>1, PaneFacts DEF ShellOpens
        <3>3. Asked(i)'
            BY <3>1, <3>2 DEF Asked
        <3>4. ASSUME NEW k \in Insts \ {i} PROVE Settled(k)'
            BY <1>1, <1>2, <1>3, <3>4 DEF WatchInv, PaneInv, Settled
        <3>5. QED
            BY <1>1, <1>3, <3>3, <3>4 DEF WatchInv, PaneInv
    <2>4. CASE ShellWrites(i)
        <3>1. pane[i] = <<Writing>> /\ procs[i] =< 1 /\ answer = "empty"
            BY <1>1, <2>1, <2>4, PaneFacts DEF Asked, ShellWrites
        <3>2. pane'[i] = <<>> /\ procs'[i] = procs[i]
            BY <2>4, <3>1, PaneFacts DEF ShellWrites
        <3>3. answer' \in {"running", "gone"} /\ (answer' = "gone" => procs[i] = 0)
            <4>1. procs[i] \in 0..2
                OBVIOUS
            <4>2. procs[i] > 0 \/ procs[i] = 0
                BY <4>1
            <4>3. answer' = IF procs[i] > 0 THEN "running" ELSE "gone"
                BY <1>3, <2>4, <3>1 DEF ShellWrites
            <4>4. QED
                BY <4>2, <4>3
        <3>4. Asked(i)'
            BY <3>1, <3>2, <3>3 DEF Asked
        <3>5. ASSUME NEW k \in Insts \ {i} PROVE Settled(k)'
            BY <1>1, <1>2, <1>3, <3>5 DEF WatchInv, PaneInv, Settled
        <3>6. QED
            BY <1>1, <1>3, <3>4, <3>5 DEF WatchInv, PaneInv
    <2>3. CASE ShellStarts(i)
        <3>1. pane[i] = <<Mysqld, Jobs>> /\ procs[i] = 0
            BY <1>1, <2>1, <2>3, PaneFacts DEF Asked, ShellStarts
        <3>2. pane'[i] = <<Jobs>> /\ procs'[i] = 1
            BY <2>3, <3>1, PaneFacts DEF ShellStarts
        <3>3. Asked(i)'
            BY <3>2 DEF Asked
        <3>4. ASSUME NEW k \in Insts \ {i} PROVE Settled(k)'
            BY <1>1, <1>2, <1>3, <3>4 DEF WatchInv, PaneInv, Settled
        <3>5. QED
            BY <1>1, <1>3, <3>3, <3>4 DEF WatchInv, PaneInv
    <2>5. QED
        BY <2>2, <2>3, <2>4 DEF Shell
<1>4. CASE ~(i = cur /\ pc = "answer")
    <2>1. ~(i = cur /\ pc \in {"forget", "restart"}) /\ Settled(i)
        BY <1>1, <1>4 DEF WatchInv, PaneInv
    <2>2. pane[i] = <<Mysqld>> /\ procs[i] = 0
        BY <1>1, <2>1 DEF Settled
    <2>3. ShellStarts(i)
        BY <2>2, PaneFacts DEF Shell, ShellOpens, ShellWrites
    <2>4. pane'[i] = <<>> /\ procs'[i] = 1 /\ answer' = answer
        BY <2>2, <2>3, PaneFacts DEF ShellStarts
    <2>5. Settled(i)'
        BY <2>4 DEF Settled
    <2>6. ASSUME NEW k \in Insts \ {i} PROVE PaneInv(k)'
        BY <1>1, <1>2, <2>4, <2>6 DEF WatchInv, PaneInv, Settled, Asked
    <2>7. QED
        BY <1>1, <1>4, <2>1, <2>5, <2>6 DEF WatchInv, PaneInv
<1>5. QED
    BY <1>3, <1>4

(* Servers that end make no pane start a second one. *)
LEMMA EndWatch ==
    ASSUME TypeOK, WatchInv, ~late', NEW i \in Insts,
           FindsLock(i) \/ FindsNoMap(i) \/ Dies(i)
    PROVE  WatchInv'
<1> USE DEF TypeOK
<1>1. ~late /\ UNCHANGED <<pc, cur, isCrash, answer, pane>>
    BY DEF FindsLock, FindsNoMap, Dies
<1>2. \A k \in Insts \ {i} : procs'[k] = procs[k]
    BY DEF FindsLock, FindsNoMap, Dies
<1>3. procs[i] \in 0..2 /\ procs[i] > 0
    BY DEF FindsLock, FindsNoMap, Dies
<1>4. procs'[i] = procs[i] - 1
    BY DEF FindsLock, FindsNoMap, Dies
<1>5. procs[i] # 0 /\ (procs[i] =< 1 => procs'[i] =< 1 /\ procs'[i] = 0)
    BY <1>3, <1>4
<1>6. ASSUME NEW k \in Insts PROVE PaneInv(k)'
    <2>1. PaneInv(k)
        BY <1>1 DEF WatchInv
    <2>2. CASE k = i
        BY <1>1, <1>5, <2>1, <2>2 DEF PaneInv, Settled, Asked
    <2>3. CASE k # i
        BY <1>1, <1>2, <2>1, <2>3 DEF PaneInv, Settled, Asked
    <2>4. QED
        BY <2>2, <2>3
<1>7. QED
    BY <1>1, <1>6 DEF WatchInv

LEMMA NextWatch == TypeOK /\ LaunchInv /\ WatchInv /\ [Next]_vars => WatchInv'
<1> SUFFICES ASSUME TypeOK, LaunchInv, WatchInv, [Next]_vars, ~late' PROVE WatchInv'
    BY DEF WatchInv
<1>1. CASE UNCHANGED vars
    BY <1>1 DEF vars, WatchInv, PaneInv, Settled, Asked
<1>2. CASE Dead
    BY <1>1, <1>2 DEF Dead
<1>3. ASSUME NEW i \in Insts, Fuzzer(i) \/ FuzzerFails(i) PROVE WatchInv'
    <2>1. UNCHANGED <<pc, cur, answer, isCrash, pane, procs, late>>
        BY <1>3 DEF Fuzzer, FuzzerFails, CreateSegments, OpenShmEnv, WriteShmEnv
    <2>2. QED
        BY <2>1 DEF WatchInv, PaneInv, Settled, Asked
<1>4. QED
    BY <1>1, <1>2, <1>3, LaunchWatch, AskWatch, ReadWatch, RestartWatch, ShellWatch, EndWatch
    DEF Next, Script

-----------------------------------------------------------------------------
(* The inductive invariant holds in every state. *)
THEOREM Invariance == Spec => []IInv
<1>1. Init => IInv
    BY InitType, InitLaunch, InitWatch DEF IInv
<1>2. IInv /\ [Next]_vars => IInv'
    BY NextType, NextLaunch, NextWatch DEF IInv
<1>3. QED
    BY <1>1, <1>2, PTL DEF Spec

(* Every state has its type; at most two mysqld meet on a data directory.  *)
THEOREM TypeCorrect == Spec => []TypeOK
<1>1. IInv => TypeOK
    BY DEF IInv
<1>2. QED
    BY Invariance, <1>1, PTL

(* A mysqld runs only with the map of its own afl-fuzz, or with none,      *)
(* however many instances share shm_env.txt and whatever an earlier run    *)
(* left there.                                                             *)
THEOREM OwnMaps == Spec => []AttachesToOwn
<1>1. IInv => AttachesToOwn
    BY DEF IInv, TypeOK, LaunchInv, InstInv, HasSegments, AttachesToOwn
<1>2. QED
    BY Invariance, <1>1, PTL

(* No second mysqld is started on a data directory before a pane is late.  *)
THEOREM OneServerEach == Spec => []OneServer
<1>1. IInv => OneServer
    <2> SUFFICES ASSUME IInv, ~late, NEW i \in Insts PROVE procs[i] <= 1
        BY DEF OneServer
    <2>1. PaneInv(i)
        BY DEF IInv, WatchInv
    <2>2. QED
        BY <2>1 DEF PaneInv, Settled, Asked
<1>2. QED
    BY Invariance, <1>1, PTL
=============================================================================
