------------------------------- MODULE Fleet -------------------------------
(***************************************************************************)
(* run_parallel.py and what it starts: for each instance an afl-fuzz and a *)
(* mysqld, each typed into a tmux pane.  afl-fuzz hands the id of its      *)
(* coverage map to the script through shm_env.txt, one file for all.       *)
(* Later the script asks each pane in turn whether its mysqld still runs;  *)
(* the panes answer into mysqld_background_pid, again one file for all,    *)
(* and the script reads it one second later whatever the pane did.         *)
(***************************************************************************)
EXTENDS Naturals, Sequences

CONSTANTS
    NumInst,     \* parallel_num
    MaxDeaths,   \* bound on the deaths of mysqld
    MaxKeys      \* bound on the commands typed into a pane and not yet run

ASSUME FleetAssumption ==
    /\ NumInst \in Nat \ {0}
    /\ MaxDeaths \in Nat
    /\ MaxKeys \in Nat \ {0}

Insts == 1..NumInst

\* The coverage map of instance i has id i.  Other contents of shm_env.txt:
Stale   == 0              \* an id left by an earlier run of the script
Empty   == NumInst + 1    \* the file is open, and nothing is written yet
NoFile  == NumInst + 2
Contents == 0..(NumInst + 2)
NoCommand == NumInst + 2  \* mysql_command is not built yet

Jobs    == "jobs"         \* jobs -l &> mysqld_background_pid
Writing == "writing"      \* the same, with the file open
Mysqld  == "mysqld"       \* mysql_command
Keys == {Jobs, Writing, Mysqld}

VARIABLES
    pc,        \* where run_parallel.py is
    cur,       \* the instance it is at
    shmEnv,    \* shm_env.txt
    command,   \* the id in the mysql_command of each instance
    answer,    \* mysqld_background_pid: "none", "empty", or what jobs said
    isCrash,   \* is_crash
    fuzz,      \* each afl-fuzz
    pane,      \* what is typed into each mysqld pane and not yet run
    procs,     \* mysqld processes on each data directory
    deaths,    \* history: deaths of mysqld so far
    late       \* history: a pane had not answered when the script read

script == <<pc, cur, command, isCrash>>
vars == <<pc, cur, shmEnv, command, answer, isCrash, fuzz, pane, procs, deaths, late>>

Init ==
    /\ pc = "clean"
    /\ cur = 1
    /\ shmEnv \in {NoFile, Stale}
    /\ command = [i \in Insts |-> NoCommand]
    /\ answer = "none"
    /\ isCrash = FALSE
    /\ fuzz = [i \in Insts |-> "off"]
    /\ pane = [i \in Insts |-> <<>>]
    /\ procs = [i \in Insts |-> 0]
    /\ deaths = 0
    /\ late = FALSE

(***************************************************************************)
(* run_parallel.py: the launch.                                            *)
(***************************************************************************)
\* The content of shm_env.txt after os.remove.
NotRemoved(file) == file                                          \* mutant
Removed(file) == NoFile

CleanUp ==
    /\ pc = "clean"
    /\ shmEnv' = Removed(shmEnv)
    /\ pc' = "launch"
    /\ UNCHANGED <<cur, command, answer, isCrash, fuzz, pane, procs, deaths, late>>

\* A fresh data directory, and afl-fuzz typed into its pane.
LaunchFuzzer ==
    /\ pc = "launch"
    /\ fuzz' = [fuzz EXCEPT ![cur] = "typed"]
    /\ pc' = "poll"
    /\ UNCHANGED <<cur, shmEnv, command, answer, isCrash, pane, procs, deaths, late>>

\* isfile says yes as soon as afl-fuzz has opened the file.
Poll ==
    /\ pc = "poll"
    /\ pc' = IF shmEnv = NoFile THEN "poll" ELSE "read"
    /\ UNCHANGED <<cur, shmEnv, command, answer, isCrash, fuzz, pane, procs, deaths, late>>

ReadShmEnv ==
    /\ pc = "read"
    /\ command' = [command EXCEPT ![cur] = shmEnv]
    /\ pc' = "remove"
    /\ UNCHANGED <<cur, shmEnv, answer, isCrash, fuzz, pane, procs, deaths, late>>

RemoveShmEnv ==
    /\ pc = "remove"
    /\ shmEnv' = Removed(shmEnv)
    /\ pc' = "start"
    /\ UNCHANGED <<cur, command, answer, isCrash, fuzz, pane, procs, deaths, late>>

AllButLast == IF NumInst = 1 THEN 1 ELSE NumInst - 1              \* mutant
OneTooMany == NumInst + 1                                         \* mutant
LastInst == NumInst

StartServer ==
    /\ pc = "start"
    /\ pane' = [pane EXCEPT ![cur] = Append(@, Mysqld)]
    /\ IF cur < NumInst
       THEN cur' = cur + 1 /\ pc' = "launch"
       ELSE cur' = 1 /\ pc' = "ask"
    /\ UNCHANGED <<shmEnv, command, answer, isCrash, fuzz, procs, deaths, late>>

(***************************************************************************)
(* run_parallel.py: the watch.                                             *)
(***************************************************************************)
Ask ==
    /\ pc = "ask"
    /\ Len(pane[cur]) < MaxKeys
    /\ pane' = [pane EXCEPT ![cur] = Append(@, Jobs)]
    /\ pc' = "answer"
    /\ UNCHANGED <<cur, shmEnv, command, answer, isCrash, fuzz, procs, deaths, late>>

Answered == pane[cur] = <<>>

\* A server is taken for dead unless the answer has "mysqld" and "Running".
SeenAtAll(text) == text = "running"                               \* mutant
LooksDead(text) == text # "running"

\* open raises FileNotFoundError, which nothing catches.
ReadAnswer ==
    /\ pc = "answer"
    /\ late' = (late \/ ~Answered)
    /\ IF answer = "none"
       THEN pc' = "dead" /\ isCrash' = isCrash
       ELSE pc' = "forget" /\ isCrash' = LooksDead(answer)
    /\ UNCHANGED <<cur, shmEnv, command, answer, fuzz, pane, procs, deaths>>

RemoveAnswer ==
    /\ pc = "forget"
    /\ answer' = "none"
    /\ pc' = "restart"
    /\ UNCHANGED <<cur, shmEnv, command, isCrash, fuzz, pane, procs, deaths, late>>

RestartIfDead ==
    /\ pc = "restart"
    /\ isCrash => Len(pane[cur]) < MaxKeys
    /\ pane' = IF isCrash THEN [pane EXCEPT ![cur] = Append(@, Mysqld)] ELSE pane
    /\ cur' = IF cur < LastInst THEN cur + 1 ELSE 1
    /\ isCrash' = FALSE
    /\ pc' = "ask"
    /\ UNCHANGED <<shmEnv, command, answer, fuzz, procs, deaths, late>>

\* The script is gone; nothing restarts it.
Dead == pc = "dead" /\ UNCHANGED vars

Script ==
    \/ CleanUp \/ LaunchFuzzer \/ Poll \/ ReadShmEnv \/ RemoveShmEnv \/ StartServer
    \/ Ask \/ ReadAnswer \/ RemoveAnswer \/ RestartIfDead

(***************************************************************************)
(* afl-fuzz: setup_shm.                                                    *)
(***************************************************************************)
Others == <<pc, cur, command, answer, isCrash, pane, procs, deaths, late>>

CreateSegments(i) ==
    /\ fuzz[i] = "typed"
    /\ fuzz' = [fuzz EXCEPT ![i] = "segments"]
    /\ UNCHANGED <<shmEnv, Others>>

\* PFATAL: no shared memory, no core, no output directory, ...
FuzzerFails(i) ==
    /\ fuzz[i] = "typed"
    /\ fuzz' = [fuzz EXCEPT ![i] = "failed"]
    /\ UNCHANGED <<shmEnv, Others>>

OpenShmEnv(i) ==
    /\ fuzz[i] = "segments"
    /\ fuzz' = [fuzz EXCEPT ![i] = "opened"]
    /\ shmEnv' = Empty
    /\ UNCHANGED Others

\* If the script has removed the file, the id goes to a file without a name;
\* the next afl-fuzz has opened one of its own.
WriteShmEnv(i) ==
    /\ fuzz[i] = "opened"
    /\ fuzz' = [fuzz EXCEPT ![i] = "running"]
    /\ shmEnv' = IF cur = i /\ shmEnv = Empty THEN i ELSE shmEnv
    /\ UNCHANGED Others

Fuzzer(i) == CreateSegments(i) \/ OpenShmEnv(i) \/ WriteShmEnv(i)

(***************************************************************************)
(* The shell of a pane, and mysqld.                                        *)
(***************************************************************************)
Untouched == <<pc, cur, shmEnv, command, isCrash, fuzz, late>>

\* The shell creates the file before jobs writes into it.
ShellOpens(i) ==
    /\ pane[i] # <<>> /\ Head(pane[i]) = Jobs
    /\ answer' = "empty"
    /\ pane' = [pane EXCEPT ![i] = <<Writing>> \o Tail(@)]
    /\ UNCHANGED <<procs, deaths, Untouched>>

\* As above, the text is lost if the script has removed the file.
ShellWrites(i) ==
    /\ pane[i] # <<>> /\ Head(pane[i]) = Writing
    /\ answer' = IF cur # i \/ answer # "empty" THEN answer
                 ELSE IF procs[i] > 0 THEN "running" ELSE "gone"
    /\ pane' = [pane EXCEPT ![i] = Tail(@)]
    /\ UNCHANGED <<procs, deaths, Untouched>>

ShellStarts(i) ==
    /\ pane[i] # <<>> /\ Head(pane[i]) = Mysqld
    /\ procs[i] < 2
    /\ procs' = [procs EXCEPT ![i] = @ + 1]
    /\ pane' = [pane EXCEPT ![i] = Tail(@)]
    /\ UNCHANGED <<answer, deaths, Untouched>>

Shell(i) == ShellOpens(i) \/ ShellWrites(i) \/ ShellStarts(i)

\* A second mysqld on a data directory finds it locked and exits.
FindsLock(i) ==
    /\ procs[i] = 2
    /\ procs' = [procs EXCEPT ![i] = 1]
    /\ UNCHANGED <<answer, pane, deaths, Untouched>>

\* shmat of an id that is none: the runtime of the coverage map exits.
FindsNoMap(i) ==
    /\ procs[i] > 0 /\ command[i] = Empty
    /\ procs' = [procs EXCEPT ![i] = @ - 1]
    /\ UNCHANGED <<answer, pane, deaths, Untouched>>

Dies(i) ==
    /\ procs[i] > 0 /\ deaths < MaxDeaths
    /\ procs' = [procs EXCEPT ![i] = @ - 1]
    /\ deaths' = deaths + 1
    /\ UNCHANGED <<answer, pane, Untouched>>

Next ==
    \/ Script \/ Dead
    \/ \E i \in Insts : \/ Fuzzer(i) \/ FuzzerFails(i) \/ Shell(i)
                        \/ FindsLock(i) \/ FindsNoMap(i) \/ Dies(i)

\* The script and the panes go on; an afl-fuzz that has created its segments
\* writes its file; the lock is found.  No death is due.
Fairness ==
    /\ WF_vars(Script)
    /\ \A i \in Insts : WF_vars(Fuzzer(i)) /\ WF_vars(Shell(i)) /\ WF_vars(FindsLock(i))

Spec == Init /\ [][Next]_vars /\ Fairness

-----------------------------------------------------------------------------
(***************************************************************************)
(* Properties.                                                             *)
(***************************************************************************)
\* The type of the state.
TypeOK ==
    /\ pc \in {"clean", "launch", "poll", "read", "remove", "start",
               "ask", "answer", "forget", "restart", "dead"}
    /\ cur \in Insts
    /\ shmEnv \in Contents
    /\ command \in [Insts -> Contents]
    /\ answer \in {"none", "empty", "running", "gone"}
    /\ isCrash \in BOOLEAN
    /\ fuzz \in [Insts -> {"off", "typed", "segments", "opened", "running", "failed"}]
    /\ pane \in [Insts -> Seq(Keys)]
    /\ procs \in [Insts -> 0..2]
    /\ deaths \in 0..MaxDeaths
    /\ late \in BOOLEAN

HasSegments(i) == fuzz[i] \in {"segments", "opened", "running"}

\* setup_shm creates the segments BEFORE it writes shm_env.txt, so that mysqld
\* starts only when they exist; and as the one file goes from hand to hand, no
\* mysqld gets the map of another afl-fuzz or of an earlier run.  (It may get
\* no id at all, when the file is read between the open and the write.)
AttachesToOwn ==
    \A i \in Insts : procs[i] > 0 => HasSegments(i) /\ command[i] \in {i, Empty}

\* As long as the panes answer within the second, no second mysqld is started
\* on a data directory, although all panes answer into one file.
OneServer == ~late => \A i \in Insts : procs[i] <= 1

\* A mysqld that died is started again, unless a pane was late or an afl-fuzz
\* failed to start: then the script waits for its file for ever and watches
\* none of the servers it has started.
ServersComeBack ==
    \A i \in Insts :
        (command[i] = i /\ procs[i] = 0)
            ~> (procs[i] > 0 \/ late \/ \E j \in Insts : fuzz[j] = "failed")
=============================================================================
