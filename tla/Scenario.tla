-------------------------------- MODULE Scenario --------------------------------
(***************************************************************************)
(* The scenario controller (core/scenario/agoscenario.cpp).  Its main      *)
(* thread handles commands; `run` creates a thread that plays a scenario:  *)
(* it copies the scenario from the map of the main thread, without a lock, *)
(* and sends the elements in the order of their numbers.                   *)
(*                                                                         *)
(* A scenario is a function from keys to elements.  A key is a number and  *)
(* whether it is written the way the program would write it ("7", and not  *)
(* "07").  An element is a command for a device, a pause, or, since nobody *)
(* checks, no map at all.                                                  *)
(*                                                                         *)
(* The threads are neither joined nor detached, so a process can create    *)
(* only so many, whether they have ended or not.                           *)
(***************************************************************************)
EXTENDS Naturals, Sequences, FiniteSets, Functions

CONSTANTS
    Ids,             \* uuids of scenarios
    Elements,        \* commands for devices
    Pause,           \* scenariosleep
    Scalar,          \* an element that is no map
    Scenarios0,      \* the scenarios users write
    Void,            \* an entry that operator[] left behind
    Threads,         \* the threads a process can create
    MaxCommands,     \* bound: commands of users
    MaxCrashes       \* bound: ends of the process that its code does not cause

IsScenario(s) == DOMAIN s \subseteq Nat \X BOOLEAN /\ IsFiniteSet(DOMAIN s)
                 /\ Range(s) \subseteq Elements \union {Pause, Scalar}
None == << >>                \* an empty map

ASSUME ScenarioAssumption ==
    /\ \A s \in Scenarios0 : IsScenario(s)
    /\ Void \notin Scenarios0 /\ None \notin Ids
    /\ Pause \notin Elements /\ Scalar \notin Elements \union {Pause}
    /\ MaxCommands \in Nat /\ MaxCrashes \in Nat

VARIABLES
    pc,              \* the main thread
    scenariomap, devs,   \* stored scenarios and announced devices
    file,            \* SCENARIOMAPFILE
    writeLost,       \* it could not be opened for the last save
    run,             \* the threads
    commands, crashes

tableVars == <<scenariomap, devs, file, writeLost>>
vars == <<pc, tableVars, run, commands, crashes>>

Stored == {i \in DOMAIN scenariomap : scenariomap[i] # Void}

\* A thread: its place; the entry it was given; the scenario this was then and
\* whether it was replaced before it was copied; the copy; keys still to be
\* played; numbers and elements sent.
Unused == [place |-> "unused", pointer |-> None, asked |-> None, torn |-> FALSE,
           copy |-> None, todo |-> {}, sent |-> << >>]

Init ==
    /\ pc = "idle"
    /\ scenariomap = None /\ devs = {} /\ file = None /\ writeLost = FALSE
    /\ run = [t \in Threads |-> Unused]
    /\ commands = 0 /\ crashes = 0
-----------------------------------------------------------------------------
(* commandHandler.                                                           *)

Command ==
    /\ pc = "idle" /\ commands < MaxCommands
    /\ commands' = commands + 1
    /\ UNCHANGED crashes

\* The memory of an entry goes when it is replaced or erased.
Tear(i) ==
    run' = [t \in Threads |-> [run[t] EXCEPT
                !.torn = @ \/ (run[t].place = "new" /\ run[t].pointer = i)]]

\* setscenario: in memory, announced, then saved.
SetScenario(i, s) ==
    /\ Command
    /\ scenariomap' = [j \in DOMAIN scenariomap \union {i} |-> IF j = i THEN s ELSE scenariomap[j]]
    /\ devs' = devs \union {i}
    /\ Tear(i)
    /\ pc' = "save"
    /\ UNCHANGED <<file, writeLost>>

\* Wrong: does not save.
DelScenarioUnsaved(i) ==
    /\ Command
    /\ i \in DOMAIN scenariomap
    /\ scenariomap' = Restrict(scenariomap, DOMAIN scenariomap \ {i})
    /\ devs' = devs \ {i}
    /\ Tear(i)
    /\ UNCHANGED <<pc, file, writeLost>>

DelScenario(i) ==
    /\ Command
    /\ i \in DOMAIN scenariomap
    /\ scenariomap' = Restrict(scenariomap, DOMAIN scenariomap \ {i})
    /\ devs' = devs \ {i}
    /\ Tear(i)
    /\ pc' = "save"
    /\ UNCHANGED <<file, writeLost>>

\* getscenario of an unknown uuid makes a void entry.
GetUnknown(i) ==
    /\ Command
    /\ i \notin DOMAIN scenariomap
    /\ scenariomap' = [j \in DOMAIN scenariomap \union {i} |-> IF j = i THEN Void ELSE scenariomap[j]]
    /\ UNCHANGED <<pc, devs, file, writeLost, run>>

\* variantMapToJSONFile: opening empties the file, then it is written; a file
\* that cannot be opened goes unnoticed.
Open ==
    /\ pc = "save"
    /\ \/ file' = None /\ pc' = "write" /\ UNCHANGED writeLost
       \/ pc' = "idle" /\ writeLost' = TRUE /\ UNCHANGED file
    /\ UNCHANGED <<scenariomap, devs, run, commands, crashes>>

Write ==
    /\ pc = "write"
    /\ file' = scenariomap
    /\ writeLost' = FALSE
    /\ pc' = "idle"
    /\ UNCHANGED <<scenariomap, devs, run, commands, crashes>>

\* Wrong: takes an entry that was only looked up.
RunVoid(i, t) ==
    /\ Command
    /\ i \in DOMAIN scenariomap
    /\ run[t].place = "unused"
    /\ run' = [run EXCEPT ![t].place = "new", ![t].pointer = i, ![t].asked = scenariomap[i]]
    /\ UNCHANGED <<pc, tableVars>>

\* run, on: a command for an announced device.  The thread gets a pointer.
Run(i, t) ==
    /\ Command
    /\ i \in devs
    /\ run[t].place = "unused"
    /\ run' = [run EXCEPT ![t].place = "new", ![t].pointer = i, ![t].asked = scenariomap[i]]
    /\ UNCHANGED <<pc, tableVars>>

\* pthread_create fails, and the answer is still 0.
RunUnplayed(i) ==
    /\ Command
    /\ i \in devs
    /\ \A t \in Threads : run[t].place # "unused"
    /\ UNCHANGED <<pc, tableVars, run>>
-----------------------------------------------------------------------------
(* runscenario.                                                              *)

Running == pc \notin {"down", "boot"}

\* An exception that leaves a thread, or a bad access, ends the process.
End ==
    /\ pc' = "down"
    /\ scenariomap' = None /\ devs' = {} /\ writeLost' = FALSE
    /\ run' = [t \in Threads |-> Unused]
    /\ UNCHANGED <<file, commands>>

\* What a freed entry holds is anything: here, some scenario.
Copied(t) == IF run[t].torn THEN Scenarios0 ELSE {scenariomap[run[t].pointer]}

Copy(t) ==
    /\ Running /\ run[t].place = "new"
    /\ \E s \in Copied(t) :
        run' = [run EXCEPT ![t].copy = s, ![t].todo = DOMAIN s, ![t].place = "play"]
    /\ UNCHANGED <<pc, tableVars, commands, crashes>>

CopyBad(t) ==
    /\ Running /\ run[t].place = "new" /\ run[t].torn
    /\ End
    /\ UNCHANGED crashes

\* Wrong: sorts the keys as text (of at most two digits).
FirstByText(t, k) ==
    LET Digit(n) == IF n > 9 THEN n \div 10 ELSE n
    IN  k \in run[t].todo /\ \A l \in run[t].todo : Digit(k[1]) <= Digit(l[1])

\* The list is sorted by number, and the element is found by the number.
First(t, k) == k \in run[t].todo /\ \A l \in run[t].todo : k[1] <= l[1]
Plain(k) == <<k[1], TRUE>>
Found(s, k) == Plain(k) \in DOMAIN s /\ s[Plain(k)] # Scalar

Play(t, k) ==
    LET e == run[t].copy[Plain(k)]
    IN  /\ Running /\ run[t].place = "play" /\ First(t, k) /\ Found(run[t].copy, k)
        /\ run' = [run EXCEPT ![t].todo = @ \ {k},
                    ![t].sent = IF e = Pause THEN @ ELSE Append(@, <<k[1], e>>)]
        /\ UNCHANGED <<pc, tableVars, commands, crashes>>

\* Wrong: waits for an element that is not there.
PlayBadWaits(t, k) ==
    /\ Running /\ run[t].place = "play" /\ First(t, k) /\ ~Found(run[t].copy, k)
    /\ UNCHANGED vars

PlayBad(t, k) ==
    /\ Running /\ run[t].place = "play" /\ First(t, k) /\ ~Found(run[t].copy, k)
    /\ End
    /\ UNCHANGED crashes

Return(t) ==
    /\ Running /\ run[t].place = "play" /\ run[t].todo = {}
    /\ run' = [run EXCEPT ![t].place = "done"]
    /\ UNCHANGED <<pc, tableVars, commands, crashes>>
-----------------------------------------------------------------------------
Crash ==
    /\ Running /\ crashes < MaxCrashes
    /\ crashes' = crashes + 1
    /\ End

\* jsonToVariantMap leaves out what the file has as null.
Load(f) == Restrict(f, {i \in DOMAIN f : f[i] # Void})

\* main: the scenarios are read and announced before run() has a receiver.
Boot ==
    /\ pc = "down"
    /\ scenariomap' = Load(file)
    /\ devs' = DOMAIN Load(file)
    /\ pc' = "idle"
    /\ UNCHANGED <<file, writeLost, run, commands, crashes>>

Thread(t) ==
    \/ Copy(t) \/ CopyBad(t) \/ Return(t)
    \/ \E k \in run[t].todo : Play(t, k) \/ PlayBad(t, k)
User ==
    \E i \in Ids :
        \/ DelScenario(i) \/ GetUnknown(i) \/ RunUnplayed(i)
        \/ \E s \in Scenarios0 : SetScenario(i, s)
        \/ \E t \in Threads : Run(i, t)

Next == User \/ Open \/ Write \/ (\E t \in Threads : Thread(t)) \/ Crash \/ Boot
Spec == Init /\ [][Next]_vars

\* Threads run and pauses end.
FairSpec == Spec /\ \A t \in Threads : WF_vars(Thread(t))
-----------------------------------------------------------------------------
(* A thread that starts finds the entry it was given, unless it was replaced *)
(* or deleted meanwhile: nothing else moves or removes an entry, and no      *)
(* command reaches a void one (agoscenario.cpp:26, 118).                     *)
PointerGood ==
    \A t \in Threads : run[t].place = "new" /\ ~run[t].torn =>
        run[t].pointer \in Stored /\ scenariomap[run[t].pointer] = run[t].asked

(* What a thread has sent are the elements of the scenario as it was when    *)
(* the command came, each once, in the order of their numbers and none left  *)
(* out before the last: whatever happens to the map after the copy and       *)
(* whatever other threads play (agoscenario.cpp:26-54).                      *)
Proper(s) == \A k \in DOMAIN s : Found(s, k) /\ k[2]

PlayedRight ==
    \A t \in Threads :
        LET s == run[t].asked
            sent == run[t].sent
            played == DOMAIN s \ run[t].todo
        IN  run[t].place \in {"play", "done"} /\ ~run[t].torn /\ Proper(s) =>
                /\ \A m, n \in DOMAIN sent : m < n => sent[m][1] < sent[n][1]
                /\ Range(sent) = {<<k[1], s[k]>> : k \in {l \in played : s[l] # Pause}}
                /\ \A k \in played, l \in run[t].todo : k[1] < l[1]

(* The announced devices are the stored scenarios, before and after          *)
(* restarts, so a run command always finds one (agoscenario.cpp:118); and a  *)
(* restart brings back all that was answered, unless the file could not be   *)
(* opened (agoscenario.cpp:73, 105).                                         *)
Saved ==
    /\ pc # "down" => devs = Stored
    /\ pc = "idle" /\ ~writeLost => Load(file) = Load(scenariomap)

(* A scenario that was started is played to its end, or takes the process    *)
(* with it: pauses and other scenarios do not keep it up.                    *)
PlaysEnd == \A t \in Threads : run[t].place \in {"new", "play"} ~> run[t].place \in {"done", "unused"}
=============================================================================
