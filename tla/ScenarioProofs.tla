---------------------------- MODULE ScenarioProofs ----------------------------
(***************************************************************************)
(* Proofs about Scenario, for any scenarios, threads and bounds.           *)
(***************************************************************************)
EXTENDS Scenario, SequenceTheorems, TLAPS

Keys == Nat \X BOOLEAN
Plays == [place : {"unused", "new", "play", "done"}, pointer : Ids \union {None},
          asked : Scenarios0 \union {None}, torn : BOOLEAN, copy : Scenarios0 \union {None},
          todo : SUBSET Keys, sent : Seq(Nat \X Elements)]
Maps == UNION {[I -> Scenarios0 \union {Void}] : I \in SUBSET Ids}

(* All state has its type.                                                   *)
TypeOK ==
    /\ pc \in {"idle", "save", "write", "down"}
    /\ scenariomap \in Maps /\ file \in Maps /\ devs \subseteq Ids
    /\ writeLost \in BOOLEAN
    /\ run \in [Threads -> Plays]
    /\ commands \in 0 .. MaxCommands /\ crashes \in 0 .. MaxCrashes

\* Nothing plays in a process that is not there.
Ended == pc = "down" => \A t \in Threads : run[t] = Unused

\* PlayedRight for one thread, and what it rests on: the copy is the scenario
\* asked for, and what is still to be played is a part of it.
Right(r) ==
    LET s == r.asked
        played == DOMAIN s \ r.todo
    IN  /\ \A m, n \in DOMAIN r.sent : m < n => r.sent[m][1] < r.sent[n][1]
        /\ Range(r.sent) = {<<k[1], s[k]>> : k \in {l \in played : s[l] # Pause}}
        /\ \A k \in played, l \in r.todo : k[1] < l[1]

Good(r) ==
    /\ r.place \in {"unused", "new"} => r.sent = << >>
    /\ r.place \in {"play", "done"} => r.todo \subseteq DOMAIN r.copy
    /\ r.place \in {"play", "done"} /\ ~r.torn =>
        r.copy = r.asked /\ (Proper(r.asked) => Right(r))

Inv == TypeOK /\ Ended /\ Saved /\ PointerGood /\ \A t \in Threads : Good(run[t])
-----------------------------------------------------------------------------
\* Next, action by action.
LEMMA Cases ==
    ASSUME [Next]_vars
    PROVE  \/ \E i \in Ids, s \in Scenarios0 : SetScenario(i, s)
           \/ \E i \in Ids : DelScenario(i) \/ GetUnknown(i) \/ RunUnplayed(i)
           \/ \E i \in Ids, t \in Threads : Run(i, t)
           \/ Open \/ Write \/ Crash \/ Boot
           \/ \E t \in Threads : Copy(t) \/ CopyBad(t) \/ Return(t)
           \/ \E t \in Threads : \E k \in run[t].todo : Play(t, k) \/ PlayBad(t, k)
           \/ UNCHANGED vars
BY DEF Next, User, Thread

\* The scenarios, entry by entry.
LEMMA ScenarioIs ==
    ASSUME NEW s \in Scenarios0
    PROVE  /\ DOMAIN s \subseteq Keys /\ s # Void
           /\ \A k \in DOMAIN s : s[k] \in Elements \union {Pause, Scalar}
<1>1. IsScenario(s) /\ s # Void
  BY ScenarioAssumption
<1>2. \A k \in DOMAIN s : s[k] \in Range(s)
  BY DEF Range
<1> QED BY <1>1, <1>2 DEF IsScenario, Keys

LEMMA NoneIs == None \in Maps /\ DOMAIN None = {} /\ Load(None) = None
<1>1. None \in [{} -> Scenarios0 \union {Void}] /\ DOMAIN None = {}
  BY DEF None
<1>2. Load(None) = [i \in {} |-> None[i]]
  BY <1>1 DEF Load, Restrict
<1>3. Load(None) = None
  BY <1>1, <1>2
<1> QED BY <1>1, <1>3 DEF Maps

LEMMA MapIs ==
    ASSUME NEW m \in Maps
    PROVE  /\ DOMAIN m \subseteq Ids /\ m = [i \in DOMAIN m |-> m[i]]
           /\ \A i \in DOMAIN m : m[i] \in Scenarios0 \union {Void}
BY DEF Maps

LEMMA IsMap ==
    ASSUME NEW D \in SUBSET Ids, NEW m \in [D -> Scenarios0 \union {Void}]
    PROVE  m \in Maps /\ DOMAIN m = D
BY DEF Maps

\* What a reading leaves of a map, and that a second one leaves all of it.
LEMMA LoadIs ==
    ASSUME NEW m \in Maps
    PROVE  /\ Load(m) \in Maps /\ DOMAIN Load(m) = {i \in DOMAIN m : m[i] # Void}
           /\ \A i \in DOMAIN Load(m) : Load(m)[i] = m[i] /\ Load(m)[i] # Void
           /\ Load(Load(m)) = Load(m)
<1> DEFINE D == {i \in DOMAIN m : m[i] # Void}
<1>1. Load(m) = [i \in D |-> m[i]]
  BY DEF Load, Restrict
<1>2. D \subseteq Ids /\ \A i \in D : m[i] \in Scenarios0 \union {Void}
  BY MapIs
<1>3. Load(m) \in [D -> Scenarios0 \union {Void}] /\ \A i \in D : Load(m)[i] = m[i] /\ m[i] # Void
  BY <1>1, <1>2
<1>4. Load(m) \in Maps /\ DOMAIN Load(m) = D
  BY <1>2, <1>3, IsMap
<1>5. {i \in DOMAIN Load(m) : Load(m)[i] # Void} = D
  BY <1>3, <1>4
<1>6. Load(Load(m)) = [i \in D |-> Load(m)[i]]
  BY <1>5 DEF Load, Restrict
<1>7. Load(Load(m)) = Load(m)
  BY <1>1, <1>3, <1>6
<1> QED BY <1>3, <1>4, <1>7

LEMMA UnusedIs == Unused \in Plays /\ Unused.place = "unused" /\ Good(Unused)
<1>1. << >> \in Seq(Nat \X Elements)
  OBVIOUS
<1>2. Unused \in Plays
  BY <1>1 DEF Unused, Plays
<1>3. Unused.place = "unused" /\ Unused.sent = << >>
  BY DEF Unused
<1> QED BY <1>2, <1>3 DEF Good
-----------------------------------------------------------------------------
LEMMA InitInv == Init => Inv
<1> SUFFICES ASSUME Init PROVE Inv
  OBVIOUS
<1>1. pc = "idle" /\ scenariomap = None /\ file = None /\ devs = {} /\ writeLost = FALSE
      /\ commands = 0 /\ crashes = 0 /\ run = [t \in Threads |-> Unused]
  BY DEF Init
<1>2. TypeOK
  <2>1. writeLost \in BOOLEAN
    BY <1>1, Zenon
  <2>2. run \in [Threads -> Plays]
    BY <1>1, UnusedIs
  <2> QED BY <1>1, <2>1, <2>2, NoneIs, ScenarioAssumption DEF TypeOK
<1>3. Ended
  BY <1>1 DEF Ended
<1>4. Saved
  BY <1>1, NoneIs DEF Saved, Stored
<1>5. PointerGood /\ \A t \in Threads : Good(run[t])
  BY <1>1, UnusedIs DEF PointerGood
<1> QED BY <1>2, <1>3, <1>4, <1>5 DEF Inv

\* The process ends.
LEMMA EndInv == ASSUME Inv, End, crashes' \in 0 .. MaxCrashes PROVE Inv'
<1>1. pc' = "down" /\ scenariomap' = None /\ devs' = {} /\ file' = file /\ commands' = commands
      /\ run' = [t \in Threads |-> Unused]
  BY DEF End
<1>2. writeLost' \in BOOLEAN
  BY Zenon DEF End
<1>3. run' \in [Threads -> Plays] /\ \A t \in Threads : run'[t] = Unused
  BY <1>1, UnusedIs
<1>4. TypeOK'
  BY <1>1, <1>2, <1>3, NoneIs DEF Inv, TypeOK
<1>5. Ended' /\ Saved'
  BY <1>1, <1>3 DEF Ended, Saved
<1>6. PointerGood'
  BY <1>3, UnusedIs DEF PointerGood
<1>7. \A t \in Threads : Good(run'[t])
  BY <1>3, UnusedIs
<1> QED BY <1>4, <1>5, <1>6, <1>7 DEF Inv

\* Only threads that have not copied yet notice that an entry is gone.
LEMMA TearIs ==
    ASSUME TypeOK, NEW i \in Ids, Tear(i)
    PROVE  /\ run' \in [Threads -> Plays]
           /\ \A t \in Threads :
                /\ run'[t].place = run[t].place /\ run'[t].pointer = run[t].pointer
                /\ run'[t].asked = run[t].asked /\ run'[t].sent = run[t].sent
                /\ run'[t].torn = (run[t].torn \/ (run[t].place = "new" /\ run[t].pointer = i))
                /\ run[t].place # "new" => run'[t] = run[t]
<1> DEFINE R(t) == [run[t] EXCEPT
                !.torn = @ \/ (run[t].place = "new" /\ run[t].pointer = i)]
<1>1. \A t \in Threads : run[t] \in Plays
  BY DEF TypeOK
<1>2. ASSUME NEW t \in Threads
      PROVE  /\ R(t) \in Plays
             /\ R(t).place = run[t].place /\ R(t).pointer = run[t].pointer
             /\ R(t).asked = run[t].asked /\ R(t).sent = run[t].sent
             /\ R(t).torn = (run[t].torn \/ (run[t].place = "new" /\ run[t].pointer = i))
             /\ run[t].place # "new" => R(t) = run[t]
  <2> DEFINE v == run[t].torn \/ (run[t].place = "new" /\ run[t].pointer = i)
  <2>1. run[t] \in Plays /\ R(t) = [run[t] EXCEPT !.torn = v]
    BY <1>1
  <2>2. v \in BOOLEAN
    OBVIOUS
  <2>3. run[t].place # "new" => v = run[t].torn
    BY <2>1 DEF Plays
  <2> HIDE DEF v, R
  <2>4. R(t) \in Plays /\ R(t).place = run[t].place /\ R(t).pointer = run[t].pointer
        /\ R(t).asked = run[t].asked /\ R(t).sent = run[t].sent /\ R(t).torn = v
        /\ (v = run[t].torn => R(t) = run[t])
    BY <2>1, <2>2 DEF Plays
  <2> QED BY <2>3, <2>4 DEF v
<1>3. run' = [t \in Threads |-> R(t)]
  BY DEF Tear
<1> HIDE DEF R
<1> QED BY <1>2, <1>3

\* An entry is replaced, made or erased, and every other one stays.
LEMMA ChangeInv ==
    ASSUME Inv, NEW i \in Ids, Tear(i), pc = "idle", pc' = "save",
           scenariomap' \in Maps, devs' = {j \in DOMAIN scenariomap' : scenariomap'[j] # Void},
           \A j \in Ids \ {i} : (j \in DOMAIN scenariomap' <=> j \in DOMAIN scenariomap),
           \A j \in DOMAIN scenariomap \ {i} : scenariomap'[j] = scenariomap[j],
           commands' \in 0 .. MaxCommands, UNCHANGED <<file, writeLost, crashes>>
    PROVE  Inv'
<1>1. run' \in [Threads -> Plays]
  BY TearIs DEF Inv
<1>2. TypeOK'
  BY <1>1, MapIs DEF Inv, TypeOK
<1>3. Ended' /\ Saved'
  BY DEF Ended, Saved, Stored
<1>4. PointerGood'
  <2> SUFFICES ASSUME NEW t \in Threads, run'[t].place = "new", ~run'[t].torn
               PROVE  run'[t].pointer \in Stored' /\ scenariomap'[run'[t].pointer] = run'[t].asked
    BY DEF PointerGood
  <2> DEFINE p == run[t].pointer
  <2>1. run[t].place = "new" /\ ~run[t].torn /\ p # i /\ run'[t].pointer = p
        /\ run'[t].asked = run[t].asked
    <3>1. TypeOK
      BY DEF Inv
    <3>2. /\ run'[t].place = run[t].place /\ run'[t].pointer = run[t].pointer
          /\ run'[t].asked = run[t].asked
          /\ run'[t].torn = (run[t].torn \/ (run[t].place = "new" /\ run[t].pointer = i))
      BY <3>1, TearIs
    <3> QED BY <3>2, Zenon
  <2>2. p \in Stored /\ scenariomap[p] = run[t].asked
    BY <2>1 DEF Inv, PointerGood
  <2>3. p \in Ids
    BY <2>2, MapIs DEF Stored, Inv, TypeOK
  <2> QED BY <2>1, <2>2, <2>3 DEF Stored
<1>5. \A t \in Threads : Good(run'[t])
  <2> SUFFICES ASSUME NEW t \in Threads PROVE Good(run'[t])
    OBVIOUS
  <2>1. CASE run[t].place # "new"
    BY <2>1, TearIs DEF Inv
  <2>2. CASE run[t].place = "new"
    <3>1. run'[t].place = "new" /\ run'[t].sent = run[t].sent
      BY <2>2, TearIs DEF Inv
    <3>2. run[t].sent = << >>
      BY <2>2 DEF Inv, Good
    <3> QED BY <3>1, <3>2 DEF Good
  <2> QED BY <2>1, <2>2
<1> QED BY <1>2, <1>3, <1>4, <1>5 DEF Inv

LEMMA SetInv == ASSUME Inv, NEW i \in Ids, NEW s \in Scenarios0, SetScenario(i, s) PROVE Inv'
<1> DEFINE D == DOMAIN scenariomap \union {i}
<1>1. scenariomap' = [j \in D |-> IF j = i THEN s ELSE scenariomap[j]]
  BY DEF SetScenario
<1>2. D \subseteq Ids /\ \A j \in DOMAIN scenariomap : scenariomap[j] \in Scenarios0 \union {Void}
  BY MapIs DEF Inv, TypeOK
<1>3. scenariomap' \in [D -> Scenarios0 \union {Void}]
  BY <1>1, <1>2
<1>4. scenariomap' \in Maps /\ DOMAIN scenariomap' = D
  BY <1>2, <1>3, IsMap
<1>5. /\ pc = "idle" /\ pc' = "save" /\ devs' = devs \union {i} /\ Tear(i)
      /\ commands < MaxCommands /\ commands' = commands + 1
      /\ UNCHANGED <<file, writeLost, crashes>>
  BY DEF SetScenario, Command
<1>6. commands' \in 0 .. MaxCommands
  BY <1>5, ScenarioAssumption DEF Inv, TypeOK
<1>7. devs = {j \in DOMAIN scenariomap : scenariomap[j] # Void} /\ s # Void
  BY <1>5, ScenarioIs DEF Inv, Saved, Stored
<1>8. devs' = {j \in DOMAIN scenariomap' : scenariomap'[j] # Void}
  BY <1>1, <1>4, <1>5, <1>7
<1>9. \A j \in Ids \ {i} : (j \in DOMAIN scenariomap' <=> j \in DOMAIN scenariomap)
  BY <1>4
<1>10. \A j \in DOMAIN scenariomap \ {i} : scenariomap'[j] = scenariomap[j]
  BY <1>1
<1> HIDE DEF D
<1> QED BY <1>4, <1>5, <1>6, <1>8, <1>9, <1>10, ChangeInv

LEMMA DelInv == ASSUME Inv, NEW i \in Ids, DelScenario(i) PROVE Inv'
<1> DEFINE D == DOMAIN scenariomap \ {i}
<1>1. scenariomap' = [j \in D |-> scenariomap[j]]
  BY DEF DelScenario, Restrict
<1>2. D \subseteq Ids /\ \A j \in DOMAIN scenariomap : scenariomap[j] \in Scenarios0 \union {Void}
  BY MapIs DEF Inv, TypeOK
<1>3. scenariomap' \in [D -> Scenarios0 \union {Void}]
  BY <1>1, <1>2
<1>4. scenariomap' \in Maps /\ DOMAIN scenariomap' = D
  BY <1>2, <1>3, IsMap
<1>5. /\ pc = "idle" /\ pc' = "save" /\ devs' = devs \ {i} /\ Tear(i)
      /\ commands < MaxCommands /\ commands' = commands + 1
      /\ UNCHANGED <<file, writeLost, crashes>>
  BY DEF DelScenario, Command
<1>6. commands' \in 0 .. MaxCommands
  BY <1>5, ScenarioAssumption DEF Inv, TypeOK
<1>7. devs = {j \in DOMAIN scenariomap : scenariomap[j] # Void}
  BY <1>5 DEF Inv, Saved, Stored
<1>8. devs' = {j \in DOMAIN scenariomap' : scenariomap'[j] # Void}
  BY <1>1, <1>4, <1>5, <1>7
<1>9. \A j \in Ids \ {i} : (j \in DOMAIN scenariomap' <=> j \in DOMAIN scenariomap)
  BY <1>4
<1>10. \A j \in DOMAIN scenariomap \ {i} : scenariomap'[j] = scenariomap[j]
  BY <1>1
<1> HIDE DEF D
<1> QED BY <1>4, <1>5, <1>6, <1>8, <1>9, <1>10, ChangeInv

\* What a change of pc, tables or counters leaves alone, if no entry moves.
LEMMA FrameInv ==
    ASSUME Inv, TypeOK', UNCHANGED run, pc # "down", pc' # "down", Saved',
           \A j \in Stored : j \in Stored' /\ scenariomap'[j] = scenariomap[j]
    PROVE  Inv'
<1>1. Ended'
  BY DEF Ended
<1>2. PointerGood'
  <2> SUFFICES ASSUME NEW t \in Threads, run'[t].place = "new", ~run'[t].torn
               PROVE  run'[t].pointer \in Stored' /\ scenariomap'[run'[t].pointer] = run'[t].asked
    BY DEF PointerGood
  <2>1. run[t].pointer \in Stored /\ scenariomap[run[t].pointer] = run[t].asked
    BY DEF Inv, PointerGood
  <2> QED BY <2>1
<1>3. \A t \in Threads : Good(run'[t])
  BY DEF Inv
<1> QED BY <1>1, <1>2, <1>3 DEF Inv

LEMMA GetInv == ASSUME Inv, NEW i \in Ids, GetUnknown(i) PROVE Inv'
<1> DEFINE D == DOMAIN scenariomap \union {i}
<1>1. scenariomap' = [j \in D |-> IF j = i THEN Void ELSE scenariomap[j]] /\ i \notin DOMAIN scenariomap
  BY DEF GetUnknown
<1>2. D \subseteq Ids /\ \A j \in DOMAIN scenariomap : scenariomap[j] \in Scenarios0 \union {Void}
  BY MapIs DEF Inv, TypeOK
<1>3. scenariomap' \in [D -> Scenarios0 \union {Void}]
  BY <1>1, <1>2
<1>4. scenariomap' \in Maps /\ DOMAIN scenariomap' = D
  BY <1>2, <1>3, IsMap
<1>5. /\ pc = "idle" /\ commands < MaxCommands /\ commands' = commands + 1
      /\ UNCHANGED <<pc, devs, file, writeLost, run, crashes>>
  BY DEF GetUnknown, Command
<1>6. commands' \in 0 .. MaxCommands
  BY <1>5, ScenarioAssumption DEF Inv, TypeOK
<1>7. TypeOK'
  BY <1>4, <1>5, <1>6 DEF Inv, TypeOK
<1>8. \A j \in DOMAIN scenariomap : scenariomap'[j] = scenariomap[j]
  BY <1>1
<1>9. scenariomap'[i] = Void
  BY <1>1
<1>10. Stored' = Stored
  BY <1>1, <1>4, <1>8, <1>9 DEF Stored
<1>11. Load(scenariomap') = Load(scenariomap)
  <2>1. Load(scenariomap') = [j \in Stored |-> scenariomap'[j]]
    BY <1>10 DEF Load, Restrict, Stored
  <2>2. Load(scenariomap) = [j \in Stored |-> scenariomap[j]]
    BY DEF Load, Restrict, Stored
  <2> QED BY <1>8, <2>1, <2>2 DEF Stored
<1>12. Saved'
  BY <1>5, <1>10, <1>11 DEF Inv, Saved
<1>13. \A j \in Stored : j \in Stored' /\ scenariomap'[j] = scenariomap[j]
  BY <1>8, <1>10 DEF Stored
<1> HIDE DEF D
<1> QED BY <1>5, <1>7, <1>12, <1>13, FrameInv

\* The file: opened, written, read again.
LEMMA FileInv == ASSUME Inv, Open \/ Write PROVE Inv'
<1>1. /\ pc \in {"save", "write"} /\ pc' \in {"idle", "write"}
      /\ UNCHANGED <<scenariomap, devs, run, commands, crashes>>
  BY DEF Open, Write
<1>2. file' \in {file, None, scenariomap}
  BY DEF Open, Write
<1>3. writeLost' \in BOOLEAN
  BY Zenon DEF Open, Write, Inv, TypeOK
<1>4. pc' = "idle" /\ ~writeLost' => file' = scenariomap
  BY Zenon DEF Open, Write
<1>5. TypeOK'
  BY <1>1, <1>2, <1>3, NoneIs DEF Inv, TypeOK
<1>6. Saved'
  BY <1>1, <1>4 DEF Inv, Saved, Stored
<1>7. \A j \in Stored : j \in Stored' /\ scenariomap'[j] = scenariomap[j]
  BY <1>1 DEF Stored
<1> QED BY <1>1, <1>5, <1>6, <1>7, FrameInv

LEMMA BootInv == ASSUME Inv, Boot PROVE Inv'
<1>1. /\ pc = "down" /\ pc' = "idle" /\ scenariomap' = Load(file) /\ devs' = DOMAIN Load(file)
      /\ UNCHANGED <<file, writeLost, run, commands, crashes>>
  BY DEF Boot
<1>2. /\ Load(file) \in Maps /\ DOMAIN Load(file) \subseteq Ids
      /\ \A i \in DOMAIN Load(file) : Load(file)[i] # Void
      /\ Load(Load(file)) = Load(file)
  BY LoadIs, MapIs DEF Inv, TypeOK
<1>3. TypeOK'
  BY <1>1, <1>2 DEF Inv, TypeOK
<1>4. Stored' = devs'
  BY <1>1, <1>2 DEF Stored
<1>5. Saved'
  BY <1>1, <1>2, <1>4 DEF Saved
<1>6. \A t \in Threads : run'[t] = Unused
  BY <1>1 DEF Inv, Ended
<1>7. Ended' /\ PointerGood' /\ \A t \in Threads : Good(run'[t])
  BY <1>1, <1>6, UnusedIs DEF Ended, PointerGood
<1> QED BY <1>3, <1>5, <1>7 DEF Inv
-----------------------------------------------------------------------------
\* A step of one thread, or for one.
LEMMA OneThread ==
    ASSUME Inv, NEW t \in Threads, NEW r \in Plays, run' = [run EXCEPT ![t] = r],
           pc # "down", UNCHANGED <<pc, tableVars, crashes>>, commands' \in 0 .. MaxCommands,
           r.place = "new" /\ ~r.torn => r.pointer \in Stored /\ scenariomap[r.pointer] = r.asked,
           Good(r)
    PROVE  Inv'
<1>1. run' \in [Threads -> Plays] /\ run'[t] = r /\ \A u \in Threads \ {t} : run'[u] = run[u]
  BY DEF Inv, TypeOK
<1>2. TypeOK'
  BY <1>1 DEF Inv, TypeOK, tableVars
<1>3. Ended' /\ Saved' /\ Stored' = Stored
  BY DEF Inv, Ended, Saved, Stored, tableVars
<1>4. PointerGood'
  <2> SUFFICES ASSUME NEW u \in Threads, run'[u].place = "new", ~run'[u].torn
               PROVE  run'[u].pointer \in Stored' /\ scenariomap'[run'[u].pointer] = run'[u].asked
    BY DEF PointerGood
  <2>1. CASE u = t
    BY <1>1, <1>3, <2>1 DEF tableVars
  <2>2. CASE u # t
    <3>1. run[u].pointer \in Stored /\ scenariomap[run[u].pointer] = run[u].asked
      BY <1>1, <2>2 DEF Inv, PointerGood
    <3> QED BY <1>1, <1>3, <2>2, <3>1 DEF tableVars
  <2> QED BY <2>1, <2>2
<1>5. \A u \in Threads : Good(run'[u])
  BY <1>1 DEF Inv
<1> QED BY <1>2, <1>3, <1>4, <1>5 DEF Inv

LEMMA RunInv == ASSUME Inv, NEW i \in Ids, NEW t \in Threads, Run(i, t) PROVE Inv'
<1> DEFINE q == run[t]
           r == [q EXCEPT !.place = "new", !.pointer = i, !.asked = scenariomap[i]]
<1>1. /\ pc = "idle" /\ i \in devs /\ commands < MaxCommands /\ commands' = commands + 1
      /\ UNCHANGED <<pc, tableVars, crashes>>
      /\ run' = [run EXCEPT ![t].place = "new", ![t].pointer = i, ![t].asked = scenariomap[i]]
  BY DEF Run, Command
<1>2. commands' \in 0 .. MaxCommands
  BY <1>1, ScenarioAssumption DEF Inv, TypeOK
<1>3. q \in Plays /\ q.sent = << >>
  BY DEF Inv, TypeOK, Run, Good
<1>4. i \in Stored /\ scenariomap[i] \in Scenarios0
  BY <1>1, MapIs DEF Inv, TypeOK, Saved, Stored
<1>5. run' = [run EXCEPT ![t] = r]
  BY <1>1 DEF Inv, TypeOK
<1> HIDE DEF q
<1>6. r \in Plays /\ r.place = "new" /\ r.pointer = i /\ r.asked = scenariomap[i]
      /\ r.sent = << >>
  BY <1>3, <1>4 DEF Plays
<1> HIDE DEF r
<1>7. Good(r)
  BY <1>6 DEF Good
<1> QED BY <1>1, <1>2, <1>4, <1>5, <1>6, <1>7, OneThread

LEMMA CopyInv == ASSUME Inv, NEW t \in Threads, Copy(t) PROVE Inv'
<1> DEFINE q == run[t]
<1>1. PICK s \in Copied(t) :
        run' = [run EXCEPT ![t].copy = s, ![t].todo = DOMAIN s, ![t].place = "play"]
  BY DEF Copy
<1> DEFINE r == [q EXCEPT !.copy = s, !.todo = DOMAIN s, !.place = "play"]
<1>2. Running /\ q.place = "new" /\ UNCHANGED <<pc, tableVars, commands, crashes>>
  BY DEF Copy
<1>3. q \in Plays
  BY DEF Inv, TypeOK
<1>4. s \in Scenarios0 /\ (~q.torn => s = q.asked)
  <2>1. CASE q.torn
    BY <1>1, <2>1 DEF Copied
  <2>2. CASE ~q.torn
    <3>1. q.pointer \in Stored /\ scenariomap[q.pointer] = q.asked
      BY <1>2, <2>2 DEF Inv, PointerGood
    <3>2. scenariomap[q.pointer] \in Scenarios0
      BY <3>1, MapIs DEF Inv, TypeOK, Stored
    <3>3. s = scenariomap[q.pointer]
      BY <1>1, <2>2 DEF Copied
    <3> QED BY <3>1, <3>2, <3>3
  <2> QED BY <2>1, <2>2
<1>5. DOMAIN s \subseteq Keys
  BY <1>4, ScenarioIs
<1>6. run' = [run EXCEPT ![t] = r]
  BY <1>1 DEF Inv, TypeOK
<1>7. q.sent = << >>
  BY <1>2 DEF Inv, Good
<1> HIDE DEF q
<1>8. /\ r \in Plays /\ r.place = "play" /\ r.torn = q.torn /\ r.asked = q.asked
      /\ r.copy = s /\ r.todo = DOMAIN s /\ r.sent = q.sent
  BY <1>3, <1>4, <1>5 DEF Plays
<1> HIDE DEF r
<1>9. Good(r)
  <2> SUFFICES ASSUME ~r.torn PROVE r.copy = r.asked /\ Right(r)
    BY <1>8 DEF Good
  <2>1. r.copy = r.asked /\ r.asked = s
    BY <1>4, <1>8
  <2>2. DOMAIN r.sent = {} /\ Range(r.sent) = {}
    BY <1>7, <1>8 DEF Range
  <2>3. DOMAIN s \ r.todo = {}
    BY <1>8
  <2> QED BY <2>1, <2>2, <2>3 DEF Right
<1>10. pc # "down" /\ commands' \in 0 .. MaxCommands
  BY <1>2 DEF Running, Inv, TypeOK
<1> QED BY <1>2, <1>6, <1>8, <1>9, <1>10, OneThread

LEMMA ReturnInv == ASSUME Inv, NEW t \in Threads, Return(t) PROVE Inv'
<1> DEFINE q == run[t]
           r == [q EXCEPT !.place = "done"]
<1>1. Running /\ q.place = "play" /\ UNCHANGED <<pc, tableVars, commands, crashes>>
      /\ run' = [run EXCEPT ![t].place = "done"]
  BY DEF Return
<1>2. q \in Plays /\ Good(q)
  BY DEF Inv, TypeOK
<1>3. run' = [run EXCEPT ![t] = r]
  BY <1>1 DEF Inv, TypeOK
<1> HIDE DEF q
<1>4. /\ r \in Plays /\ r.place = "done" /\ r.torn = q.torn /\ r.asked = q.asked
      /\ r.copy = q.copy /\ r.todo = q.todo /\ r.sent = q.sent
  BY <1>2 DEF Plays
<1> HIDE DEF r
<1>5. Right(q) => Right(r)
  BY <1>4 DEF Right
<1>6. Good(r)
  BY <1>1, <1>2, <1>4, <1>5 DEF Good
<1>7. pc # "down" /\ commands' \in 0 .. MaxCommands
  BY <1>1 DEF Running, Inv, TypeOK
<1> QED BY <1>1, <1>3, <1>4, <1>6, <1>7, OneThread

LEMMA PairIs == ASSUME NEW S, NEW T, NEW k \in S \X T PROVE k = <<k[1], k[2]>>
OBVIOUS

LEMMA RangeOfAppend ==
    ASSUME NEW S, NEW s \in Seq(S), NEW e \in S
    PROVE  /\ Append(s, e) \in Seq(S) /\ DOMAIN Append(s, e) = DOMAIN s \union {Len(s) + 1}
           /\ DOMAIN s = 1 .. Len(s) /\ Len(s) \in Nat
           /\ \A n \in DOMAIN s : Append(s, e)[n] = s[n]
           /\ Append(s, e)[Len(s) + 1] = e
           /\ Range(Append(s, e)) = Range(s) \union {e}
BY DEF Range

\* The next element is sent after the elements with smaller numbers.
LEMMA RightOn ==
    ASSUME NEW q \in Plays, NEW r \in Plays, NEW k \in q.todo, Right(q), Proper(q.asked),
           q.asked \in Scenarios0, q.todo \subseteq DOMAIN q.asked,
           \A l \in q.todo : k[1] <= l[1],
           r.asked = q.asked, r.todo = q.todo \ {k},
           r.sent = IF q.asked[k] = Pause THEN q.sent ELSE Append(q.sent, <<k[1], q.asked[k]>>),
           q.asked[k] # Pause => q.asked[k] \in Elements
    PROVE  Right(r)
<1> DEFINE s == q.asked
           played == DOMAIN s \ q.todo
           after == DOMAIN s \ r.todo
           x == <<k[1], s[k]>>
<1>1. \A l \in DOMAIN s : l \in Nat \X BOOLEAN /\ l[1] \in Nat /\ l[2] = TRUE
  <2>1. \A l \in DOMAIN s : l \in Nat \X BOOLEAN
    BY ScenarioIs DEF Keys
  <2> QED BY <2>1 DEF Proper
<1>2. k \in DOMAIN s /\ after = played \union {k}
  OBVIOUS
<1>3. \A a \in played, l \in q.todo : a[1] < l[1]
  BY DEF Right
<1>4. \A a \in after, l \in r.todo : a[1] < l[1]
  <2> SUFFICES ASSUME NEW a \in after, NEW l \in r.todo PROVE a[1] < l[1]
    OBVIOUS
  <2>1. CASE a = k
    <3>1. k[1] <= l[1] /\ l # k /\ l \in DOMAIN s
      OBVIOUS
    <3>2. k = <<k[1], TRUE>> /\ l = <<l[1], TRUE>>
      BY <1>1, <1>2, <3>1, PairIs
    <3>3. k[1] # l[1] /\ k[1] \in Nat /\ l[1] \in Nat
      BY <1>1, <1>2, <3>1, <3>2
    <3> QED BY <2>1, <3>1, <3>3
  <2>2. CASE a \in played
    BY <1>3, <2>2
  <2> QED BY <1>2, <2>1, <2>2
<1>5. /\ \A m, n \in DOMAIN q.sent : m < n => q.sent[m][1] < q.sent[n][1]
      /\ Range(q.sent) = {<<a[1], s[a]>> : a \in {l \in played : s[l] # Pause}}
  BY DEF Right
<1>6. CASE s[k] = Pause
  <2>1. {l \in after : s[l] # Pause} = {l \in played : s[l] # Pause}
    BY <1>2, <1>6
  <2> QED BY <1>4, <1>5, <1>6, <2>1 DEF Right
<1>7. CASE s[k] # Pause
  <2>1. {l \in after : s[l] # Pause} = {l \in played : s[l] # Pause} \union {k}
    BY <1>2, <1>7
  <2>2. x \in Nat \X Elements /\ q.sent \in Seq(Nat \X Elements) /\ r.sent = Append(q.sent, x)
    BY <1>1, <1>2, <1>7 DEF Plays
  <2> DEFINE S == Nat \X Elements
  <2> HIDE DEF x, S
  <2>3. /\ DOMAIN r.sent = DOMAIN q.sent \union {Len(q.sent) + 1}
        /\ DOMAIN q.sent = 1 .. Len(q.sent) /\ Len(q.sent) \in Nat
        /\ \A n \in DOMAIN q.sent : r.sent[n] = q.sent[n]
        /\ r.sent[Len(q.sent) + 1] = x
        /\ Range(r.sent) = Range(q.sent) \union {x}
    <3>1. x \in S /\ q.sent \in Seq(S) /\ r.sent = Append(q.sent, x)
      BY <2>2 DEF S
    <3> DEFINE y == q.sent
               z == Append(y, x)
    <3> HIDE DEF y, S
    <3>2. /\ DOMAIN z = DOMAIN y \union {Len(y) + 1}
          /\ DOMAIN y = 1 .. Len(y) /\ Len(y) \in Nat
          /\ \A n \in DOMAIN y : z[n] = y[n]
          /\ z[Len(y) + 1] = x
          /\ Range(z) = Range(y) \union {x}
      <4>1. y \in Seq(S) /\ x \in S
        BY <3>1 DEF y
      <4> QED BY <4>1, RangeOfAppend
    <3> QED BY <3>1, <3>2 DEF y, z
  <2>4. Range(r.sent) = {<<a[1], s[a]>> : a \in {l \in after : s[l] # Pause}}
    BY <1>5, <2>1, <2>3 DEF x
  <2>5. \A m \in DOMAIN q.sent : q.sent[m][1] < k[1]
    <3> SUFFICES ASSUME NEW m \in DOMAIN q.sent PROVE q.sent[m][1] < k[1]
      OBVIOUS
    <3>1. q.sent[m] \in Range(q.sent)
      BY DEF Range
    <3>2. PICK a \in played : q.sent[m] = <<a[1], s[a]>>
      BY <1>5, <3>1
    <3> QED BY <1>3, <3>2
  <2>6. \A m, n \in DOMAIN r.sent : m < n => r.sent[m][1] < r.sent[n][1]
    <3> SUFFICES ASSUME NEW m \in DOMAIN r.sent, NEW n \in DOMAIN r.sent, m < n
                 PROVE  r.sent[m][1] < r.sent[n][1]
      OBVIOUS
    <3>1. m \in DOMAIN q.sent
      BY <2>3
    <3>2. CASE n \in DOMAIN q.sent
      BY <1>5, <2>3, <3>1, <3>2
    <3>3. CASE n = Len(q.sent) + 1
      <4>1. r.sent[n][1] = k[1]
        BY <2>3, <3>3 DEF x
      <4> QED BY <2>3, <2>5, <3>1, <4>1
    <3> QED BY <2>3, <3>2, <3>3
  <2> QED BY <1>4, <2>4, <2>6 DEF Right
<1> QED BY <1>6, <1>7

LEMMA PlayInv == ASSUME Inv, NEW t \in Threads, NEW k \in run[t].todo, Play(t, k) PROVE Inv'
<1> DEFINE q == run[t]
           e == q.copy[Plain(k)]
           sent == IF e = Pause THEN q.sent ELSE Append(q.sent, <<k[1], e>>)
           r == [q EXCEPT !.todo = q.todo \ {k}, !.sent = sent]
<1>1. /\ Running /\ q.place = "play" /\ First(t, k) /\ Found(q.copy, k)
      /\ UNCHANGED <<pc, tableVars, commands, crashes>>
  BY DEF Play
<1>2. q \in Plays /\ Good(q) /\ k \in q.todo
  BY DEF Inv, TypeOK
<1>3. run' = [run EXCEPT ![t] = r]
  BY DEF Play, Inv, TypeOK
<1>4. \A l \in q.todo : k[1] <= l[1]
  BY <1>1 DEF First
<1> HIDE DEF q
<1>5. q.copy \in Scenarios0 /\ q.todo \subseteq DOMAIN q.copy
  <2>1. q.todo \subseteq DOMAIN q.copy
    BY <1>1, <1>2 DEF Good
  <2>2. q.copy # None
    BY <1>2, <2>1, NoneIs
  <2> QED BY <1>2, <2>1, <2>2 DEF Plays
<1>6. e \in Elements \union {Pause} /\ k[1] \in Nat
  <2>1. Plain(k) \in DOMAIN q.copy /\ e # Scalar
    BY <1>1 DEF Found
  <2>2. k \in Nat \X BOOLEAN
    BY <1>2, <1>5, ScenarioIs DEF Keys
  <2> QED BY <1>5, <2>1, <2>2, ScenarioIs
<1> HIDE DEF e
<1>7. sent \in Seq(Nat \X Elements)
  <2>1. q.sent \in Seq(Nat \X Elements)
    BY <1>2 DEF Plays
  <2>2. e # Pause => <<k[1], e>> \in Nat \X Elements
    BY <1>6
  <2> QED BY <2>1, <2>2
<1> HIDE DEF sent
<1>8. /\ r \in Plays /\ r.place = "play" /\ r.torn = q.torn /\ r.asked = q.asked
      /\ r.copy = q.copy /\ r.todo = q.todo \ {k} /\ r.sent = sent
  BY <1>1, <1>2, <1>7 DEF Plays
<1> HIDE DEF r
<1>9. ASSUME ~q.torn, Proper(q.asked) PROVE Right(r)
  <2>1. q.copy = q.asked /\ Right(q)
    BY <1>1, <1>2, <1>9 DEF Good
  <2>2. k = Plain(k)
    <3>1. k \in Nat \X BOOLEAN /\ k[2] = TRUE
      BY <1>2, <1>5, <1>9, <2>1, ScenarioIs DEF Proper, Keys
    <3> QED BY <3>1, PairIs DEF Plain
  <2>3. e = q.asked[k]
    BY <2>1, <2>2 DEF e
  <2> QED BY <1>2, <1>4, <1>5, <1>6, <1>8, <1>9, <2>1, <2>3, RightOn DEF sent
<1>10. Good(r)
  BY <1>1, <1>2, <1>8, <1>9 DEF Good
<1>11. pc # "down" /\ commands' \in 0 .. MaxCommands
  BY <1>1 DEF Running, Inv, TypeOK
<1> QED BY <1>1, <1>3, <1>8, <1>10, <1>11, OneThread
-----------------------------------------------------------------------------
LEMMA NextInv == ASSUME Inv, [Next]_vars PROVE Inv'
<1>1. CASE \E i \in Ids, s \in Scenarios0 : SetScenario(i, s)
  BY <1>1, SetInv
<1>2. CASE \E i \in Ids : DelScenario(i) \/ GetUnknown(i)
  BY <1>2, DelInv, GetInv
<1>3. CASE \E i \in Ids : RunUnplayed(i)
  <2>1. /\ pc = "idle" /\ commands < MaxCommands /\ commands' = commands + 1
        /\ UNCHANGED <<pc, scenariomap, devs, file, writeLost, run, crashes>>
    BY <1>3 DEF RunUnplayed, Command, tableVars
  <2>2. commands' \in 0 .. MaxCommands
    BY <2>1, ScenarioAssumption DEF Inv, TypeOK
  <2>3. TypeOK'
    BY <2>1, <2>2 DEF Inv, TypeOK
  <2>4. Saved' /\ Stored' = Stored
    BY <2>1 DEF Inv, Saved, Stored
  <2> QED BY <2>1, <2>3, <2>4, FrameInv
<1>4. CASE \E i \in Ids, t \in Threads : Run(i, t)
  BY <1>4, RunInv
<1>5. CASE Open \/ Write \/ Boot
  BY <1>5, FileInv, BootInv
<1>6. CASE Crash
  <2>1. End /\ crashes' \in 0 .. MaxCrashes
    BY <1>6, ScenarioAssumption DEF Crash, Inv, TypeOK
  <2> QED BY <2>1, EndInv
<1>7. CASE \E t \in Threads : Copy(t) \/ Return(t)
  BY <1>7, CopyInv, ReturnInv
<1>8. CASE \/ \E t \in Threads : CopyBad(t)
           \/ \E t \in Threads : \E k \in run[t].todo : PlayBad(t, k)
  <2>1. End /\ crashes' = crashes
    BY <1>8 DEF CopyBad, PlayBad
  <2> QED BY <2>1, EndInv DEF Inv, TypeOK
<1>9. CASE \E t \in Threads : \E k \in run[t].todo : Play(t, k)
  BY <1>9, PlayInv
<1>10. CASE UNCHANGED vars
  <2>1. UNCHANGED <<pc, scenariomap, devs, file, writeLost, run, commands, crashes>>
    BY <1>10 DEF vars, tableVars
  <2>2. TypeOK' /\ Ended' /\ Saved'
    BY <2>1 DEF Inv, TypeOK, Ended, Saved, Stored
  <2>3. PointerGood' /\ \A t \in Threads : Good(run'[t])
    BY <2>1 DEF Inv, PointerGood, Stored
  <2> QED BY <2>2, <2>3 DEF Inv
<1> QED BY <1>1, <1>2, <1>3, <1>4, <1>5, <1>6, <1>7, <1>8, <1>9, <1>10, Cases

LEMMA Always == Spec => []Inv
BY InitInv, NextInv, PTL DEF Spec

(* The types hold, whatever is commanded and ends.                           *)
THEOREM TypeCorrect == Spec => []TypeOK
<1>1. Inv => TypeOK
  BY DEF Inv
<1> QED BY <1>1, Always, PTL

(* A thread finds the entry it was given, unless it was replaced or deleted  *)
(* meanwhile (agoscenario.cpp:26, 118).                                      *)
THEOREM PointersGood == Spec => []PointerGood
<1>1. Inv => PointerGood
  BY DEF Inv
<1> QED BY <1>1, Always, PTL

(* What was sent are the elements of the scenario that was asked for, in the *)
(* order of their numbers and without gaps (agoscenario.cpp:26-54).          *)
THEOREM PlaysRight == Spec => []PlayedRight
<1>1. Inv => PlayedRight
  BY DEF Inv, Good, Right, PlayedRight
<1> QED BY <1>1, Always, PTL

(* What was answered is announced, and on disk, also across restarts, unless *)
(* the file could not be opened (agoscenario.cpp:73, 105).                   *)
THEOREM Restored == Spec => []Saved
<1>1. Inv => Saved
  BY DEF Inv
<1> QED BY <1>1, Always, PTL
=============================================================================
