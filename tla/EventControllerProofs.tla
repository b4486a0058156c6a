------------------------- MODULE EventControllerProofs -------------------------
(***************************************************************************)
(* Proofs about EventController, for any rules, devices and commands.      *)
(*                                                                         *)
(* That the parser reads a rule as its author does is an assumption here:  *)
(* Faithful is checked for the rules of MCEventController.  The theorems   *)
(* are about the races around it.                                          *)
(***************************************************************************)
EXTENDS EventController, TLAPS

Maps == UNION {[I -> Rules0 \union {Void}] : I \in SUBSET Ids}

(* All state has its type.                                                   *)
TypeOK ==
    /\ level \in 0 .. MaxVersion /\ inv \in Nat /\ ask \in Nat /\ taken \in Nat
    /\ pc \in {"idle", "wait", "loop", "save", "write", "down", "boot"}
    /\ got \in Nat \union {NoInventory}
    /\ todo \subseteq Ids /\ fired \subseteq Ids
    /\ eventmap \in Maps /\ file \in Maps /\ devs \subseteq Ids
    /\ writeLost \in BOOLEAN
    /\ edits \in 0 .. MaxEdits /\ crashes \in 0 .. MaxCrashes

\* The inventory is not older than the event, and not newer than the device.
Order ==
    /\ taken <= level /\ inv <= level
    /\ pc = "wait" => taken <= ask /\ ask <= level /\ got = NoInventory
    /\ pc = "loop" /\ got # NoInventory => taken <= got /\ got <= level

\* Until the loop begins it has all rules before it; what it has left behind
\* has fired if its condition held, unless a rule before it ended the loop.
Visited ==
    /\ pc = "wait" => todo = DOMAIN eventmap /\ fired = {}
    /\ pc = "loop" =>
        /\ \A i \in fired : Holds(i)
        /\ \A i \in DOMAIN eventmap \ todo :
            (Holds(i) => i \in fired) \/ \E j \in Ids : j < i /\ Ends(j)

\* As in Saved, with the moments after a restart.
Kept ==
    /\ Saved
    /\ pc = "boot" => eventmap = Load(file)

Inv == TypeOK /\ Order /\ Visited /\ Kept
-----------------------------------------------------------------------------

LEMMA NoneIs == None \in Maps /\ DOMAIN None = {} /\ Load(None) = None
<1>1. None \in [{} -> Rules0 \union {Void}] /\ DOMAIN None = {}
  BY DEF None
<1>2. Load(None) = [i \in {} |-> None[i]]
  BY <1>1 DEF Load, Restrict
<1>3. Load(None) = None
  BY <1>1, <1>2
<1> QED BY <1>1, <1>3 DEF Maps

LEMMA MapIs ==
    ASSUME NEW m \in Maps
    PROVE  /\ DOMAIN m \subseteq Ids /\ m = [i \in DOMAIN m |-> m[i]]
           /\ \A i \in DOMAIN m : m[i] \in Rules0 \union {Void}
BY DEF Maps

LEMMA IsMap ==
    ASSUME NEW D \in SUBSET Ids, NEW m \in [D -> Rules0 \union {Void}]
    PROVE  m \in Maps /\ DOMAIN m = D
BY DEF Maps

\* What a reading leaves of a map, and that a second one leaves all of it.
LEMMA LoadIs ==
    ASSUME NEW m \in Maps
    PROVE  /\ Load(m) \in Maps /\ DOMAIN Load(m) = {i \in DOMAIN m : m[i] # Void}
           /\ \A i \in DOMAIN Load(m) : Load(m)[i] = m[i] /\ Load(m)[i] # Void
           /\ Load(Load(m)) = Load(m)
<1> DEFINE D == {i \in DOMAIN m : m[i] # Void}
<1>1. Load(m) = [i \in D |-> m[i]]
  BY DEF Load, Restrict
<1>2. D \subseteq Ids /\ \A i \in D : m[i] \in Rules0 \union {Void}
  BY MapIs
<1>3. Load(m) \in [D -> Rules0 \union {Void}] /\ \A i \in D : Load(m)[i] = m[i] /\ m[i] # Void
  BY <1>1, <1>2
<1>4. Load(m) \in Maps /\ DOMAIN Load(m) = D
  BY <1>2, <1>3, IsMap
<1>5. {i \in DOMAIN Load(m) : Load(m)[i] # Void} = D
  BY <1>3, <1>4
<1>6. Load(Load(m)) = [i \in D |-> Load(m)[i]]
  BY <1>5 DEF Load, Restrict
<1>7. Load(Load(m)) = Load(m)
  BY <1>1, <1>3, <1>6
<1> QED BY <1>3, <1>4, <1>7

LEMMA RuleIs == ASSUME NEW r \in Rules0 PROVE r \in RuleType /\ r # Void
<1>1. r \in RuleType
  BY EventAssumption
<1>2. DOMAIN r = {"match", "disabled", "nesting", "means"}
  BY <1>1 DEF RuleType
<1>3. DOMAIN Void = {"void"}
  BY DEF Void
<1> QED BY <1>1, <1>2, <1>3

\* Next, action by action.
LEMMA Cases ==
    ASSUME [Next]_vars
    PROVE  \/ Publish \/ Apply \/ Answer \/ Take \/ Timeout \/ EndLoop
           \/ Open \/ Write \/ Boot \/ Run \/ Crash
           \/ \E i \in Ids : Look(i)
           \/ \E i \in Ids : DelEvent(i) \/ GetUnknown(i)
           \/ \E i \in Ids, r \in Rules0 : SetEvent(i, r)
           \/ UNCHANGED vars
BY DEF Next, Device, Resolver, Controller, User

LEMMA InitInv == Init => Inv
<1> SUFFICES ASSUME Init PROVE Inv
  OBVIOUS
<1>1. /\ level = 0 /\ inv = 0 /\ ask = 0 /\ pc = "idle"
      /\ taken = 0 /\ got = NoInventory /\ todo = {} /\ fired = {}
      /\ eventmap = None /\ devs = {} /\ file = None
      /\ edits = 0 /\ crashes = 0
  BY DEF Init
<1>2. writeLost \in BOOLEAN
  BY Zenon DEF Init
<1>3. TypeOK
  BY <1>1, <1>2, NoneIs, EventAssumption DEF TypeOK
<1>4. Order /\ Visited
  BY <1>1 DEF Order, Visited
<1>5. Kept
  BY <1>1, NoneIs DEF Kept, Saved, Stored
<1> QED BY <1>3, <1>4, <1>5 DEF Inv
-----------------------------------------------------------------------------
\* Nothing is said of the loop outside of it.
LEMMA Outside ==
    ASSUME pc' \notin {"wait", "loop"}, taken' <= level', inv' <= level'
    PROVE  Order' /\ Visited'
BY DEF Order, Visited

\* What does not touch the rules and the file.
LEMMA SameTables ==
    ASSUME Inv, UNCHANGED tableVars, pc # "down",
           pc' \in {"idle", "wait", "loop"} => pc \in {"idle", "wait", "loop", "boot"},
           pc' # "boot"
    PROVE  Kept'
<1>1. pc = "boot" => eventmap = Load(file)
  BY DEF Inv, Kept
<1>2. pc = "boot" => Load(file) = Load(eventmap)
  BY <1>1, LoadIs DEF Inv, TypeOK
<1>3. Saved'
  BY <1>2 DEF Inv, Kept, Saved, Stored, tableVars
<1> QED BY <1>3 DEF Kept

\* The conditions depend on what the loop works with, and on nothing else.
LEMMA SameLoop ==
    ASSUME UNCHANGED <<taken, got, eventmap>>
    PROVE  \A i \in Ids : (Holds(i)' <=> Holds(i)) /\ (Ends(i)' <=> Ends(i))
BY DEF Holds, Ends, Concerned, Stored, Condition

LEMMA DeviceInv == ASSUME Inv, Publish \/ Apply PROVE Inv'
<1>1. /\ UNCHANGED <<ask, pc, taken, got, todo, fired>> /\ UNCHANGED tableVars
      /\ UNCHANGED <<edits, crashes>>
  BY DEF Publish, Apply, loopVars, userVars
<1>2. level' \in 0 .. MaxVersion /\ level <= level' /\ inv' \in Nat /\ inv' <= level'
  BY EventAssumption DEF Publish, Apply, Inv, TypeOK, Order
<1>3. TypeOK'
  BY <1>1, <1>2 DEF Inv, TypeOK, tableVars
<1>4. Order'
  BY <1>1, <1>2 DEF Inv, Order, TypeOK
<1>5. Visited'
  <2>1. eventmap' = eventmap /\ fired \subseteq Ids /\ DOMAIN eventmap \subseteq Ids
    BY <1>1, MapIs DEF tableVars, Inv, TypeOK
  <2>2. \A i \in Ids : (Holds(i)' <=> Holds(i)) /\ (Ends(i)' <=> Ends(i))
    BY <1>1, <2>1, SameLoop
  <2> QED BY <1>1, <2>1, <2>2 DEF Inv, Visited
<1>6. Kept'
  BY <1>1 DEF Inv, Kept, Saved, Stored, tableVars
<1> QED BY <1>3, <1>4, <1>5, <1>6 DEF Inv

LEMMA TakeInv == ASSUME Inv, Take PROVE Inv'
<1>1. /\ pc = "idle" /\ pc' = "wait" /\ taken < level /\ taken' = taken + 1 /\ ask' = level
      /\ got' = NoInventory /\ todo' = DOMAIN eventmap /\ fired' = {}
      /\ UNCHANGED <<level, inv, edits, crashes>> /\ UNCHANGED tableVars
  BY DEF Take, userVars
<1>2. DOMAIN eventmap \subseteq Ids
  BY MapIs DEF Inv, TypeOK
<1>3. TypeOK'
  BY <1>1, <1>2 DEF Inv, TypeOK, tableVars
<1>4. Order'
  BY <1>1 DEF Inv, Order, TypeOK
<1>5. Visited'
  BY <1>1 DEF Visited, tableVars
<1>6. Kept'
  BY <1>1, SameTables
<1> QED BY <1>3, <1>4, <1>5, <1>6 DEF Inv

\* The loop begins with what the resolver answered, or without an answer.
LEMMA AnswerInv == ASSUME Inv, Answer \/ Timeout PROVE Inv'
<1>1. /\ pc = "wait" /\ pc' = "loop" /\ got' \in {inv, NoInventory}
      /\ got' # NoInventory => inv = ask
      /\ UNCHANGED <<level, inv, ask, taken, todo, fired, edits, crashes>> /\ UNCHANGED tableVars
  BY DEF Answer, Timeout, userVars, loopVars, Inv, Order
<1>2. TypeOK'
  BY <1>1 DEF Inv, TypeOK, tableVars
<1>3. Order'
  BY <1>1, EventAssumption DEF Inv, Order, TypeOK
<1>4. Visited'
  BY <1>1 DEF Inv, Visited, tableVars
<1>5. Kept'
  BY <1>1, SameTables
<1> QED BY <1>2, <1>3, <1>4, <1>5 DEF Inv

LEMMA LookInv == ASSUME Inv, NEW i \in Ids, Look(i) PROVE Inv'
<1>1. /\ pc = "loop" /\ First(i)
      /\ todo' = (IF Ends(i) THEN {} ELSE todo \ {i})
      /\ fired' = (IF Holds(i) THEN fired \union {i} ELSE fired)
      /\ UNCHANGED <<level, inv, ask, pc, taken, got, edits, crashes>> /\ UNCHANGED tableVars
  BY DEF Look, userVars
<1>2. TypeOK'
  BY <1>1 DEF Inv, TypeOK, tableVars
<1>3. Order'
  BY <1>1 DEF Inv, Order
<1>4. Visited'
  <2>1. eventmap' = eventmap /\ fired' \subseteq Ids /\ DOMAIN eventmap \subseteq Ids
    BY <1>1, <1>2, MapIs DEF tableVars, Inv, TypeOK
  <2>2. \A j \in Ids : (Holds(j)' <=> Holds(j)) /\ (Ends(j)' <=> Ends(j))
    BY <1>1, <2>1, SameLoop
  <2>3. \A j \in fired' : Holds(j)
    BY <1>1 DEF Inv, Visited
  <2>4. ASSUME NEW j \in DOMAIN eventmap \ todo'
        PROVE  (Holds(j) => j \in fired') \/ \E k \in Ids : k < j /\ Ends(k)
    <3>1. CASE j \notin todo
      BY <1>1, <2>1, <2>4, <3>1 DEF Inv, Visited
    <3>2. CASE j = i
      BY <1>1, <3>2
    <3>3. CASE j \in todo /\ j # i
      <4>1. Ends(i) /\ i <= j
        BY <1>1, <2>4, <3>3 DEF First
      <4>2. i \in Nat /\ j \in Nat
        BY <2>1, <2>4, EventAssumption
      <4> QED BY <3>3, <4>1, <4>2
    <3> QED BY <3>1, <3>2, <3>3
  <2>5. pc' = "loop"
    BY <1>1
  <2> QED BY <2>1, <2>2, <2>3, <2>4, <2>5 DEF Visited
<1>5. Kept'
  BY <1>1, SameTables
<1> QED BY <1>2, <1>3, <1>4, <1>5 DEF Inv

LEMMA EndLoopInv == ASSUME Inv, EndLoop PROVE Inv'
<1>1. /\ pc = "loop" /\ pc' = "idle" /\ UNCHANGED <<level, inv, ask, taken, got, todo, fired, edits, crashes>>
      /\ UNCHANGED tableVars
  BY DEF EndLoop, loopVars, userVars
<1>2. TypeOK'
  BY <1>1 DEF Inv, TypeOK, tableVars
<1>3. Order' /\ Visited'
  BY <1>1, Outside DEF Inv, Order
<1>4. Kept'
  BY <1>1, SameTables
<1> QED BY <1>2, <1>3, <1>4 DEF Inv
-----------------------------------------------------------------------------
\* A command changes the rules; nothing else is going on.
LEMMA CommandInv ==
    ASSUME Inv, Command, eventmap' \in Maps, devs' = Stored', writeLost' = writeLost, file' = file,
           pc' = "save" \/ (pc' = "idle" /\ Load(eventmap') = Load(eventmap))
    PROVE  Inv'
<1>1. /\ pc = "idle" /\ edits < MaxEdits /\ edits' = edits + 1
      /\ UNCHANGED <<level, inv, ask, taken, got, todo, fired, crashes>>
  BY DEF Command, loopVars
<1>2. edits' \in 0 .. MaxEdits
  BY <1>1, EventAssumption DEF Inv, TypeOK
<1>3. devs' \subseteq Ids
  BY MapIs DEF Stored
<1>4. TypeOK'
  BY <1>1, <1>2, <1>3 DEF Inv, TypeOK
<1>5. Order' /\ Visited'
  BY <1>1, Outside DEF Inv, Order
<1>6. Kept'
  BY <1>1 DEF Inv, Kept, Saved
<1> QED BY <1>4, <1>5, <1>6 DEF Inv

LEMMA SetInv == ASSUME Inv, NEW i \in Ids, NEW r \in Rules0, SetEvent(i, r) PROVE Inv'
<1> DEFINE D == DOMAIN eventmap \union {i}
<1>1. /\ Command /\ pc' = "save" /\ devs' = devs \union {i} /\ UNCHANGED <<file, writeLost>>
      /\ eventmap' = [j \in D |-> IF j = i THEN r ELSE eventmap[j]]
  BY DEF SetEvent
<1>2. D \subseteq Ids /\ \A j \in DOMAIN eventmap : eventmap[j] \in Rules0 \union {Void}
  BY MapIs DEF Inv, TypeOK
<1>3. eventmap' \in [D -> Rules0 \union {Void}]
  BY <1>1, <1>2
<1>4. eventmap' \in Maps /\ DOMAIN eventmap' = D
  BY <1>2, <1>3, IsMap
<1>5. devs = {j \in DOMAIN eventmap : eventmap[j] # Void}
  BY <1>1 DEF Command, Inv, Kept, Saved, Stored
<1>6. devs' = Stored'
  BY <1>1, <1>4, <1>5, RuleIs DEF Stored
<1> QED BY <1>1, <1>4, <1>6, CommandInv

LEMMA DelInv == ASSUME Inv, NEW i \in Ids, DelEvent(i) PROVE Inv'
<1> DEFINE D == DOMAIN eventmap \ {i}
<1>1. /\ Command /\ pc' = "save" /\ devs' = devs \ {i} /\ UNCHANGED <<file, writeLost>>
      /\ eventmap' = [j \in D |-> eventmap[j]]
  BY DEF DelEvent, Restrict
<1>2. D \subseteq Ids /\ \A j \in DOMAIN eventmap : eventmap[j] \in Rules0 \union {Void}
  BY MapIs DEF Inv, TypeOK
<1>3. eventmap' \in [D -> Rules0 \union {Void}]
  BY <1>1, <1>2
<1>4. eventmap' \in Maps /\ DOMAIN eventmap' = D
  BY <1>2, <1>3, IsMap
<1>5. devs = {j \in DOMAIN eventmap : eventmap[j] # Void}
  BY <1>1 DEF Command, Inv, Kept, Saved, Stored
<1>6. devs' = Stored'
  BY <1>1, <1>4, <1>5 DEF Stored
<1> QED BY <1>1, <1>4, <1>6, CommandInv

\* A void entry is no rule, and no reading finds it.
LEMMA GetInv == ASSUME Inv, NEW i \in Ids, GetUnknown(i) PROVE Inv'
<1> DEFINE D == DOMAIN eventmap \union {i}
<1>1. /\ Command /\ i \notin DOMAIN eventmap /\ UNCHANGED <<pc, devs, file, writeLost>>
      /\ eventmap' = [j \in D |-> IF j = i THEN Void ELSE eventmap[j]]
  BY DEF GetUnknown
<1>2. D \subseteq Ids /\ \A j \in DOMAIN eventmap : eventmap[j] \in Rules0 \union {Void}
  BY MapIs DEF Inv, TypeOK
<1>3. eventmap' \in [D -> Rules0 \union {Void}]
  BY <1>1, <1>2
<1>4. eventmap' \in Maps /\ DOMAIN eventmap' = D
  BY <1>2, <1>3, IsMap
<1>5. eventmap'[i] = Void /\ \A j \in DOMAIN eventmap : eventmap'[j] = eventmap[j]
  BY <1>1
<1>6. Stored' = Stored
  BY <1>1, <1>4, <1>5 DEF Stored
<1>7. Load(eventmap') = Load(eventmap)
  <2>1. Load(eventmap') = [j \in Stored |-> eventmap'[j]]
    BY <1>6 DEF Load, Restrict, Stored
  <2>2. Load(eventmap) = [j \in Stored |-> eventmap[j]]
    BY DEF Load, Restrict, Stored
  <2> QED BY <1>5, <2>1, <2>2 DEF Stored
<1>8. pc' = "idle" /\ devs' = Stored'
  BY <1>1, <1>6 DEF Command, Inv, Kept, Saved
<1> QED BY <1>1, <1>4, <1>7, <1>8, CommandInv
-----------------------------------------------------------------------------
\* The file, the end of the process and its start.
LEMMA FileInv == ASSUME Inv, Open \/ Write PROVE Inv'
<1>1. /\ pc \in {"save", "write"} /\ pc' \in {"idle", "write"}
      /\ UNCHANGED <<level, inv, ask, taken, got, todo, fired, eventmap, devs, edits, crashes>>
  BY DEF Open, Write, loopVars, userVars
<1>2. file' \in {file, None, eventmap}
  BY DEF Open, Write
<1>3. writeLost' \in BOOLEAN
  BY Zenon DEF Open, Write, Inv, TypeOK
<1>4. pc' = "idle" /\ ~writeLost' => file' = eventmap
  BY Zenon DEF Open, Write
<1>5. TypeOK'
  BY <1>1, <1>2, <1>3, NoneIs DEF Inv, TypeOK
<1>6. Order' /\ Visited'
  BY <1>1, Outside DEF Inv, Order
<1>7. Kept'
  BY <1>1, <1>4 DEF Inv, Kept, Saved, Stored
<1> QED BY <1>5, <1>6, <1>7 DEF Inv

LEMMA CrashInv == ASSUME Inv, Crash PROVE Inv'
<1>1. /\ pc' = "down" /\ eventmap' = None /\ devs' = {} /\ got' = NoInventory
      /\ todo' = {} /\ fired' = {} /\ crashes < MaxCrashes /\ crashes' = crashes + 1
      /\ UNCHANGED <<level, inv, ask, taken, file, edits>>
  BY DEF Crash
<1>2. writeLost' \in BOOLEAN
  BY Zenon DEF Crash
<1>3. crashes' \in 0 .. MaxCrashes
  BY <1>1, EventAssumption DEF Inv, TypeOK
<1>4. TypeOK'
  BY <1>1, <1>2, <1>3, NoneIs DEF Inv, TypeOK
<1>5. Order' /\ Visited'
  BY <1>1, Outside DEF Inv, Order
<1>6. Kept'
  BY <1>1 DEF Kept, Saved
<1> QED BY <1>4, <1>5, <1>6 DEF Inv

LEMMA BootInv == ASSUME Inv, Boot PROVE Inv'
<1>1. /\ pc' = "boot" /\ eventmap' = Load(file) /\ devs' = DOMAIN Load(file)
      /\ UNCHANGED <<level, inv, ask, taken, got, todo, fired, file, writeLost, edits, crashes>>
  BY DEF Boot, loopVars, userVars
<1>2. /\ Load(file) \in Maps /\ DOMAIN Load(file) \subseteq Ids
      /\ \A i \in DOMAIN Load(file) : Load(file)[i] # Void
  BY LoadIs, MapIs DEF Inv, TypeOK
<1>3. TypeOK'
  BY <1>1, <1>2 DEF Inv, TypeOK
<1>4. Order' /\ Visited'
  BY <1>1, Outside DEF Inv, Order
<1>5. Stored' = devs'
  BY <1>1, <1>2 DEF Stored
<1>6. Load(file') = Load(file)
  BY <1>1
<1>7. Kept'
  BY <1>1, <1>5, <1>6 DEF Kept, Saved
<1> QED BY <1>3, <1>4, <1>7 DEF Inv

LEMMA RunInv == ASSUME Inv, Run PROVE Inv'
<1>1. /\ pc = "boot" /\ pc' = "idle" /\ taken' = level
      /\ UNCHANGED <<level, inv, ask, got, todo, fired, edits, crashes>> /\ UNCHANGED tableVars
  BY DEF Run, userVars
<1>2. TypeOK'
  BY <1>1 DEF Inv, TypeOK, tableVars
<1>3. Order' /\ Visited'
  BY <1>1, Outside DEF Inv, Order, TypeOK
<1>4. Kept'
  BY <1>1, SameTables
<1> QED BY <1>2, <1>3, <1>4 DEF Inv

LEMMA StutterInv == ASSUME Inv, UNCHANGED vars PROVE Inv'
<1>1. /\ UNCHANGED <<level, inv, ask, pc, taken, got, todo, fired, edits, crashes>>
      /\ UNCHANGED <<eventmap, devs, file, writeLost>>
  BY DEF vars, loopVars, tableVars, userVars
<1>2. TypeOK' /\ Order' /\ Kept'
  BY <1>1 DEF Inv, TypeOK, Order, Kept, Saved, Stored
<1>3. Visited'
  <2>1. fired \subseteq Ids /\ DOMAIN eventmap \subseteq Ids
    BY MapIs DEF Inv, TypeOK
  <2>2. \A i \in Ids : (Holds(i)' <=> Holds(i)) /\ (Ends(i)' <=> Ends(i))
    BY <1>1, SameLoop
  <2> QED BY <1>1, <2>1, <2>2 DEF Inv, Visited
<1> QED BY <1>2, <1>3 DEF Inv

LEMMA NextInv == ASSUME Inv, [Next]_vars PROVE Inv'
<1>1. CASE Publish \/ Apply
  BY <1>1, DeviceInv
<1>2. CASE Answer \/ Timeout
  BY <1>2, AnswerInv
<1>3. CASE Take
  BY <1>3, TakeInv
<1>4. CASE EndLoop \/ \E i \in Ids : Look(i)
  BY <1>4, EndLoopInv, LookInv
<1>5. CASE Open \/ Write
  BY <1>5, FileInv
<1>6. CASE Crash \/ Boot \/ Run
  BY <1>6, CrashInv, BootInv, RunInv
<1>7. CASE \E i \in Ids : DelEvent(i) \/ GetUnknown(i)
  BY <1>7, DelInv, GetInv
<1>8. CASE \E i \in Ids, r \in Rules0 : SetEvent(i, r)
  BY <1>8, SetInv
<1>9. CASE UNCHANGED vars
  BY <1>9, StutterInv
<1> QED BY <1>1, <1>2, <1>3, <1>4, <1>5, <1>6, <1>7, <1>8, <1>9, Cases

LEMMA Always == Spec => []Inv
BY InitInv, NextInv, PTL DEF Spec

(* The types hold, whatever is published, commanded and ends.                *)
THEOREM TypeCorrect == Spec => []TypeOK
<1>1. Inv => TypeOK
  BY DEF Inv
<1> QED BY <1>1, Always, PTL

(* What was answered is announced, and on disk, also across restarts, unless *)
(* the file could not be opened (agoevent.cpp:213, 242).                     *)
THEOREM Restored == Spec => []Saved
<1>1. Inv => Saved
  BY DEF Inv, Kept
<1> QED BY <1>1, Always, PTL
-----------------------------------------------------------------------------
\* What the loop finds of a device is true or false, and false without an
\* inventory.
LEMMA OnIs ==
    ASSUME NEW v
    PROVE  On(v) \in BOOLEAN /\ On(NoInventory) = FALSE
<1>1. On(v) \in BOOLEAN
  BY Zenon DEF On
<1>2. On(NoInventory) = FALSE
  BY Zenon DEF On
<1> QED BY <1>1, <1>2

LEMMA HoldsIs ==
    ASSUME Faithful, Inv, NEW i \in Ids, Concerned(i), ~eventmap[i].disabled
    PROVE  Holds(i) <=> <<On(got), On(taken)>> \in eventmap[i].means
<1>1. eventmap[i] \in Rules0
  BY MapIs DEF Concerned, Stored, Inv, TypeOK
<1>2. On(got) \in BOOLEAN /\ On(taken) \in BOOLEAN
  BY OnIs
<1>3. Verdict[eventmap[i], On(got), On(taken)] = "T" <=> <<On(got), On(taken)>> \in eventmap[i].means
  BY <1>1, <1>2, Zenon DEF Faithful
<1> QED BY <1>3, Zenon DEF Holds, Condition

\* An action is only sent if its condition was true at some time since the
\* event; without an inventory, if no criterion had to be false for that.
LEMMA TrulyIs == ASSUME Faithful, Inv PROVE FiresTruly
<1> SUFFICES ASSUME pc = "loop", NEW i \in fired, got # NoInventory \/ Positive(eventmap[i])
             PROVE  \E v \in taken .. level : Meant(eventmap[i], v)
  BY DEF FiresTruly
<1>1. i \in Ids /\ Holds(i)
  BY DEF Inv, TypeOK, Visited
<1>2. <<On(got), On(taken)>> \in eventmap[i].means
  BY <1>1, HoldsIs DEF Holds
<1>3. CASE got # NoInventory
  <2>1. got \in taken .. level
    BY <1>3 DEF Inv, Order, TypeOK
  <2> QED BY <1>2, <2>1, Zenon DEF Meant
<1>4. CASE got = NoInventory /\ Positive(eventmap[i])
  <2>1. taken \in taken .. level
    BY DEF Inv, Order, TypeOK
  <2>2. On(got) = FALSE /\ On(taken) \in BOOLEAN
    BY <1>4, OnIs
  <2>3. <<FALSE, On(taken)>> \in eventmap[i].means
    BY <1>2, <2>2, Zenon
  <2>4. <<TRUE, On(taken)>> \in eventmap[i].means
    BY <1>4, <2>2, <2>3, Zenon DEF Positive
  <2>5. On(taken) = TRUE \/ On(taken) = FALSE
    BY <2>2, Zenon
  <2>6. <<On(taken), On(taken)>> \in eventmap[i].means
    BY <2>3, <2>4, <2>5, Zenon
  <2> QED BY <2>1, <2>6, Zenon DEF Meant
<1> QED BY <1>3, <1>4

LEMMA AllIs == ASSUME Faithful, Inv PROVE FiresAll
<1> SUFFICES ASSUME pc = "loop", todo = {}, got # NoInventory, NEW i \in Ids,
                    Concerned(i), ~eventmap[i].disabled, Unhindered(i),
                    \A v \in taken .. level : Meant(eventmap[i], v)
             PROVE  i \in fired
  BY Zenon DEF FiresAll
<1>1. got \in taken .. level
  BY DEF Inv, Order, TypeOK
<1>2. Holds(i)
  BY <1>1, HoldsIs, Zenon DEF Meant
<1>3. i \in DOMAIN eventmap \ todo
  BY DEF Concerned, Stored
<1> QED BY <1>2, <1>3 DEF Inv, Visited, Unhindered

(* As far as conditions are read as they are meant, an action is only sent   *)
(* if its condition was true since the event, however late the resolver is   *)
(* (agoevent.cpp:92-167).                                                    *)
THEOREM TrulyFired == ASSUME Faithful PROVE Spec => []FiresTruly
<1>1. Inv => FiresTruly
  BY TrulyIs
<1> QED BY <1>1, Always, PTL

(* As far as conditions are read as they are meant, an enabled rule whose    *)
(* condition was true all the time since the event fires, unless one before  *)
(* it ends the loop (agoevent.cpp:93-195).                                   *)
THEOREM AllFired == ASSUME Faithful PROVE Spec => []FiresAll
<1>1. Inv => FiresAll
  BY AllIs
<1> QED BY <1>1, Always, PTL
=============================================================================
