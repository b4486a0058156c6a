---------------------------- MODULE EventController ----------------------------
(***************************************************************************)
(* The event controller (core/event/agoevent.cpp): one thread that takes   *)
(* events and commands from its queue.  For an event it asks the resolver  *)
(* for the inventory, waits up to three seconds, and runs the action of    *)
(* every stored rule (the source calls it an event, too) whose condition   *)
(* holds.                                                                  *)
(*                                                                         *)
(* One device is enough: it publishes version 1, 2, ... of its value, an   *)
(* odd one is "on".  The topic gives every receiver all messages in the    *)
(* order of publication, so counters stand for the queues: the controller  *)
(* has taken the events up to `taken`, the resolver has applied those up   *)
(* to `inv`, and its inventory request stands behind version `ask`.        *)
(*                                                                         *)
(* A rule: does it match the event's name, is it disabled, the tokens of   *)
(* its nesting, where "d" is a criterion on the device in the inventory    *)
(* and "e" one on the content of the event; and, for the properties, what  *)
(* its author means: the values of <<d, e>> that let it fire.              *)
(***************************************************************************)
EXTENDS Nesting, FiniteSets, Functions

CONSTANTS
    Ids,             \* uuids of rules, numbered in the order of the map
    Rules0,          \* the rules users write
    NoInventory,     \* the resolver did not answer in time
    MaxVersion,      \* bound: versions of the device
    MaxEdits,        \* bound: commands of users
    MaxCrashes       \* bound: ends of the controller

Nestings == Seq({"d", "e", "?", "w", "!", "&", "|", "(", ")"})
Valuations == BOOLEAN \X BOOLEAN
RuleType == [match : BOOLEAN, disabled : BOOLEAN, nesting : Nestings, means : SUBSET Valuations]
Void == [void |-> TRUE]      \* the entry that operator[] leaves behind

ASSUME EventAssumption ==
    /\ Ids \subseteq Nat
    /\ Rules0 \subseteq RuleType
    /\ NoInventory \notin Nat
    /\ {MaxVersion, MaxEdits, MaxCrashes} \subseteq Nat

VARIABLES
    level,           \* newest version published by the device
    inv,             \* version in the resolver's inventory
    ask,             \* version before the inventory request in its queue
    pc,              \* what the controller does
    taken,           \* event it handles, or handled last
    got,             \* its answer: a version, or NoInventory
    todo,            \* rules the loop has still to look at
    fired,           \* rules whose action was sent for this event
    eventmap, devs,  \* stored rules and announced devices
    file,            \* EVENTMAPFILE
    writeLost,       \* it could not be opened for the last save
    edits, crashes

userVars == <<edits, crashes>>
tableVars == <<eventmap, devs, file, writeLost>>
loopVars == <<taken, got, todo, fired>>
vars == <<level, inv, ask, pc, loopVars, tableVars, userVars>>

None == << >>                \* an empty map
Stored == {i \in DOMAIN eventmap : eventmap[i] # Void}
On(v) == v # NoInventory /\ v % 2 = 1

Init ==
    /\ level = 0 /\ inv = 0 /\ ask = 0
    /\ pc = "idle"
    /\ taken = 0 /\ got = NoInventory /\ todo = {} /\ fired = {}
    /\ eventmap = None /\ devs = {} /\ file = None /\ writeLost = FALSE
    /\ edits = 0 /\ crashes = 0

-----------------------------------------------------------------------------
(* The device and the resolver.                                              *)

Publish ==
    /\ level < MaxVersion
    /\ level' = level + 1
    /\ UNCHANGED <<inv, ask, pc, loopVars, tableVars, userVars>>

\* The resolver takes its next message: an event if it stands before the
\* request, or if nobody waits for the answer any more.
Apply ==
    /\ inv < level
    /\ pc = "wait" => inv < ask
    /\ inv' = inv + 1
    /\ UNCHANGED <<level, ask, pc, loopVars, tableVars, userVars>>

\* It answers with the inventory it has then.
Answer ==
    /\ pc = "wait" /\ inv = ask
    /\ got' = inv
    /\ pc' = "loop"
    /\ UNCHANGED <<level, inv, ask, taken, todo, fired, tableVars, userVars>>
-----------------------------------------------------------------------------
(* eventHandler.                                                             *)

\* Wrong: works with the inventory of the last event.
TakeCached ==
    /\ pc = "idle" /\ taken < level
    /\ taken' = taken + 1
    /\ ask' = level
    /\ pc' = IF got = NoInventory THEN "wait" ELSE "loop"
    /\ UNCHANGED got
    /\ todo' = DOMAIN eventmap
    /\ fired' = {}
    /\ UNCHANGED <<level, inv, tableVars, userVars>>

Take ==
    /\ pc = "idle" /\ taken < level
    /\ taken' = taken + 1
    /\ ask' = level
    /\ pc' = "wait"
    /\ got' = NoInventory
    /\ todo' = DOMAIN eventmap
    /\ fired' = {}
    /\ UNCHANGED <<level, inv, tableVars, userVars>>

\* Wrong: waits for the answer for ever.
TimeoutNever == FALSE /\ UNCHANGED vars

\* fetch gives up after three seconds: the inventory is an empty map.
Timeout ==
    /\ pc = "wait"
    /\ pc' = "loop"
    /\ UNCHANGED <<level, inv, ask, loopVars, tableVars, userVars>>

\* A criterion that cannot be evaluated, for want of an inventory, is false.
Value(token, d, e) ==
    CASE token = "d" -> IF d THEN "T" ELSE "F"
      [] token = "e" -> IF e THEN "T" ELSE "F"
      [] OTHER -> token

Verdict == [r \in Rules0, d \in BOOLEAN, e \in BOOLEAN |->
                Evaluate([k \in DOMAIN r.nesting |-> Value(r.nesting[k], d, e)])]

Condition(r) == Verdict[r, On(got), On(taken)]

\* One turn of the loop.  A disabled rule ends it, as does an exception that
\* leaves evaluateNesting, which run() catches.
First(i) == i \in todo /\ \A j \in todo : i <= j
Concerned(i) == i \in Stored /\ eventmap[i].match
Ends(i) == Concerned(i) /\ (eventmap[i].disabled \/ Condition(eventmap[i]) = "w")
Holds(i) == Concerned(i) /\ ~eventmap[i].disabled /\ Condition(eventmap[i]) = "T"

\* Wrong: stops at the first rule that fires.
LookOnce(i) ==
    /\ pc = "loop" /\ First(i)
    /\ todo' = IF Ends(i) \/ Holds(i) THEN {} ELSE todo \ {i}
    /\ fired' = IF Holds(i) THEN fired \union {i} ELSE fired
    /\ UNCHANGED <<level, inv, ask, pc, taken, got, tableVars, userVars>>

Look(i) ==
    /\ pc = "loop" /\ First(i)
    /\ todo' = IF Ends(i) THEN {} ELSE todo \ {i}
    /\ fired' = IF Holds(i) THEN fired \union {i} ELSE fired
    /\ UNCHANGED <<level, inv, ask, pc, taken, got, tableVars, userVars>>

EndLoop ==
    /\ pc = "loop" /\ todo = {}
    /\ pc' = "idle"
    /\ UNCHANGED <<level, inv, ask, loopVars, tableVars, userVars>>
-----------------------------------------------------------------------------
(* commandHandler.                                                           *)

Command ==
    /\ pc = "idle" /\ edits < MaxEdits
    /\ edits' = edits + 1
    /\ UNCHANGED <<level, inv, ask, loopVars, crashes>>

\* setevent: in memory, announced, then saved.
SetEvent(i, r) ==
    /\ Command
    /\ eventmap' = [j \in DOMAIN eventmap \union {i} |-> IF j = i THEN r ELSE eventmap[j]]
    /\ devs' = devs \union {i}
    /\ pc' = "save"
    /\ UNCHANGED <<file, writeLost>>

\* delevent looks for the entry and takes a void one for a rule, too.
DelEvent(i) ==
    /\ Command
    /\ i \in DOMAIN eventmap
    /\ eventmap' = Restrict(eventmap, DOMAIN eventmap \ {i})
    /\ devs' = devs \ {i}
    /\ pc' = "save"
    /\ UNCHANGED <<file, writeLost>>

\* getevent of an unknown uuid makes a void entry.
GetUnknown(i) ==
    /\ Command
    /\ i \notin DOMAIN eventmap
    /\ eventmap' = [j \in DOMAIN eventmap \union {i} |-> IF j = i THEN Void ELSE eventmap[j]]
    /\ UNCHANGED <<pc, devs, file, writeLost>>

\* variantMapToJSONFile: opening empties the file, then it is written and the
\* command answered.  A file that cannot be opened goes unnoticed: the stream
\* does not throw.
Open ==
    /\ pc = "save"
    /\ \/ file' = None /\ pc' = "write" /\ UNCHANGED writeLost
       \/ pc' = "idle" /\ writeLost' = TRUE /\ UNCHANGED file
    /\ UNCHANGED <<level, inv, ask, loopVars, eventmap, devs, userVars>>

Write ==
    /\ pc = "write"
    /\ file' = eventmap
    /\ writeLost' = FALSE
    /\ pc' = "idle"
    /\ UNCHANGED <<level, inv, ask, loopVars, eventmap, devs, userVars>>

-----------------------------------------------------------------------------
Crash ==
    /\ pc \notin {"down", "boot"} /\ crashes < MaxCrashes
    /\ crashes' = crashes + 1
    /\ pc' = "down"
    /\ eventmap' = None /\ devs' = {}
    /\ writeLost' = FALSE
    /\ got' = NoInventory /\ todo' = {} /\ fired' = {}
    /\ UNCHANGED <<level, inv, ask, taken, file, edits>>

\* Wrong: keeps what the file has as null.
LoadNull(f) == f

\* jsonToVariantMap leaves out what the file has as null.
Load(f) == Restrict(f, {i \in DOMAIN f : f[i] # Void})

\* main: the rules are read and announced before run() has a receiver.
Boot ==
    /\ pc = "down"
    /\ eventmap' = Load(file)
    /\ devs' = DOMAIN Load(file)
    /\ pc' = "boot"
    /\ UNCHANGED <<level, inv, ask, loopVars, file, writeLost, userVars>>

\* What was published before the receiver is there does not reach it.
Run ==
    /\ pc = "boot"
    /\ taken' = level
    /\ pc' = "idle"
    /\ UNCHANGED <<level, inv, ask, got, todo, fired, tableVars, userVars>>

Device == Publish
Resolver == Apply \/ Answer
Controller ==
    \/ Take \/ Timeout \/ EndLoop \/ Open \/ Write \/ Boot \/ Run
    \/ \E i \in Ids : Look(i)
User ==
    \E i \in Ids : DelEvent(i) \/ GetUnknown(i) \/ \E r \in Rules0 : SetEvent(i, r)

Next == Device \/ Resolver \/ Controller \/ User \/ Crash
Spec == Init /\ [][Next]_vars

\* The controller runs, and time passes; nothing is asked of the resolver.
FairSpec == Spec /\ WF_vars(Controller)
-----------------------------------------------------------------------------
(* What the author means, for each value the device had since the event.     *)
Meant(r, v) == <<On(v), On(taken)>> \in r.means
Positive(r) == \A e \in BOOLEAN : <<FALSE, e>> \in r.means => <<TRUE, e>> \in r.means

\* The parser reads every rule as its author does.
Faithful ==
    \A r \in Rules0, d \in BOOLEAN, e \in BOOLEAN :
        Verdict[r, d, e] = "T" <=> <<d, e>> \in r.means

(* An action is only sent if its condition was true, as its author reads it, *)
(* at some time since the event (agoevent.cpp:92-167); after a timeout that  *)
(* is only sure for conditions that do not depend on a criterion being       *)
(* false: a negated criterion holds when the resolver is late.               *)
FiresTruly ==
    pc = "loop" =>
        \A i \in fired :
            got # NoInventory \/ Positive(eventmap[i]) =>
                \E v \in taken .. level : Meant(eventmap[i], v)

(* When the loop ends, every enabled rule whose condition was true all the   *)
(* time since the event has fired, if the resolver answered and no rule      *)
(* before it is disabled or makes evaluateNesting throw: the return at       *)
(* agoevent.cpp:103 and an exception cost the later rules their turn.        *)
Unhindered(i) == \A j \in Ids : j < i => ~Ends(j)

FiresAll ==
    pc = "loop" /\ todo = {} /\ got # NoInventory =>
        \A i \in Ids :
            /\ Concerned(i) /\ ~eventmap[i].disabled /\ Unhindered(i)
            /\ \A v \in taken .. level : Meant(eventmap[i], v)
            => i \in fired

(* The announced devices are the stored rules, void entries of the map       *)
(* notwithstanding, before and after restarts; and outside of a save the     *)
(* file holds the rules in memory, so a restart brings back all that was     *)
(* answered, unless the file could not be opened (agoevent.cpp:213, 242).    *)
Saved ==
    /\ pc # "down" => devs = Stored
    /\ pc \in {"idle", "wait", "loop"} /\ ~writeLost => Load(file) = Load(eventmap)

(* Every event that reaches the controller is done with, answered or not by  *)
(* the resolver: none keeps the controller from the next one.                *)
EventsDone == <>[](taken = level /\ pc = "idle")
=============================================================================
