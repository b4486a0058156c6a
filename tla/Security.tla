------------------------------ MODULE Security ------------------------------
(***************************************************************************)
(* The alarm controller, agosecurity.cpp.  One thread runs commandHandler, *)
(* one command at a time; triggerzone starts an alarm thread that counts   *)
(* down the delay of its zone and then raises the alert; cancel stops it.  *)
(* Handler and alarm threads share securitymap, the handle securityThread  *)
(* and the plain flag isSecurityThreadRunning, without a lock.  The map is *)
(* kept in a file and the process may crash and be started again.          *)
(*                                                                         *)
(* pthread_cancel is deferred: it takes effect at the next cancellation    *)
(* point.  The thread's output and its sleep are such points; sending the  *)
(* alert may be one, clearing the flag is not.                             *)
(***************************************************************************)
EXTENDS Integers, FiniteSets

CONSTANTS
    Zones, Modes,
    Zonemaps,       \* zone maps setzones may be given: mode -> zone -> delay
    NoZones,        \* a map without "zones" or "housemode", as an empty file gives
    NoMode,
    Junk,           \* what a freed string may hold besides a zone
    Threads,        \* alarm threads of one run of the process (bound)
    NoThread,
    MaxCrashes      \* bound of the model

ASSUME ConstantsAssumption ==
    /\ NoMode \notin Modes
    /\ Junk \notin Zones
    /\ NoThread \notin Threads
    /\ MaxCrashes \in Nat
    /\ NoZones \notin Zonemaps
    /\ \A m \in Zonemaps : \A mode \in DOMAIN m :
          DOMAIN m[mode] \subseteq Zones /\ \A z \in DOMAIN m[mode] : m[mode][z] \in Nat

VARIABLES
    housemode, zones,       \* securitymap
    file,                   \* SECURITYMAPFILE
    flag,                   \* isSecurityThreadRunning
    securityThread,         \* the handle of the last thread created
    hpc, param, reply,      \* handler: place, the string a new thread was
                            \* given, the outcome of the last command
    place, zone, delay,     \* alarm threads: place, zone, seconds left
    cancelled,              \* threads with a pending cancellation
    announced,              \* the mode last told to the rest of the system
    survived,               \* history: a cancelled thread cleared the flag
    writeLost, sendLost,    \* history: a save or a message failed
    crashes

mapVars == <<housemode, zones, file>>
threadVars == <<place, zone, delay>>
histVars == <<survived, writeLost, sendLost, crashes>>
vars == <<mapVars, flag, securityThread, hpc, param, reply, threadVars, cancelled,
          announced, histVars>>

Places == {"none", "start", "countdown", "alert", "reset", "done", "dead"}
Replies == {"none", "started", "running", "inactive", "failed", "ok"}
Live(t) == place[t] \in {"start", "countdown", "alert", "reset"}
SecurityMap == [housemode : Modes \union {NoMode}, zones : Zonemaps \union {NoZones}]
Empty == [housemode |-> NoMode, zones |-> NoZones]

TypeOK ==
    /\ housemode \in Modes \union {NoMode}
    /\ zones \in Zonemaps \union {NoZones}
    /\ file \in SecurityMap
    /\ flag \in BOOLEAN
    /\ securityThread \in Threads \union {NoThread}
    /\ hpc \in {"idle", "created", "announce", "truncate", "write", "down"}
    /\ param \in Zones \union {Junk}
    /\ reply \in Replies
    /\ place \in [Threads -> Places]
    /\ zone \in [Threads -> Zones \union {Junk}]
    /\ delay \in [Threads -> Nat]
    /\ cancelled \subseteq Threads
    /\ announced \in Modes \union {NoMode}
    /\ survived \in BOOLEAN /\ writeLost \in BOOLEAN /\ sendLost \in BOOLEAN
    /\ crashes \in 0..MaxCrashes

\* A fresh process; main() has read the file and told its house mode.
Fresh ==
    /\ flag = FALSE
    /\ securityThread = NoThread
    /\ hpc = "idle"
    /\ param = Junk
    /\ reply = "none"
    /\ place = [t \in Threads |-> "none"]
    /\ zone = [t \in Threads |-> Junk]
    /\ delay = [t \in Threads |-> 0]
    /\ cancelled = {}

Init ==
    /\ Fresh
    /\ \E mode \in Modes, m \in Zonemaps :
          /\ housemode = mode
          /\ zones = m
          /\ file = [housemode |-> mode, zones |-> m]
          /\ announced = mode
    /\ survived = FALSE /\ writeLost = FALSE /\ sendLost = FALSE
    /\ crashes = 0

-----------------------------------------------------------------------------
(* Zone lookup.                                                            *)

\* zonemap[housemode] exists and lists the zone (agosecurity.cpp:170-174).
Active(z) ==
    /\ zones # NoZones
    /\ housemode \in DOMAIN zones
    /\ z \in DOMAIN zones[housemode]

\* 0 also for a zone that is not listed.
ZoneDelay(z) == IF Active(z) THEN zones[housemode][z] ELSE 0

-----------------------------------------------------------------------------
(* The command handler.                                                    *)

Answer(what) == reply' = what

TriggerInactive(z) ==
    /\ hpc = "idle"
    /\ ~ Active(z)
    /\ Answer("inactive")
    /\ UNCHANGED <<mapVars, flag, securityThread, hpc, param, threadVars, cancelled,
                   announced, histVars>>

TriggerRefused(z) ==
    /\ hpc = "idle"
    /\ Active(z)
    /\ flag
    /\ Answer("running")
    /\ UNCHANGED <<mapVars, flag, securityThread, hpc, param, threadVars, cancelled,
                   announced, histVars>>

\* Wrong: no look at the flag.
TriggerCreateAlways(z) ==
    /\ hpc = "idle"
    /\ Active(z)
    /\ \E t \in Threads :
          /\ place[t] = "none"
          /\ place' = [place EXCEPT ![t] = "start"]
          /\ securityThread' = t
    /\ hpc' = "created"
    /\ param' = z
    /\ Answer("none")
    /\ UNCHANGED <<mapVars, flag, zone, delay, cancelled, announced, histVars>>

\* Wrong: the handle of the first thread is kept.
TriggerCreateOldHandle(z) ==
    /\ hpc = "idle"
    /\ Active(z)
    /\ ~ flag
    /\ \E t \in Threads :
          /\ place[t] = "none"
          /\ place' = [place EXCEPT ![t] = "start"]
          /\ securityThread' = IF securityThread = NoThread THEN t ELSE securityThread
    /\ hpc' = "created"
    /\ param' = z
    /\ Answer("none")
    /\ UNCHANGED <<mapVars, flag, zone, delay, cancelled, announced, histVars>>

\* pthread_create; the thread may run before the handler goes on.
TriggerCreate(z) ==
    /\ hpc = "idle"
    /\ Active(z)
    /\ ~ flag
    /\ \E t \in Threads :
          /\ place[t] = "none"
          /\ place' = [place EXCEPT ![t] = "start"]
          /\ securityThread' = t
    /\ hpc' = "created"
    /\ param' = z
    /\ Answer("none")
    /\ UNCHANGED <<mapVars, flag, zone, delay, cancelled, announced, histVars>>

\* The flag is set after the thread was created; the string it was given a
\* pointer to is destroyed when the handler returns.
TriggerDone ==
    /\ hpc = "created"
    /\ flag' = TRUE
    /\ hpc' = "idle"
    /\ param' = Junk
    /\ Answer("started")
    /\ UNCHANGED <<mapVars, securityThread, threadVars, cancelled, announced, histVars>>

\* A wrong pin, a cancel without a thread, pthread_create out of resources.
Rejected ==
    /\ hpc = "idle"
    /\ Answer("failed")
    /\ UNCHANGED <<mapVars, flag, securityThread, hpc, param, threadVars, cancelled,
                   announced, histVars>>

\* pthread_cancel succeeded; for a thread that has ended but was never
\* joined the C library may answer either way.
Cancel ==
    /\ hpc = "idle"
    /\ flag
    /\ cancelled' = IF Live(securityThread) THEN cancelled \union {securityThread}
                    ELSE cancelled
    /\ flag' = FALSE
    /\ Answer("ok")
    /\ UNCHANGED <<mapVars, securityThread, hpc, param, threadVars, announced, histVars>>

CancelFailed ==
    /\ hpc = "idle"
    /\ flag
    /\ ~ Live(securityThread)
    /\ Answer("failed")
    /\ UNCHANGED <<mapVars, flag, securityThread, hpc, param, threadVars, cancelled,
                   announced, histVars>>

SetHouseMode(mode) ==
    /\ hpc = "idle"
    /\ housemode' = mode
    /\ hpc' = "announce"
    /\ Answer("none")
    /\ UNCHANGED <<zones, file, flag, securityThread, param, threadVars, cancelled,
                   announced, histVars>>

\* setGlobalVariable and the event; nobody looks at their results.
Announce ==
    /\ hpc = "announce"
    /\ hpc' = "truncate"
    /\ \/ announced' = housemode /\ UNCHANGED sendLost
       \/ announced' = announced /\ sendLost' = TRUE
    /\ UNCHANGED <<mapVars, flag, securityThread, param, reply, threadVars, cancelled,
                   survived, writeLost, crashes>>

SetZones(m) ==
    /\ hpc = "idle"
    /\ zones' = m
    /\ hpc' = "truncate"
    /\ Answer("none")
    /\ UNCHANGED <<housemode, file, flag, securityThread, param, threadVars, cancelled,
                   announced, histVars>>

\* variantMapToJSONFile: opening the file empties it, then it is written.
\* Streams do not throw, so a file that cannot be written is a success too.
Truncate ==
    /\ hpc = "truncate"
    /\ \/ /\ file' = Empty
          /\ hpc' = "write"
          /\ UNCHANGED <<reply, writeLost>>
       \/ /\ hpc' = "idle"
          /\ writeLost' = TRUE
          /\ Answer("ok")
          /\ UNCHANGED file
    /\ UNCHANGED <<housemode, zones, flag, securityThread, param, threadVars, cancelled,
                   announced, survived, sendLost, crashes>>

Write ==
    /\ hpc = "write"
    /\ file' = [housemode |-> housemode, zones |-> zones]
    /\ hpc' = "idle"
    /\ Answer("ok")
    /\ UNCHANGED <<housemode, zones, flag, securityThread, param, threadVars, cancelled,
                   announced, histVars>>

-----------------------------------------------------------------------------
(* An alarm thread.                                                        *)

\* It copies the string it was given, if that is still there, and looks the
\* delay up in the map as it is now.
Start(t) ==
    /\ place[t] = "start"
    /\ t \notin cancelled
    /\ \E z \in IF hpc = "created" /\ securityThread = t THEN {param}
                ELSE Zones \union {Junk} :
          /\ zone' = [zone EXCEPT ![t] = z]
          /\ delay' = [delay EXCEPT ![t] = ZoneDelay(z)]
    /\ place' = [place EXCEPT ![t] = "countdown"]
    /\ UNCHANGED <<mapVars, flag, securityThread, hpc, param, reply, cancelled, announced,
                   histVars>>

\* Wrong: the delay is read again every second.
CountDownReread(t) ==
    /\ place[t] = "countdown"
    /\ t \notin cancelled
    /\ delay[t] > 0
    /\ delay' = [delay EXCEPT ![t] = IF ZoneDelay(zone[t]) > 1 THEN ZoneDelay(zone[t]) - 1
                                     ELSE @ - 1]
    /\ UNCHANGED <<mapVars, flag, securityThread, hpc, param, reply, place, zone, cancelled,
                   announced, histVars>>

CountDown(t) ==
    /\ place[t] = "countdown"
    /\ t \notin cancelled
    /\ delay[t] > 0
    /\ delay' = [delay EXCEPT ![t] = @ - 1]
    /\ UNCHANGED <<mapVars, flag, securityThread, hpc, param, reply, place, zone, cancelled,
                   announced, histVars>>

CountedDown(t) ==
    /\ place[t] = "countdown"
    /\ t \notin cancelled
    /\ delay[t] = 0
    /\ place' = [place EXCEPT ![t] = "alert"]
    /\ UNCHANGED <<mapVars, flag, securityThread, hpc, param, reply, zone, delay, cancelled,
                   announced, histVars>>

\* event.security.intruderalert; the thread's zone is not used any more.
Alert(t) ==
    /\ place[t] = "alert"
    /\ place' = [place EXCEPT ![t] = "reset"]
    /\ zone' = [zone EXCEPT ![t] = Junk]
    /\ UNCHANGED <<mapVars, flag, securityThread, hpc, param, reply, delay, cancelled,
                   announced, histVars>>

Reset(t) ==
    /\ place[t] = "reset"
    /\ place' = [place EXCEPT ![t] = "done"]
    /\ flag' = FALSE
    /\ survived' = (survived \/ t \in cancelled)
    /\ UNCHANGED <<mapVars, securityThread, hpc, param, reply, zone, delay, cancelled,
                   announced, writeLost, sendLost, crashes>>

\* A pending cancellation takes effect.
Die(t) ==
    /\ place[t] \in {"start", "countdown", "alert"}
    /\ t \in cancelled
    /\ place' = [place EXCEPT ![t] = "dead"]
    /\ zone' = [zone EXCEPT ![t] = Junk]
    /\ delay' = [delay EXCEPT ![t] = 0]
    /\ UNCHANGED <<mapVars, flag, securityThread, hpc, param, reply, cancelled,
                   announced, histVars>>

-----------------------------------------------------------------------------
(* The process.                                                            *)

Crash ==
    /\ hpc # "down"
    /\ crashes < MaxCrashes
    /\ crashes' = crashes + 1
    /\ hpc' = "down"
    /\ flag' = FALSE
    /\ securityThread' = NoThread
    /\ param' = Junk
    /\ reply' = "none"
    /\ place' = [t \in Threads |-> "none"]
    /\ zone' = [t \in Threads |-> Junk]
    /\ delay' = [t \in Threads |-> 0]
    /\ cancelled' = {}
    /\ housemode' = NoMode
    /\ zones' = NoZones
    /\ UNCHANGED <<file, announced, survived, writeLost, sendLost>>

\* Wrong: the mode read from the file is not published.
RestartSilent ==
    /\ hpc = "down"
    /\ hpc' = "idle"
    /\ housemode' = file.housemode
    /\ zones' = file.zones
    /\ UNCHANGED <<file, flag, securityThread, param, reply, threadVars, cancelled,
                   announced, histVars>>

\* main(): read the file, publish its mode (an empty one cannot be set).
Restart ==
    /\ hpc = "down"
    /\ hpc' = "idle"
    /\ housemode' = file.housemode
    /\ zones' = file.zones
    /\ \/ announced' = (IF file.housemode = NoMode THEN announced ELSE file.housemode)
          /\ UNCHANGED sendLost
       \/ announced' = announced /\ sendLost' = TRUE
    /\ UNCHANGED <<file, flag, securityThread, param, reply, threadVars, cancelled,
                   survived, writeLost, crashes>>

-----------------------------------------------------------------------------
Handler ==
    \/ \E z \in Zones : TriggerInactive(z) \/ TriggerRefused(z) \/ TriggerCreate(z)
    \/ TriggerDone
    \/ Rejected \/ Cancel \/ CancelFailed
    \/ \E mode \in Modes : SetHouseMode(mode)
    \/ Announce
    \/ \E m \in Zonemaps : SetZones(m)
    \/ Truncate \/ Write

Alarm(t) == Start(t) \/ CountDown(t) \/ CountedDown(t) \/ Alert(t) \/ Reset(t) \/ Die(t)

Next == Handler \/ (\E t \in Threads : Alarm(t)) \/ Crash \/ Restart

Spec == Init /\ [][Next]_vars

\* A thread that was created runs; seconds pass.
FairSpec == Spec /\ \A t \in Threads : WF_vars(Alarm(t))

-----------------------------------------------------------------------------
(* Safety.                                                                 *)

\* Threads that will raise an alert unless they are cancelled.
Armed == {t \in Threads : Live(t) /\ t \notin cancelled}

\* The check before pthread_create and the late assignment after it
\* (agosecurity.cpp:177-182) never let two alarm threads count at a time,
\* and the flag is never down while one does, as long as no thread cleared
\* the flag after it was cancelled (agosecurity.cpp:124, 239-244).
AlarmControl ==
    ~ survived =>
        /\ Cardinality(Armed) <= 1
        /\ hpc # "created" /\ ~ flag => Armed = {}

\* The thread that cancel would stop is the one that counts.
HandleIsCurrent == ~ survived => Armed \subseteq {securityThread}

\* A command that has answered left map and file equal, also across crashes,
\* unless a file could not be written (agosecurity.cpp:143, 209, 280); and the
\* rest of the system knows the mode the controller is in, also when a crash
\* between the announcement and the save makes it fall back (136-143, 280-285).
AckedKept ==
    hpc = "idle" =>
        /\ ~ writeLost => file = [housemode |-> housemode, zones |-> zones]
        /\ ~ sendLost /\ housemode # NoMode => announced = housemode

\* An alarm that was started raises its alert, unless it is cancelled or the
\* process ends: a change of mode or zones does not stop it.
AlarmRaised ==
    \A t \in Threads :
        place[t] = "start" ~> (place[t] \in {"reset", "done"} \/ t \in cancelled \/ hpc = "down")

-----------------------------------------------------------------------------
(* What the comments say.                                                  *)

\* "check if there is already an alarmthread running" (agosecurity.cpp:176):
\* a thread is only started while none is running.
OneAlarmThread == Cardinality(Armed) <= 1
=============================================================================
