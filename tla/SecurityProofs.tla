--------------------------- MODULE SecurityProofs ---------------------------
(***************************************************************************)
(* Proofs about Security, for any zones, modes, maps and number of alarm   *)
(* threads.                                                                *)
(***************************************************************************)
EXTENDS Security, FiniteSetTheorems, TLAPS

\* Next, action by action.
LEMMA Cases ==
    ASSUME [Next]_vars
    PROVE  \/ \E z \in Zones : TriggerInactive(z) \/ TriggerRefused(z) \/ TriggerCreate(z)
           \/ \E mode \in Modes : SetHouseMode(mode)
           \/ \E m \in Zonemaps : SetZones(m)
           \/ \E t \in Threads : \/ Start(t) \/ CountDown(t) \/ CountedDown(t)
                                \/ Alert(t) \/ Reset(t) \/ Die(t)
           \/ TriggerDone \/ Rejected \/ Cancel \/ CancelFailed \/ Announce
           \/ Truncate \/ Write \/ Crash \/ Restart
           \/ UNCHANGED vars
BY DEF Next, Handler, Alarm

\* The delay of a zone is a number whatever the map holds.
LEMMA DelayNat == TypeOK => \A z : ZoneDelay(z) \in Nat
BY ConstantsAssumption DEF TypeOK, ZoneDelay, Active

\* The alarm thread that counts is the one whose handle is kept, and the flag
\* is up, or about to be set by the handler that created it.  Whenever the
\* flag is up there is a handle.
ControlInv ==
    /\ flag \/ hpc = "created" => securityThread \in Threads
    /\ ~ survived => \A t \in Armed : t = securityThread /\ (flag \/ hpc = "created")

LEMMA InitInv == Init => TypeOK /\ ControlInv
<1> SUFFICES ASSUME Init PROVE TypeOK /\ ControlInv
  OBVIOUS
<1>1. TypeOK
  <2>1. PICK mode \in Modes, m \in Zonemaps :
            /\ housemode = mode /\ zones = m /\ announced = mode
            /\ file = [housemode |-> mode, zones |-> m]
    BY DEF Init
  <2>2. file \in SecurityMap
    BY <2>1 DEF SecurityMap
  <2>3. survived \in BOOLEAN /\ writeLost \in BOOLEAN /\ sendLost \in BOOLEAN /\ flag \in BOOLEAN
    BY DEF Init, Fresh
  <2>4. /\ place \in [Threads -> Places] /\ zone \in [Threads -> Zones \union {Junk}]
        /\ delay \in [Threads -> Nat] /\ cancelled \subseteq Threads
    BY DEF Init, Fresh, Places
  <2>5. crashes \in 0..MaxCrashes
    BY ConstantsAssumption DEF Init
  <2> QED BY <2>1, <2>2, <2>3, <2>4, <2>5 DEF Init, Fresh, TypeOK, Replies
<1>2. ControlInv
  BY DEF Init, Fresh, ControlInv, Armed, Live
<1> QED BY <1>1, <1>2

LEMMA TypeStep == ASSUME TypeOK, ControlInv, [Next]_vars PROVE TypeOK'
<1> USE ConstantsAssumption DEF TypeOK, Places, Replies
<1>1. ASSUME NEW z \in Zones, TriggerInactive(z) PROVE TypeOK'
  BY <1>1 DEF TriggerInactive, Answer, mapVars, threadVars, histVars
<1>2. ASSUME NEW z \in Zones, TriggerRefused(z) PROVE TypeOK'
  BY <1>2 DEF TriggerRefused, Answer, mapVars, threadVars, histVars
<1>3. ASSUME NEW z \in Zones, TriggerCreate(z) PROVE TypeOK'
  BY <1>3 DEF TriggerCreate, Answer, mapVars, threadVars, histVars
<1>4. ASSUME NEW mode \in Modes, SetHouseMode(mode) PROVE TypeOK'
  BY <1>4 DEF SetHouseMode, Answer, mapVars, threadVars, histVars
<1>5. ASSUME NEW m \in Zonemaps, SetZones(m) PROVE TypeOK'
  BY <1>5 DEF SetZones, Answer, mapVars, threadVars, histVars
<1>6. ASSUME NEW t \in Threads, Start(t) PROVE TypeOK'
  BY <1>6, DelayNat DEF Start, Answer, mapVars, threadVars, histVars
<1>7. ASSUME NEW t \in Threads, CountDown(t) PROVE TypeOK'
  BY <1>7 DEF CountDown, Answer, mapVars, threadVars, histVars
<1>8. ASSUME NEW t \in Threads, CountedDown(t) PROVE TypeOK'
  BY <1>8 DEF CountedDown, Answer, mapVars, threadVars, histVars
<1>9. ASSUME NEW t \in Threads, Alert(t) PROVE TypeOK'
  BY <1>9 DEF Alert, Answer, mapVars, threadVars, histVars
<1>10. ASSUME NEW t \in Threads, Reset(t) PROVE TypeOK'
  <2>1. survived' \in BOOLEAN /\ flag' \in BOOLEAN
    BY <1>10 DEF Reset
  <2>2. place' \in [Threads -> Places]
    BY <1>10 DEF Reset
  <2> QED BY <2>1, <2>2, <1>10 DEF Reset, mapVars
<1>11. ASSUME NEW t \in Threads, Die(t) PROVE TypeOK'
  BY <1>11 DEF Die, Answer, mapVars, threadVars, histVars
<1>12. CASE TriggerDone
  BY <1>12 DEF TriggerDone, Answer, mapVars, threadVars, histVars
<1>13. CASE Rejected
  BY <1>13 DEF Rejected, Answer, mapVars, threadVars, histVars
<1>14. CASE Cancel
  <2>1. cancelled' \subseteq Threads
    <3>1. CASE Live(securityThread)
      <4>1. cancelled' = cancelled \union {securityThread}
        BY <1>14, <3>1 DEF Cancel
      <4>2. securityThread \in Threads
        BY <1>14 DEF Cancel, ControlInv
      <4> QED BY <4>1, <4>2
    <3>2. CASE ~ Live(securityThread)
      BY <1>14, <3>2 DEF Cancel
    <3> QED BY <3>1, <3>2
  <2>2. flag' \in BOOLEAN
    BY <1>14 DEF Cancel
  <2> QED BY <2>1, <2>2, <1>14 DEF Cancel, Answer, mapVars, threadVars, histVars
<1>15. CASE CancelFailed
  BY <1>15 DEF CancelFailed, Answer, mapVars, threadVars, histVars
<1>16. CASE Announce
  <2>1. announced' \in Modes \union {NoMode} /\ sendLost' \in BOOLEAN
    BY <1>16 DEF Announce
  <2> QED BY <2>1, <1>16 DEF Announce, mapVars, threadVars
<1>17. CASE Truncate
  <2>1. file' \in SecurityMap
    BY <1>17 DEF Truncate, Empty, SecurityMap
  <2>2. writeLost' \in BOOLEAN
    BY <1>17 DEF Truncate
  <2> QED BY <2>1, <2>2, <1>17 DEF Truncate, Answer, threadVars
<1>18. CASE Write
  BY <1>18 DEF Write, Answer, mapVars, threadVars, histVars, SecurityMap
<1>19. CASE Crash
  <2>1. crashes' \in 0..MaxCrashes
    BY <1>19 DEF Crash
  <2>2. /\ place' \in [Threads -> Places] /\ zone' \in [Threads -> Zones \union {Junk}]
        /\ delay' \in [Threads -> Nat] /\ cancelled' \subseteq Threads
    BY <1>19 DEF Crash
  <2>3. flag' \in BOOLEAN
    BY <1>19 DEF Crash
  <2> QED BY <2>1, <2>2, <2>3, <1>19 DEF Crash
<1>20. CASE Restart
  <2>1. file.housemode \in Modes \union {NoMode} /\ file.zones \in Zonemaps \union {NoZones}
    BY DEF SecurityMap
  <2>2. announced' \in Modes \union {NoMode} /\ sendLost' \in BOOLEAN
    BY <1>20, <2>1 DEF Restart
  <2> QED BY <2>1, <2>2, <1>20 DEF Restart, threadVars
<1>21. CASE UNCHANGED vars
  BY <1>21 DEF vars, mapVars, threadVars, histVars
<1> QED BY <1>1, <1>2, <1>3, <1>4, <1>5, <1>6, <1>7, <1>8, <1>9, <1>10, <1>11,
           <1>12, <1>13, <1>14, <1>15, <1>16, <1>17, <1>18, <1>19, <1>20, <1>21, Cases

LEMMA ControlStep == ASSUME TypeOK, ControlInv, [Next]_vars PROVE ControlInv'
<1> USE ConstantsAssumption DEF TypeOK, ControlInv, Armed, Live, Places
<1>1. ASSUME NEW z \in Zones, TriggerInactive(z) PROVE ControlInv'
  BY <1>1 DEF TriggerInactive, Answer, mapVars, threadVars, histVars
<1>2. ASSUME NEW z \in Zones, TriggerRefused(z) PROVE ControlInv'
  BY <1>2 DEF TriggerRefused, Answer, mapVars, threadVars, histVars
<1>3. ASSUME NEW z \in Zones, TriggerCreate(z) PROVE ControlInv'
  BY <1>3 DEF TriggerCreate, Answer, mapVars, threadVars, histVars
<1>4. ASSUME NEW mode \in Modes, SetHouseMode(mode) PROVE ControlInv'
  BY <1>4 DEF SetHouseMode, Answer, mapVars, threadVars, histVars
<1>5. ASSUME NEW m \in Zonemaps, SetZones(m) PROVE ControlInv'
  BY <1>5 DEF SetZones, Answer, mapVars, threadVars, histVars
<1>6. ASSUME NEW t \in Threads, Start(t) PROVE ControlInv'
  BY <1>6 DEF Start, Answer, mapVars, threadVars, histVars
<1>7. ASSUME NEW t \in Threads, CountDown(t) PROVE ControlInv'
  BY <1>7 DEF CountDown, Answer, mapVars, threadVars, histVars
<1>8. ASSUME NEW t \in Threads, CountedDown(t) PROVE ControlInv'
  BY <1>8 DEF CountedDown, Answer, mapVars, threadVars, histVars
<1>9. ASSUME NEW t \in Threads, Alert(t) PROVE ControlInv'
  BY <1>9 DEF Alert, Answer, mapVars, threadVars, histVars
<1>10. ASSUME NEW t \in Threads, Reset(t) PROVE ControlInv'
  BY <1>10 DEF Reset, Answer, mapVars, threadVars, histVars
<1>11. ASSUME NEW t \in Threads, Die(t) PROVE ControlInv'
  BY <1>11 DEF Die, Answer, mapVars, threadVars, histVars
<1>12. CASE TriggerDone
  BY <1>12 DEF TriggerDone, Answer, mapVars, threadVars, histVars
<1>13. CASE Rejected
  BY <1>13 DEF Rejected, Answer, mapVars, threadVars, histVars
<1>14. CASE Cancel
  BY <1>14 DEF Cancel, Answer, mapVars, threadVars, histVars
<1>15. CASE CancelFailed
  BY <1>15 DEF CancelFailed, Answer, mapVars, threadVars, histVars
<1>16. CASE Announce
  BY <1>16 DEF Announce, Answer, mapVars, threadVars, histVars
<1>17. CASE Truncate
  BY <1>17 DEF Truncate, Answer, mapVars, threadVars, histVars
<1>18. CASE Write
  BY <1>18 DEF Write, Answer, mapVars, threadVars, histVars
<1>19. CASE Crash
  BY <1>19 DEF Crash, Answer, mapVars, threadVars, histVars
<1>20. CASE Restart
  BY <1>20 DEF Restart, Answer, mapVars, threadVars, histVars
<1>21. CASE UNCHANGED vars
  BY <1>21 DEF vars, mapVars, threadVars, histVars
<1> QED BY <1>1, <1>2, <1>3, <1>4, <1>5, <1>6, <1>7, <1>8, <1>9, <1>10, <1>11,
           <1>12, <1>13, <1>14, <1>15, <1>16, <1>17, <1>18, <1>19, <1>20, <1>21, Cases

LEMMA Invariance == Spec => [](TypeOK /\ ControlInv)
<1>1. Init => TypeOK /\ ControlInv
  BY InitInv
<1>2. TypeOK /\ ControlInv /\ [Next]_vars => (TypeOK /\ ControlInv)'
  BY TypeStep, ControlStep
<1> QED BY <1>1, <1>2, PTL DEF Spec

\* Every variable keeps its type; the countdown never runs below zero.
THEOREM TypeCorrect == Spec => []TypeOK
BY Invariance, PTL

\* Cancel stops the alarm that counts, unless a cancelled thread cleared the
\* flag before.
THEOREM CancelHitsCurrent == Spec => []HandleIsCurrent
<1>1. ControlInv => HandleIsCurrent
  BY DEF ControlInv, HandleIsCurrent
<1> QED BY <1>1, Invariance, PTL

\* At most one alarm counts, and none behind a lowered flag, unless a cancelled
\* thread cleared the flag.
THEOREM AlarmsControlled == Spec => []AlarmControl
<1>1. ControlInv => AlarmControl
  <2> SUFFICES ASSUME ControlInv, ~ survived
               PROVE  /\ Cardinality(Armed) <= 1
                      /\ hpc # "created" /\ ~ flag => Armed = {}
    BY DEF AlarmControl
  <2>1. Armed = {} \/ Armed = {securityThread}
    BY DEF ControlInv
  <2>2. Cardinality(Armed) <= 1
    <3>1. CASE Armed = {}
      <4>1. Cardinality(Armed) = 0
        BY <3>1, FS_EmptySet
      <4> QED BY <4>1
    <3>2. CASE Armed = {securityThread}
      <4>1. Cardinality(Armed) = 1
        BY <3>2, FS_Singleton
      <4> QED BY <4>1
    <3> QED BY <2>1, <3>1, <3>2
  <2>3. hpc # "created" /\ ~ flag => Armed = {}
    BY DEF ControlInv
  <2> QED BY <2>2, <2>3
<1> QED BY <1>1, Invariance, PTL

-----------------------------------------------------------------------------
(* What a command leaves behind.                                           *)

\* Between commands, and until a save opens the file, file and map are equal;
\* but while a new mode is being told, the mode told last is the present one.
KeptInv ==
    /\ hpc \in {"idle", "created"} /\ ~ writeLost =>
          file = [housemode |-> housemode, zones |-> zones]
    /\ hpc \in {"idle", "created", "truncate", "write"} /\ ~ sendLost /\ housemode # NoMode =>
          announced = housemode

LEMMA KeptStep == ASSUME TypeOK, KeptInv, [Next]_vars PROVE KeptInv'
<1> USE DEF KeptInv
<1>1. ASSUME NEW z \in Zones, TriggerInactive(z) PROVE KeptInv'
  BY <1>1 DEF TriggerInactive, Answer, mapVars, threadVars, histVars
<1>2. ASSUME NEW z \in Zones, TriggerRefused(z) PROVE KeptInv'
  BY <1>2 DEF TriggerRefused, Answer, mapVars, threadVars, histVars
<1>3. ASSUME NEW z \in Zones, TriggerCreate(z) PROVE KeptInv'
  BY <1>3 DEF TriggerCreate, Answer, mapVars, threadVars, histVars
<1>4. ASSUME NEW mode \in Modes, SetHouseMode(mode) PROVE KeptInv'
  BY <1>4 DEF SetHouseMode, Answer, mapVars, threadVars, histVars
<1>5. ASSUME NEW m \in Zonemaps, SetZones(m) PROVE KeptInv'
  BY <1>5 DEF SetZones, Answer, mapVars, threadVars, histVars
<1>6. ASSUME NEW t \in Threads, Start(t) PROVE KeptInv'
  BY <1>6 DEF Start, Answer, mapVars, threadVars, histVars
<1>7. ASSUME NEW t \in Threads, CountDown(t) PROVE KeptInv'
  BY <1>7 DEF CountDown, Answer, mapVars, threadVars, histVars
<1>8. ASSUME NEW t \in Threads, CountedDown(t) PROVE KeptInv'
  BY <1>8 DEF CountedDown, Answer, mapVars, threadVars, histVars
<1>9. ASSUME NEW t \in Threads, Alert(t) PROVE KeptInv'
  BY <1>9 DEF Alert, Answer, mapVars, threadVars, histVars
<1>10. ASSUME NEW t \in Threads, Reset(t) PROVE KeptInv'
  BY <1>10 DEF Reset, Answer, mapVars, threadVars, histVars
<1>11. ASSUME NEW t \in Threads, Die(t) PROVE KeptInv'
  BY <1>11 DEF Die, Answer, mapVars, threadVars, histVars
<1>12. CASE TriggerDone
  BY <1>12 DEF TypeOK, TriggerDone, Answer, mapVars, threadVars, histVars
<1>13. CASE Rejected
  BY <1>13 DEF TypeOK, Rejected, Answer, mapVars, threadVars, histVars
<1>14. CASE Cancel
  BY <1>14 DEF TypeOK, Cancel, Answer, mapVars, threadVars, histVars
<1>15. CASE CancelFailed
  BY <1>15 DEF TypeOK, CancelFailed, Answer, mapVars, threadVars, histVars
<1>16. CASE Announce
  BY <1>16 DEF TypeOK, Announce, Answer, mapVars, threadVars, histVars
<1>17. CASE Truncate
  BY <1>17 DEF TypeOK, Truncate, Answer, mapVars, threadVars, histVars
<1>18. CASE Write
  BY <1>18 DEF TypeOK, Write, Answer, mapVars, threadVars, histVars
<1>19. CASE Crash
  BY <1>19 DEF TypeOK, Crash, Answer, mapVars, threadVars, histVars
<1>20. CASE Restart
  <2>1. file = [housemode |-> file.housemode, zones |-> file.zones]
    BY DEF TypeOK, SecurityMap
  <2>2. file' = [housemode |-> housemode', zones |-> zones']
    BY <1>20, <2>1 DEF Restart
  <2>3. ~ sendLost' /\ housemode' # NoMode => announced' = housemode'
    BY <1>20 DEF TypeOK, Restart
  <2> QED BY <2>2, <2>3
<1>21. CASE UNCHANGED vars
  BY <1>21 DEF vars, mapVars, threadVars, histVars
<1> QED BY <1>1, <1>2, <1>3, <1>4, <1>5, <1>6, <1>7, <1>8, <1>9, <1>10, <1>11,
           <1>12, <1>13, <1>14, <1>15, <1>16, <1>17, <1>18, <1>19, <1>20, <1>21, Cases

\* A mode or a set of zones that was answered is on disk, and the mode is the one
\* the rest of the system was told, whatever crashes came between; unless a
\* file could not be written or a message was lost.
THEOREM AckedStays == Spec => []AckedKept
<1>1. Init => KeptInv
  BY DEF Init, Fresh, KeptInv
<1>2. TypeOK /\ KeptInv /\ [Next]_vars => KeptInv'
  BY KeptStep
<1>3. KeptInv => AckedKept
  BY DEF KeptInv, AckedKept
<1> QED BY <1>1, <1>2, <1>3, Invariance, PTL DEF Spec
=============================================================================
