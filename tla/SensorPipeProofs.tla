---------------------------- MODULE SensorPipeProofs ----------------------------
(***************************************************************************)
(* Proofs about SensorPipe, for any number of connections and any sizes of *)
(* readings, reads, buffer and pipe.                                       *)
(***************************************************************************)
EXTENDS SensorPipe, SequenceTheorems, TLAPS

(* All state and texts have their types; neither a pipe nor a buffer         *)
(* overflows (fifo.c:63, 94-106, 171).                                       *)
TypeOK ==
    /\ starts \in Nat /\ up \in BOOLEAN
    /\ file \in Seq(Chars) /\ orphan \in Seq(Chars)
    /\ Len(file) <= PipeSize /\ Len(orphan) <= PipeSize
    /\ fd \in {"none", "file", "orphan"}
    /\ taken \in 0 .. MaxReadings /\ unsent \in BOOLEAN
    /\ rpc \in {"read", "lock", "copy", "end"}
    /\ rbuf \in Seq(Chars) /\ Len(rbuf) <= ReadSize
    /\ value \in Seq(Chars) /\ Len(value) <= ReadSize
    /\ mutex \in Handlers \union {"reader", Nobody}
    /\ pc \in [Handlers -> {"idle", "lock", "copy", "reply"}]
    /\ buf \in [Handlers -> Seq(Chars)]
    /\ full \in BOOLEAN

\* Who is between lock and unlock holds the mutex.  The converse fails: a
\* handler whose buffer was too small has gone on with it.
Holds ==
    /\ \A h \in Handlers : pc[h] = "copy" => mutex = h
    /\ rpc \in {"copy", "end"} => mutex = "reader"
    /\ unsent => taken > 0

Fitting == \A h \in Handlers : Len(buf[h]) < BufLen

Inv == TypeOK /\ Holds /\ Fitting

LEMMA Sizes ==
    /\ {L, Sep, ReadSize, BufLen, PipeSize, MaxReadings, MaxStarts} \subseteq Nat
    /\ L \in Nat /\ ReadSize \in Nat /\ BufLen \in Nat /\ PipeSize \in Nat /\ MaxReadings \in Nat
    /\ 0 < BufLen /\ 0 < L /\ L <= ReadSize /\ L <= PipeSize
BY SensorPipeAssumption

LEMMA MinOfTwo ==
    ASSUME NEW a \in Nat, NEW b \in Nat
    PROVE  Min({a, b}) \in {a, b} /\ Min({a, b}) <= a /\ Min({a, b}) <= b
<1>1. \E x \in {a, b} : \A y \in {a, b} : x <= y
  OBVIOUS
<1>2. Min({a, b}) \in {a, b} /\ \A y \in {a, b} : Min({a, b}) <= y
  BY <1>1, Zenon DEF Min
<1> QED BY <1>2

\* What is cut out of a text, and what two texts are together.
LEMMA Cut ==
    ASSUME NEW S, NEW s \in Seq(S), NEW m \in Nat \ {0}, NEW n \in 0 .. Len(s)
    PROVE  /\ SubSeq(s, m, n) \in Seq(S) 
           /\ Len(SubSeq(s, m, n)) = IF m <= n THEN n - m + 1 ELSE 0
OBVIOUS

LEMMA Joined ==
    ASSUME NEW S, NEW s \in Seq(S), NEW t \in Seq(S)
    PROVE  s \o t \in Seq(S) /\ Len(s \o t) = Len(s) + Len(t)
OBVIOUS

LEMMA Reading ==
    ASSUME NEW n \in 1 .. MaxReadings
    PROVE  Text(n) \in Seq(Chars) /\ Len(Text(n)) = L
<1>1. Text(n) \in [1 .. L -> Chars]
  BY DEF Text, Chars
<1> HIDE DEF Text
<1> QED BY <1>1, Sizes

LEMMA NoText ==
    /\ << >> \in Seq(Chars) /\ Len(<< >>) = 0
    /\ [h \in Handlers |-> << >>] \in [Handlers -> Seq(Chars)]
    /\ [h \in Handlers |-> "idle"] \in [Handlers -> {"idle", "lock", "copy", "reply"}]
    /\ \A h \in Handlers : [g \in Handlers |-> << >>][h] = << >> /\ [g \in Handlers |-> "idle"][h] = "idle"
<1>1. << >> \in Seq(Chars) /\ Len(<< >>) = 0
  OBVIOUS
<1> QED BY <1>1, Zenon

LEMMA NothingFits ==
    ASSUME NEW t, t = << >>
    PROVE  t \in Seq(Chars) /\ Len(t) <= PipeSize /\ Len(t) <= ReadSize
BY Sizes, NoText
-----------------------------------------------------------------------------
LEMMA InitInv == Init => Inv
<1> SUFFICES ASSUME Init PROVE Inv
  OBVIOUS
<1>3. up \in BOOLEAN /\ unsent \in BOOLEAN /\ full \in BOOLEAN
  BY Zenon DEF Init
<1>4. pc \in [Handlers -> {"idle", "lock", "copy", "reply"}] /\ buf \in [Handlers -> Seq(Chars)]
  BY NoText DEF Init
<1>1. TypeOK
  BY <1>3, <1>4, Sizes, NoText DEF Init, TypeOK
<1>2. Holds /\ Fitting
  BY Sizes, NoText DEF Init, Holds, Fitting
<1> QED BY <1>1, <1>2 DEF Inv

LEMMA ServerInv == ASSUME Inv, Server PROVE Inv'
<1>1. CASE StartServer
  <2>1. TypeOK'
    BY <1>1, Sizes, NoText DEF Inv, TypeOK, StartServer, readerVars, handlerVars
  <2> QED BY <1>1, <2>1 DEF Inv, StartServer, Holds, Fitting, readerVars, handlerVars
<1>2. CASE CrashServer
  <2>1. TypeOK'
    <3>1. up' \in BOOLEAN /\ full' \in BOOLEAN
      BY <1>2, Zenon DEF CrashServer
    <3>2. pc' \in [Handlers -> {"idle", "lock", "copy", "reply"}] /\ buf' \in [Handlers -> Seq(Chars)]
      BY <1>2, NoText DEF CrashServer
    <3>3. file' \in {file, << >>} /\ rbuf' = << >> /\ value' = << >> /\ rpc' = "read" /\ mutex' = Nobody
      BY <1>2 DEF CrashServer
    <3>4. UNCHANGED <<starts, orphan, fd, taken, unsent>>
      BY <1>2 DEF CrashServer, daemonVars
    <3>5. /\ file' \in Seq(Chars) /\ Len(file') <= PipeSize
          /\ rbuf' \in Seq(Chars) /\ Len(rbuf') <= ReadSize
          /\ value' \in Seq(Chars) /\ Len(value') <= ReadSize
      BY <3>3, NothingFits DEF Inv, TypeOK
    <3> QED BY <3>1, <3>2, <3>3, <3>4, <3>5 DEF Inv, TypeOK
  <2> QED BY <1>2, <2>1, Sizes, NoText DEF Inv, CrashServer, Holds, Fitting, daemonVars
<1> QED BY <1>1, <1>2 DEF Server

LEMMA DaemonInv == ASSUME Inv, Daemon PROVE Inv'
<1>1. CASE StartDaemon
  BY <1>1 DEF Inv, TypeOK, Holds, Fitting, StartDaemon, serverVars, readerVars, handlerVars
<1>2. CASE CrashDaemon
  <2>1. TypeOK'
    <3>1. unsent' \in BOOLEAN
      BY <1>2, Zenon DEF CrashDaemon
    <3>2. file' \in {file, << >>} /\ orphan' = << >> /\ fd' = "none"
      BY <1>2 DEF CrashDaemon
    <3>3. UNCHANGED <<serverVars, taken, readerVars, value, mutex, handlerVars>>
      BY <1>2 DEF CrashDaemon
    <3>4. /\ file' \in Seq(Chars) /\ Len(file') <= PipeSize
          /\ orphan' \in Seq(Chars) /\ Len(orphan') <= PipeSize
      BY <3>2, NothingFits DEF Inv, TypeOK
    <3> QED BY <3>1, <3>2, <3>3, <3>4 DEF Inv, TypeOK, serverVars, readerVars, handlerVars
  <2> QED BY <1>2, <2>1 DEF Inv, Holds, Fitting, CrashDaemon, serverVars, readerVars, handlerVars
<1>3. CASE Sense
  <2>1. TypeOK'
    BY <1>3, Sizes DEF Inv, TypeOK, Sense, serverVars, readerVars, handlerVars
  <2> QED BY <1>3, <2>1, Sizes DEF Inv, Holds, Fitting, TypeOK, Sense, serverVars, readerVars, handlerVars
<1>4. CASE Write
  <2>1. Text(taken) \in Seq(Chars) /\ Len(Text(taken)) = L
    BY <1>4, Reading, Sizes DEF Inv, TypeOK, Holds, Write
  <2> DEFINE t == Text(taken)
  <2> HIDE DEF t
  <2>2. file \o t \in Seq(Chars) /\ Len(file \o t) = Len(file) + L
    BY <2>1, Joined DEF Inv, TypeOK, t
  <2>3. orphan \o t \in Seq(Chars) /\ Len(orphan \o t) = Len(orphan) + L
    BY <2>1, Joined DEF Inv, TypeOK, t
  <2>4. \/ file' = file \o t /\ Len(file) + L <= PipeSize /\ orphan' = orphan
        \/ orphan' = orphan \o t /\ Len(orphan) + L <= PipeSize /\ file' = file
    BY <1>4 DEF Write, Fits, t
  <2>5. /\ file' \in Seq(Chars) /\ Len(file') <= PipeSize
        /\ orphan' \in Seq(Chars) /\ Len(orphan') <= PipeSize
    BY <2>2, <2>3, <2>4 DEF Inv, TypeOK
  <2>6. TypeOK'
    BY <1>4, <2>5 DEF Inv, TypeOK, Write, serverVars, readerVars, handlerVars
  <2> QED BY <1>4, <2>6 DEF Inv, Holds, Fitting, Write, serverVars, readerVars, handlerVars
<1> QED BY <1>1, <1>2, <1>3, <1>4 DEF Daemon

LEMMA ReaderInv == ASSUME Inv, Reader PROVE Inv'
<1>1. CASE ReadPipe
  <2> DEFINE n == Min({ReadSize, Len(file)})
  <2>1. Len(file) \in Nat /\ file \in Seq(Chars)
    BY DEF Inv, TypeOK
  <2>2. n \in 0 .. Len(file) /\ n <= ReadSize
    BY <2>1, Sizes, MinOfTwo
  <2>3. /\ rbuf' = SubSeq(file, 1, n) /\ file' = SubSeq(file, n + 1, Len(file))
        /\ rpc' = "lock"
        /\ UNCHANGED <<serverVars, orphan, daemonVars, value, mutex, handlerVars>>
    BY <1>1 DEF ReadPipe
  <2>7. full' \in BOOLEAN
    BY <1>1 DEF ReadPipe, Inv, TypeOK
  <2> HIDE DEF n
  <2>4. rbuf' \in Seq(Chars) /\ Len(rbuf') <= ReadSize
    <3>1. SubSeq(file, 1, n) \in Seq(Chars) /\ Len(SubSeq(file, 1, n)) = IF 1 <= n THEN n ELSE 0
      BY <2>1, <2>2, Cut
    <3> QED BY <2>1, <2>2, <2>3, <3>1, Sizes
  <2>5. file' \in Seq(Chars) /\ Len(file') <= Len(file)
    <3>1. n + 1 \in Nat \ {0} /\ Len(file) \in 0 .. Len(file)
      BY <2>1, <2>2
    <3> QED BY <2>1, <2>2, <2>3, <3>1, Cut
  <2>6. TypeOK'
    <3>1. Len(file') <= PipeSize
      BY <2>1, <2>5, Sizes DEF Inv, TypeOK
    <3> QED BY <2>3, <2>4, <2>5, <2>7, <3>1 DEF Inv, TypeOK, serverVars, daemonVars, handlerVars
  <2> QED BY <2>3, <2>6, <1>1 DEF Inv, Holds, Fitting, ReadPipe, serverVars, daemonVars, handlerVars
<1>2. CASE PutLock
  <2>1. TypeOK'
    BY <1>2 DEF Inv, TypeOK, PutLock, serverVars, daemonVars, handlerVars
  <2> QED BY <1>2, <2>1, SensorPipeAssumption DEF Inv, TypeOK, Holds, Fitting, PutLock, serverVars, daemonVars, handlerVars
<1>3. CASE PutCopy
  <2>1. PICK i \in 1 .. Len(rbuf) : value' = SubSeq(rbuf, 1, i) \o SubSeq(value, i + 1, Len(value))
    BY <1>3 DEF PutCopy
  <2>2. /\ rbuf \in Seq(Chars) /\ Len(rbuf) \in Nat /\ Len(rbuf) <= ReadSize
        /\ value \in Seq(Chars) /\ Len(value) \in Nat /\ Len(value) <= ReadSize
    BY DEF Inv, TypeOK
  <2>3. SubSeq(rbuf, 1, i) \in Seq(Chars) /\ Len(SubSeq(rbuf, 1, i)) = i
    BY <2>2, Cut
  <2>4. /\ SubSeq(value, i + 1, Len(value)) \in Seq(Chars)
        /\ Len(SubSeq(value, i + 1, Len(value))) = IF i + 1 <= Len(value) THEN Len(value) - i ELSE 0
    <3>1. i + 1 \in Nat \ {0} /\ Len(value) \in 0 .. Len(value)
      BY <2>2
    <3> QED BY <2>2, <3>1, Cut
  <2>5. value' \in Seq(Chars) /\ Len(value') = i + (IF i + 1 <= Len(value) THEN Len(value) - i ELSE 0)
    BY <2>1, <2>3, <2>4, Joined
  <2>6. Len(value') <= ReadSize
    BY <2>2, <2>5, Sizes
  <2>7. TypeOK'
    BY <1>3, <2>5, <2>6 DEF Inv, TypeOK, PutCopy, serverVars, daemonVars, handlerVars
  <2> QED BY <1>3, <2>7 DEF Inv, Holds, Fitting, PutCopy, serverVars, daemonVars, handlerVars
<1>4. CASE PutEnd
  <2>1. TypeOK'
    BY <1>4, Sizes, NoText DEF Inv, TypeOK, PutEnd, serverVars, daemonVars, handlerVars
  <2>2. \A h \in Handlers : pc[h] # "copy"
    BY <1>4, SensorPipeAssumption DEF Inv, Holds, PutEnd
  <2> QED BY <1>4, <2>1, <2>2 DEF Inv, Holds, Fitting, PutEnd, serverVars, daemonVars, handlerVars
<1> QED BY <1>1, <1>2, <1>3, <1>4 DEF Reader

LEMMA HandlerInv == ASSUME Inv, NEW h \in Handlers, Handler(h) PROVE Inv'
<1>1. CASE Request(h)
  <2>1. TypeOK'
    BY <1>1 DEF Inv, TypeOK, Request, serverVars, daemonVars, readerVars
  <2> QED BY <1>1, <2>1 DEF Inv, TypeOK, Holds, Fitting, Request, serverVars, daemonVars, readerVars
<1>2. CASE GetLock(h)
  <2>1. TypeOK'
    BY <1>2 DEF Inv, TypeOK, GetLock, serverVars, daemonVars, readerVars
  <2> QED BY <1>2, <2>1, SensorPipeAssumption DEF Inv, TypeOK, Holds, Fitting, GetLock, serverVars, daemonVars, readerVars
<1>3. CASE GetCopy(h)
  <2>1. value \in Seq(Chars) /\ Len(value) \in Nat
    BY DEF Inv, TypeOK
  <2>2. mutex = h /\ \A g \in Handlers : pc[g] = "copy" => g = h
    BY <1>3 DEF GetCopy, Inv, Holds
  <2>3. rpc \notin {"copy", "end"}
    BY <2>2, SensorPipeAssumption DEF Inv, Holds
  <2>4. /\ pc' = [pc EXCEPT ![h] = "reply"]
        /\ \E t \in Seq(Chars) : Len(t) < BufLen /\ buf' = [buf EXCEPT ![h] = t]
        /\ mutex' \in {mutex, Nobody}
        /\ UNCHANGED <<serverVars, file, orphan, daemonVars, readerVars, value>>
    <3>1. CASE BufLen < Len(value) + 1
      BY <1>3, <3>1, Sizes, NoText DEF GetCopy
    <3>2. CASE ~(BufLen < Len(value) + 1)
      <4>1. Len(value) < BufLen
        BY <3>2, <2>1, Sizes
      <4> QED BY <1>3, <3>2, <2>1, <4>1 DEF GetCopy
    <3> QED BY <3>1, <3>2
  <2>5. TypeOK'
    BY <2>4 DEF Inv, TypeOK, serverVars, daemonVars, readerVars
  <2>6. Holds'
    BY <2>2, <2>3, <2>4 DEF Inv, TypeOK, Holds, serverVars, daemonVars, readerVars
  <2>7. Fitting'
    BY <2>4 DEF Inv, TypeOK, Fitting
  <2> QED BY <2>5, <2>6, <2>7 DEF Inv
<1>4. CASE Reply(h)
  <2>1. TypeOK'
    BY <1>4, NoText DEF Inv, TypeOK, Reply, serverVars, daemonVars, readerVars
  <2> QED BY <1>4, <2>1, NoText, Sizes DEF Inv, TypeOK, Holds, Fitting, Reply, serverVars, daemonVars, readerVars
<1> QED BY <1>1, <1>2, <1>3, <1>4 DEF Handler

LEMMA NextInv == ASSUME Inv, [Next]_vars PROVE Inv'
<1>1. CASE UNCHANGED vars
  BY <1>1 DEF Inv, TypeOK, Holds, Fitting, vars
<1> QED BY <1>1, ServerInv, DaemonInv, ReaderInv, HandlerInv DEF Next

LEMMA Always == Spec => []Inv
BY InitInv, NextInv, PTL DEF Spec

(* The types hold, whatever starts, ends and is sent.                        *)
THEOREM TypeCorrect == Spec => []TypeOK
<1>1. Inv => TypeOK
  BY DEF Inv
<1> QED BY <1>1, Always, PTL

(* While a handler copies the text (fifo.c:62-69) nobody else touches it:    *)
(* putValue is not between its lock and its unlock, no other handler copies; *)
(* and the copy fits the handler's buffer with its end mark.                 *)
CopySafe ==
    \A h \in Handlers :
        /\ pc[h] = "copy" =>
            /\ rpc \notin {"copy", "end"}
            /\ \A g \in Handlers : pc[g] = "copy" => g = h
        /\ Len(buf[h]) < BufLen

(* A handler that copies the text is alone with it, and the copy fits its    *)
(* buffer, although some handlers leave with the mutex (fifo.c:56-81).       *)
THEOREM CopiesSafe == Spec => []CopySafe
<1>1. Inv => CopySafe
  BY SensorPipeAssumption DEF Inv, Holds, Fitting, CopySafe
<1> QED BY <1>1, Always, PTL

-----------------------------------------------------------------------------
(* One answer, one reading.                                                  *)

\* The reading that the character at position k belongs to stands whole in t.
StandsWhole(t, k) ==
    /\ k - t[k][2] \in 0 .. Len(t) - L
    /\ \A i \in 1 .. L : t[k - t[k][2] + i] = <<t[k][1], i>>

Whole(t) == \A k \in 1 .. Len(t) : StandsWhole(t, k)

\* Since no read was full, no reading was cut: every text between pipe and
\* answer is made of whole readings.  Not so the shared text while it is
\* overwritten, nor the pipe of a server that is down.
WholeInv ==
    ~full =>
        /\ up => Whole(file)
        /\ Whole(rbuf)
        /\ rpc # "end" => Whole(value)
        /\ \A h \in Handlers : Whole(buf[h])

LEMMA EmptyWhole == ASSUME NEW t, t = << >> PROVE Whole(t)
BY NoText DEF Whole

LEMMA ReadingWhole == ASSUME NEW n \in 1 .. MaxReadings PROVE Whole(Text(n))
<1> SUFFICES ASSUME NEW k \in 1 .. L PROVE StandsWhole(Text(n), k)
  BY Reading DEF Whole
<1>1. \A i \in 1 .. L : Text(n)[i] = <<n, i>>
  BY DEF Text
<1>2. Text(n)[k][1] = n /\ Text(n)[k][2] = k
  BY <1>1
<1>3. Len(Text(n)) = L /\ L \in Nat
  BY Reading, Sizes
<1> HIDE DEF Text
<1>4. k - Text(n)[k][2] = 0
  BY <1>2, <1>3
<1> QED BY <1>1, <1>2, <1>3, <1>4 DEF StandsWhole

LEMMA CharAt ==
    ASSUME NEW t \in Seq(Chars), NEW k \in 1 .. Len(t)
    PROVE  t[k][1] \in 1 .. MaxReadings /\ t[k][2] \in 1 .. L /\ t[k] = <<t[k][1], t[k][2]>>
<1>1. t[k] \in Chars
  BY ElementOfSeq
<1> QED BY <1>1 DEF Chars

\* A pipe that holds whole readings holds whole readings after a write.
LEMMA JoinWhole ==
    ASSUME NEW s \in Seq(Chars), NEW t \in Seq(Chars), Whole(s), Whole(t)
    PROVE  Whole(s \o t)
<1> DEFINE b == s \o t
<1>1. /\ Len(s) \in Nat /\ Len(t) \in Nat /\ L \in Nat /\ 0 < L
      /\ Len(b) = Len(s) + Len(t)
      /\ \A i \in 1 .. Len(s) + Len(t) : b[i] = IF i <= Len(s) THEN s[i] ELSE t[i - Len(s)]
  BY ConcatProperties, LenProperties, Sizes
<1> HIDE DEF b
<1> SUFFICES ASSUME NEW k \in 1 .. Len(b) PROVE StandsWhole(b, k)
  BY DEF Whole, b
<1>2. CASE k <= Len(s)
  <2>1. b[k] = s[k] /\ k \in 1 .. Len(s)
    BY <1>1, <1>2
  <2>2. s[k][2] \in Nat
    BY <2>1, <1>1, CharAt
  <2>3. StandsWhole(s, k)
    BY <2>1 DEF Whole
  <2>4. k - s[k][2] \in 0 .. Len(s) - L
    BY <2>3 DEF StandsWhole
  <2> DEFINE p == k - s[k][2]
  <2>5. \A i \in 1 .. L : b[p + i] = s[p + i]
    <3>1. p \in 0 .. Len(s) - L
      BY <2>4
    <3> HIDE DEF p
    <3>2. \A i \in 1 .. L : p + i \in 1 .. Len(s) + Len(t) /\ p + i <= Len(s)
      BY <1>1, <3>1
    <3> QED BY <1>1, <3>2
  <2>6. \A i \in 1 .. L : b[k - b[k][2] + i] = <<b[k][1], i>>
    BY <2>1, <2>3, <2>5 DEF StandsWhole
  <2>7. k - b[k][2] \in 0 .. Len(b) - L
    BY <1>1, <2>1, <2>2, <2>4
  <2> QED BY <2>6, <2>7 DEF StandsWhole
<1>3. CASE ~(k <= Len(s))
  <2> DEFINE j == k - Len(s)
  <2>1. b[k] = t[j] /\ j \in 1 .. Len(t)
    BY <1>1, <1>3
  <2>2. t[j][2] \in Nat
    BY <2>1, <1>1, CharAt
  <2>3. StandsWhole(t, j)
    BY <2>1 DEF Whole
  <2>4. j - t[j][2] \in 0 .. Len(t) - L
    BY <2>3 DEF StandsWhole
  <2>5. PICK p : p = j - t[j][2]
    OBVIOUS
  <2>6. p \in 0 .. Len(t) - L /\ p \in Nat
    BY <1>1, <2>4, <2>5
  <2>7. \A i \in 1 .. L : b[Len(s) + p + i] = t[p + i]
    <3> HIDE DEF j
    <3> SUFFICES ASSUME NEW i \in 1 .. L PROVE b[Len(s) + p + i] = t[p + i]
      OBVIOUS
    <3> DEFINE q == Len(s) + p + i
    <3>1. q \in 1 .. Len(s) + Len(t) /\ ~(q <= Len(s)) /\ q - Len(s) = p + i
      BY <1>1, <2>6
    <3> HIDE DEF q
    <3>2. b[q] = t[q - Len(s)]
      BY <1>1, <3>1
    <3>3. b[q] = t[p + i]
      BY <3>1, <3>2
    <3> QED BY <3>3 DEF q
  <2>8. k - b[k][2] = Len(s) + p
    <3>1. k = Len(s) + j /\ j \in Nat
      BY <1>1, <2>1
    <3> HIDE DEF j
    <3> QED BY <1>1, <2>1, <2>2, <2>5, <3>1
  <2>9. \A i \in 1 .. L : b[k - b[k][2] + i] = <<b[k][1], i>>
    BY <2>1, <2>3, <2>5, <2>7, <2>8 DEF StandsWhole
  <2>10. Len(s) + p \in 0 .. Len(b) - L
    BY <1>1, <2>6
  <2> QED BY <2>8, <2>9, <2>10 DEF StandsWhole
<1> QED BY <1>2, <1>3

LEMMA WholeStep == ASSUME Inv, WholeInv, [Next]_vars PROVE WholeInv'
<1> USE DEF WholeInv, serverVars, daemonVars, readerVars, handlerVars
<1>1. CASE StartServer
  BY <1>1, EmptyWhole DEF StartServer
<1>2. CASE CrashServer
  <2>1. /\ up' = FALSE /\ rbuf' = << >> /\ value' = << >>
        /\ \A h \in Handlers : buf'[h] = << >>
    BY <1>2 DEF CrashServer
  <2> QED BY <2>1, EmptyWhole
<1>3. CASE StartDaemon \/ Sense
  BY <1>3 DEF StartDaemon, Sense
<1>4. CASE CrashDaemon
  BY <1>4 DEF CrashDaemon
<1>5. CASE Write
  <2>1. taken \in 1 .. MaxReadings
    BY <1>5 DEF Write, Inv, TypeOK, Holds
  <2>2. Text(taken) \in Seq(Chars) /\ Whole(Text(taken)) /\ file \in Seq(Chars)
    BY <2>1, Reading, ReadingWhole DEF Inv, TypeOK
  <2>3. Whole(file) => Whole(file \o Text(taken))
    BY <2>2, JoinWhole
  <2>4. file' = file \/ file' = file \o Text(taken)
    BY <1>5 DEF Write
  <2> QED BY <1>5, <2>3, <2>4 DEF Write
<1>6. CASE ReadPipe
  <2> DEFINE n == Min({ReadSize, Len(file)})
  <2>1. /\ rbuf' = SubSeq(file, 1, n) /\ file' = SubSeq(file, n + 1, Len(file))
        /\ full' = (full \/ n = ReadSize)
        /\ up /\ rpc' = "lock"
        /\ UNCHANGED <<value, buf>>
    BY <1>6 DEF ReadPipe
  <2>2. Len(file) \in Nat /\ file \in Seq(Chars)
    BY DEF Inv, TypeOK
  <2>3. n \in {ReadSize, Len(file)}
    BY <2>2, MinOfTwo, Sizes
  <2> HIDE DEF n
  <2> SUFFICES ASSUME ~full' PROVE WholeInv'
    OBVIOUS
  <2>4. ~full /\ n = Len(file)
    BY <2>1, <2>3
  <2>5. rbuf' = file /\ file' = << >>
    BY <2>1, <2>2, <2>4, SubSeqFull, SubSeqEmpty
  <2>6. rpc # "end"
    BY <1>6 DEF ReadPipe
  <2> QED BY <2>1, <2>4, <2>5, <2>6, EmptyWhole
<1>7. CASE PutLock
  BY <1>7 DEF PutLock
<1>8. CASE PutCopy
  BY <1>8 DEF PutCopy
<1>9. CASE PutEnd
  BY <1>9, EmptyWhole DEF PutEnd
<1>10. ASSUME NEW h \in Handlers, Request(h) \/ GetLock(h) PROVE WholeInv'
  BY <1>10 DEF Request, GetLock
<1>11. ASSUME NEW h \in Handlers, GetCopy(h) PROVE WholeInv'
  <2>1. rpc # "end"
    BY <1>11, SensorPipeAssumption DEF GetCopy, Inv, Holds
  <2>2. buf' = [buf EXCEPT ![h] = << >>] \/ buf' = [buf EXCEPT ![h] = value]
    BY <1>11 DEF GetCopy
  <2>3. UNCHANGED <<up, file, rbuf, rpc, value, full>>
    BY <1>11 DEF GetCopy
  <2> QED BY <2>1, <2>2, <2>3, EmptyWhole DEF Inv, TypeOK
<1>12. ASSUME NEW h \in Handlers, Reply(h) PROVE WholeInv'
  BY <1>12, EmptyWhole DEF Reply, Inv, TypeOK
<1>13. CASE UNCHANGED vars
  BY <1>13 DEF vars
<1> QED
  BY <1>1, <1>2, <1>3, <1>4, <1>5, <1>6, <1>7, <1>8, <1>9, <1>10, <1>11, <1>12, <1>13
  DEF Next, Server, Daemon, Reader, Handler

\* The least of a set of numbers is the member that none is below.
LEMMA LeastIs ==
    ASSUME NEW S \in SUBSET Nat, NEW m \in S, \A x \in S : m <= x
    PROVE  Min(S) = m
<1>1. \E x \in S : \A y \in S : x <= y
  OBVIOUS
<1>2. Min(S) \in S /\ \A y \in S : Min(S) <= y
  BY <1>1, Zenon DEF Min
<1>3. Min(S) <= m /\ m <= Min(S) /\ Min(S) \in Nat /\ m \in Nat
  BY <1>2
<1> QED BY <1>3

\* What atof finds in a text of whole readings: both numbers of the first.
LEMMA FirstReading ==
    ASSUME NEW t \in Seq(Chars), Whole(t), t # << >>
    PROVE  t[1][1] \in 1 .. MaxReadings /\ Temperature(t) = t[1][1] /\ Humidity(t) = t[1][1]
<1> DEFINE n == t[1][1]
<1>1. Len(t) \in Nat /\ 0 < Len(t) /\ DOMAIN t = 1 .. Len(t)
  BY EmptySeq, LenProperties
<1>2. L \in Nat /\ Sep \in Nat /\ 1 < Sep /\ Sep < L
  BY SensorPipeAssumption
<1>3. \A k \in 1 .. Len(t) : t[k][2] \in 1 .. L /\ StandsWhole(t, k)
  BY CharAt DEF Whole
<1>3a. \A k \in 1 .. Len(t) : t[k][2] <= k /\ k - t[k][2] <= Len(t) - L
  <2> SUFFICES ASSUME NEW k \in 1 .. Len(t)
               PROVE  t[k][2] <= k /\ k - t[k][2] <= Len(t) - L
    OBVIOUS
  <2> DEFINE c == t[k][2]
  <2>1. c \in 1 .. L /\ k - c \in 0 .. Len(t) - L
    BY <1>3 DEF StandsWhole
  <2> HIDE DEF c
  <2>2. c <= k /\ k - c <= Len(t) - L
    BY <2>1, <1>1, <1>2
  <2> QED BY <2>2 DEF c
<1>4. t[1][2] = 1 /\ L <= Len(t)
  <2>1. 1 \in 1 .. Len(t)
    BY <1>1
  <2>2. t[1][2] \in 1 .. L /\ t[1][2] <= 1 /\ 1 - t[1][2] <= Len(t) - L
    BY <2>1, <1>3, <1>3a
  <2> QED BY <1>1, <1>2, <2>2
<1>5. \A i \in 1 .. L : t[i] = <<n, i>>
  <2>1. StandsWhole(t, 1)
    BY <1>1, <1>3
  <2>2. \A i \in 1 .. L : t[1 - t[1][2] + i] = <<n, i>>
    BY <2>1 DEF StandsWhole
  <2>3. \A i \in 1 .. L : 1 - t[1][2] + i = i
    BY <1>2, <1>4
  <2> QED BY <2>2, <2>3
<1>6. n \in 1 .. MaxReadings
  BY <1>1, CharAt
<1> HIDE DEF n
<1>7. Blanks(t) \subseteq 1 .. Len(t) /\ Sep \in Blanks(t) /\ 1 \notin Blanks(t)
  BY <1>1, <1>2, <1>4, <1>5 DEF Blanks
<1>8. \A k \in Blanks(t) : Sep <= k
  BY <1>1, <1>2, <1>3a DEF Blanks
<1>9. Len(t) \notin Blanks(t)
  BY <1>1, <1>2, <1>3, <1>3a DEF Blanks
<1>10. Blanks(t) \ {1} # {} /\ Pos(t) = Sep
  <2>1. Min(Blanks(t) \ {1}) = Sep
    BY <1>2, <1>7, <1>8, LeastIs
  <2> QED BY <1>2, <1>7, <2>1 DEF Pos
<1>11. NumberAt(t, 1, 1) = n
  <2>1. 1 + (Sep - 1) - 1 <= Len(t)
    BY <1>1, <1>2, <1>4
  <2>2. \A i \in 1 .. Sep - 1 : t[1 + i - 1] = <<n, i>>
    BY <1>2, <1>5
  <2> QED BY <2>1, <2>2 DEF NumberAt, n
<1>12. NumberAt(t, Sep + 1, Sep + 1) = n
  <2>1. Sep + 1 # 1 /\ Sep + 1 + L - (Sep + 1) <= Len(t)
    BY <1>1, <1>2, <1>4
  <2>2. t[Sep + 1][1] = n
    BY <1>2, <1>5
  <2>3. \A i \in Sep + 1 .. L : t[Sep + 1 + i - (Sep + 1)] = <<n, i>>
    BY <1>2, <1>5
  <2> QED BY <2>1, <2>2, <2>3 DEF NumberAt
<1>13. Temperature(t) = n
  BY <1>7, <1>10, <1>11 DEF Temperature
<1>14. Humidity(t) = n
  BY <1>9, <1>10, <1>12 DEF Humidity
<1> QED BY <1>6, <1>13, <1>14 DEF n

\* The numbers of an answer are those of one reading, the first in a text that
\* may hold several, unless a read was full (fifo.c:94-106).
THEOREM AnswersWhole == Spec => []OneReading
<1>1. Init => WholeInv
  <2> SUFFICES ASSUME Init PROVE WholeInv
    OBVIOUS
  <2>1. file = << >> /\ rbuf = << >> /\ value = << >> /\ \A h \in Handlers : buf[h] = << >>
    BY DEF Init
  <2> QED BY <2>1, EmptyWhole DEF WholeInv
<1>2. Inv /\ WholeInv /\ [Next]_vars => WholeInv'
  BY WholeStep
<1>3. Inv /\ WholeInv => OneReading
  <2> SUFFICES ASSUME Inv, WholeInv, ~full, NEW h \in Handlers, pc[h] = "reply"
               PROVE  /\ Temperature(buf[h]) = Humidity(buf[h])
                      /\ Temperature(buf[h]) # Garbled
                      /\ buf[h] # << >> => Temperature(buf[h]) # 0
    BY DEF OneReading
  <2>1. CASE buf[h] = << >>
    <3>1. Blanks(buf[h]) = {}
      BY <2>1 DEF Blanks
    <3>2. Temperature(buf[h]) = 0 /\ Humidity(buf[h]) = 0
      BY <2>1, <3>1 DEF Temperature, Humidity
    <3> QED BY <2>1, <3>2 DEF Garbled
  <2>2. CASE buf[h] # << >>
    <3> DEFINE t == buf[h]
    <3>1. t \in Seq(Chars) /\ Whole(t)
      BY DEF Inv, TypeOK, WholeInv
    <3> HIDE DEF t
    <3>2. t # << >>
      BY <2>2 DEF t
    <3>3. t[1][1] \in 1 .. MaxReadings /\ Temperature(t) = t[1][1] /\ Humidity(t) = t[1][1]
      BY <3>1, <3>2, FirstReading
    <3>4. t[1][1] # Garbled /\ t[1][1] # 0
      BY <3>3, Sizes DEF Garbled
    <3>5. Temperature(t) = Humidity(t) /\ Temperature(t) # Garbled /\ Temperature(t) # 0
      BY <3>3, <3>4
    <3> QED BY <3>5 DEF t
  <2> QED BY <2>1, <2>2
<1> QED BY <1>1, <1>2, <1>3, Always, PTL DEF Spec
-----------------------------------------------------------------------------
(* The shared text, as the handlers see it.                                  *)

Before(s, t) == \A i \in 1 .. Len(s), j \in 1 .. Len(t) : s[i][1] <= t[j][1]
Ascending(s) == \A i, j \in 1 .. Len(s) : i <= j => s[i][1] <= s[j][1]
UpTo(s, n) == \A i \in 1 .. Len(s) : s[i][1] <= n

\* Readings pass the pipe, the reader's buffer and the shared text in the order
\* in which they were taken.
AgeInv ==
    /\ Ascending(file) /\ UpTo(file, taken)
    /\ UpTo(rbuf, taken) /\ Before(rbuf, file)
    /\ UpTo(Shown, taken) /\ Before(Shown, file)
    /\ rpc \in {"lock", "copy"} => rbuf # << >> /\ Before(Shown, rbuf)

LEMMA NoTextAge ==
    ASSUME NEW s, s = << >>
    PROVE  Ascending(s) /\ (\A n : UpTo(s, n)) /\ \A t : Before(s, t) /\ Before(t, s)
<1>1. Len(s) = 0
  OBVIOUS
<1> QED BY <1>1 DEF Ascending, UpTo, Before

LEMMA ReadingAge ==
    ASSUME NEW n \in 1 .. MaxReadings
    PROVE  \A k \in 1 .. Len(Text(n)) : Text(n)[k][1] = n
<1>1. \A k \in 1 .. L : Text(n)[k] = <<n, k>>
  BY DEF Text
<1>2. Len(Text(n)) = L
  BY Reading
<1> HIDE DEF Text
<1> QED BY <1>1, <1>2

\* A pipe after a write: the newest reading at the end.
LEMMA WrittenAge ==
    ASSUME NEW s \in Seq(Chars), NEW n \in 1 .. MaxReadings, Ascending(s), UpTo(s, n),
           NEW t, t = s \o Text(n)
    PROVE  /\ Ascending(t) /\ UpTo(t, n)
           /\ \A u : Before(u, s) /\ UpTo(u, n) => Before(u, t)
<1>1. Text(n) \in Seq(Chars) /\ Len(Text(n)) \in Nat /\ Len(s) \in Nat
  BY Reading, Sizes, LenProperties
<1>2. /\ Len(t) = Len(s) + Len(Text(n))
      /\ \A i \in 1 .. Len(s) + Len(Text(n)) :
            t[i] = IF i <= Len(s) THEN s[i] ELSE Text(n)[i - Len(s)]
  BY <1>1, ConcatProperties
<1>3. ASSUME NEW i \in 1 .. Len(t)
      PROVE  IF i <= Len(s) THEN i \in 1 .. Len(s) /\ t[i] = s[i] ELSE t[i][1] = n
  <2>1. CASE i <= Len(s)
    BY <1>1, <1>2, <2>1
  <2>2. CASE ~(i <= Len(s))
    <3>1. i - Len(s) \in 1 .. Len(Text(n))
      BY <1>1, <1>2, <2>2
    <3>2. t[i] = Text(n)[i - Len(s)]
      BY <1>2, <2>2
    <3> QED BY <2>2, <3>1, <3>2, ReadingAge
  <2> QED BY <2>1, <2>2
<1>4. n \in Nat /\ \A i \in 1 .. Len(s) : s[i][1] <= n
  BY DEF UpTo
<1>5. UpTo(t, n)
  BY <1>3, <1>4 DEF UpTo
<1>6. Ascending(t)
  <2> SUFFICES ASSUME NEW i \in 1 .. Len(t), NEW j \in 1 .. Len(t), i <= j
               PROVE  t[i][1] <= t[j][1]
    BY DEF Ascending
  <2>1. CASE j <= Len(s)
    <3>1. i <= Len(s)
      BY <1>1, <1>2, <2>1
    <3> QED BY <1>3, <2>1, <3>1 DEF Ascending
  <2>2. CASE ~(j <= Len(s))
    BY <1>3, <1>5, <2>2 DEF UpTo
  <2> QED BY <2>1, <2>2
<1>7. ASSUME NEW u, Before(u, s), UpTo(u, n) PROVE Before(u, t)
  BY <1>3, <1>7 DEF Before, UpTo
<1> QED BY <1>5, <1>6, <1>7

\* A pipe that is cut in two: what was read is not newer than what is left.
LEMMA CutAge ==
    ASSUME NEW s \in Seq(Chars), NEW n \in 0 .. Len(s), Ascending(s)
    PROVE  /\ Ascending(SubSeq(s, n + 1, Len(s)))
           /\ Before(SubSeq(s, 1, n), SubSeq(s, n + 1, Len(s)))
           /\ \A m : UpTo(s, m) => /\ UpTo(SubSeq(s, 1, n), m)
                                  /\ UpTo(SubSeq(s, n + 1, Len(s)), m)
           /\ \A u : Before(u, s) => /\ Before(u, SubSeq(s, 1, n))
                                    /\ Before(u, SubSeq(s, n + 1, Len(s)))
<1> DEFINE a == SubSeq(s, 1, n)
           b == SubSeq(s, n + 1, Len(s))
<1>1. Len(s) \in Nat /\ \A i \in 1 .. Len(s) : s[i] \in Chars
  BY LenProperties, ElementOfSeq
<1>2. Len(a) = n /\ \A i \in 1 .. Len(a) : i \in 1 .. Len(s) /\ a[i] = s[i] /\ i <= n
  <2>1. \A i \in 1 .. n : s[i] \in Chars
    BY <1>1
  <2>2. /\ Len(a) = IF 1 <= n THEN n - 1 + 1 ELSE 0
        /\ \A i \in 1 .. n - 1 + 1 : a[i] = s[1 + i - 1]
    BY <1>1, <2>1, SubSeqProperties
  <2>3. Len(a) = n /\ n - 1 + 1 = n
    BY <1>1, <2>2
  <2>4. ASSUME NEW i \in 1 .. Len(a) PROVE i \in 1 .. Len(s) /\ a[i] = s[i] /\ i <= n
    <3>1. 1 + i - 1 = i /\ i \in 1 .. n - 1 + 1 /\ i \in 1 .. Len(s) /\ i <= n
      BY <1>1, <2>3
    <3> QED BY <2>2, <3>1
  <2> QED BY <2>3, <2>4
<1>3. \A j \in 1 .. Len(b) : n + j \in 1 .. Len(s) /\ b[j] = s[n + j]
  <2>1. \A i \in n + 1 .. Len(s) : s[i] \in Chars
    BY <1>1
  <2>2. /\ Len(b) = IF n + 1 <= Len(s) THEN Len(s) - (n + 1) + 1 ELSE 0
        /\ \A i \in 1 .. Len(s) - (n + 1) + 1 : b[i] = s[n + 1 + i - 1]
    BY <1>1, <2>1, SubSeqProperties
  <2>3. Len(b) = Len(s) - n /\ Len(s) - (n + 1) + 1 = Len(s) - n
    BY <1>1, <2>2
  <2>4. ASSUME NEW j \in 1 .. Len(b) PROVE n + j \in 1 .. Len(s) /\ b[j] = s[n + j]
    <3>0. n \in Nat /\ Len(s) \in Nat /\ n <= Len(s)
      BY <1>1
    <3>1. j \in 1 .. Len(s) - n
      BY <2>3
    <3>2. n + 1 + j - 1 = n + j /\ n + j \in 1 .. Len(s)
      BY <3>0, <3>1
    <3> QED BY <2>2, <2>3, <3>1, <3>2
  <2> QED BY <2>4
<1> HIDE DEF a, b
<1>4. Ascending(b)
  <2> SUFFICES ASSUME NEW i \in 1 .. Len(b), NEW j \in 1 .. Len(b), i <= j
               PROVE  b[i][1] <= b[j][1]
    BY DEF Ascending
  <2>1. n + i <= n + j
    BY <1>1
  <2> QED BY <1>3, <2>1 DEF Ascending
<1>5. Before(a, b)
  <2> SUFFICES ASSUME NEW i \in 1 .. Len(a), NEW j \in 1 .. Len(b)
               PROVE  a[i][1] <= b[j][1]
    BY DEF Before
  <2>1. i <= n + j
    BY <1>1, <1>2
  <2> QED BY <1>2, <1>3, <2>1 DEF Ascending
<1>6. \A m : UpTo(s, m) => UpTo(a, m) /\ UpTo(b, m)
  BY <1>2, <1>3 DEF UpTo
<1>7. \A u : Before(u, s) => Before(u, a) /\ Before(u, b)
  BY <1>2, <1>3 DEF Before
<1> QED BY <1>4, <1>5, <1>6, <1>7 DEF a, b

\* One more reading taken.
LEMMA OlderStill ==
    ASSUME NEW s \in Seq(Chars), NEW n \in Nat, UpTo(s, n)
    PROVE  UpTo(s, n + 1)
<1>1. \A i \in 1 .. Len(s) : s[i][1] \in Nat
  BY CharAt
<1> QED BY <1>1 DEF UpTo

LEMMA AgeStep == ASSUME Inv, AgeInv, [Next]_vars PROVE AgeInv'
<1> USE DEF serverVars, daemonVars, readerVars, handlerVars
<1>0. /\ file \in Seq(Chars) /\ rbuf \in Seq(Chars) /\ value \in Seq(Chars)
      /\ Shown \in Seq(Chars) /\ taken \in Nat
  BY DEF Inv, TypeOK, Shown
\* A step that may empty the pipe, and leaves the rest.
<1>a. ASSUME UNCHANGED <<rpc, rbuf, value, taken>>, file' \in {file, << >>} PROVE AgeInv'
  <2>1. UNCHANGED Shown
    BY <1>a DEF Shown
  <2> QED BY <1>a, <2>1, NoTextAge DEF AgeInv
<1>1. CASE StartServer
  BY <1>1, <1>a DEF StartServer
<1>2. CASE CrashServer
  <2>1. /\ file' \in {file, << >>} /\ rbuf' = << >> /\ rpc' = "read" /\ taken' = taken
        /\ Shown' = << >>
    BY <1>2 DEF CrashServer, Shown
  <2> QED BY <2>1, NoTextAge DEF AgeInv
<1>3. CASE StartDaemon \/ CrashDaemon
  BY <1>3, <1>a DEF StartDaemon, CrashDaemon
<1>4. CASE Sense
  <2>1. taken' = taken + 1 /\ UNCHANGED <<file, rbuf, rpc, value, Shown>>
    BY <1>4 DEF Sense, Shown
  <2> QED BY <1>0, <2>1, OlderStill DEF AgeInv
<1>5. CASE Write
  <2>1. taken \in 1 .. MaxReadings /\ UNCHANGED <<rbuf, rpc, value, taken, Shown>>
    BY <1>5 DEF Write, Inv, TypeOK, Holds, Shown
  <2>2. file' = file \/ file' = file \o Text(taken)
    BY <1>5 DEF Write
  <2>3. CASE file' = file
    BY <1>a, <2>1, <2>3
  <2>4. CASE file' = file \o Text(taken)
    <3>1. PICK t : t = file \o Text(taken)
      OBVIOUS
    <3>2. /\ Ascending(t) /\ UpTo(t, taken)
          /\ \A u : Before(u, file) /\ UpTo(u, taken) => Before(u, t)
      BY <1>0, <2>1, <3>1, WrittenAge DEF AgeInv
    <3>3. file' = t
      BY <2>4, <3>1
    <3> QED BY <2>1, <3>2, <3>3 DEF AgeInv
  <2> QED BY <2>2, <2>3, <2>4
<1>6. CASE ReadPipe
  <2>1. PICK n : n = Min({ReadSize, Len(file)})
    OBVIOUS
  <2>2. /\ rbuf' = SubSeq(file, 1, n) /\ file' = SubSeq(file, n + 1, Len(file))
        /\ rpc = "read" /\ rpc' = "lock" /\ file # << >>
        /\ UNCHANGED <<value, taken>>
    BY <1>6, <2>1 DEF ReadPipe
  <2>3. n \in 0 .. Len(file) /\ n # 0 /\ Len(file) \in Nat
    <3>1. Len(file) \in Nat /\ Len(file) # 0
      BY <1>0, <2>2, LenProperties, EmptySeq
    <3>2. ReadSize \in Nat /\ ReadSize # 0
      BY Sizes
    <3> QED BY <2>1, <3>1, <3>2, MinOfTwo
  <2>4. UNCHANGED Shown
    BY <2>2 DEF Shown
  <2>5. /\ Ascending(file)' /\ Before(rbuf', file')
        /\ \A m : UpTo(file, m) => UpTo(rbuf', m) /\ UpTo(file', m)
        /\ \A u : Before(u, file) => Before(u, rbuf') /\ Before(u, file')
    <3>1. file \in Seq(Chars) /\ n \in 0 .. Len(file) /\ Ascending(file)
      BY <1>0, <2>3 DEF AgeInv
    <3>2. /\ Ascending(SubSeq(file, n + 1, Len(file)))
          /\ Before(SubSeq(file, 1, n), SubSeq(file, n + 1, Len(file)))
          /\ \A m : UpTo(file, m) => /\ UpTo(SubSeq(file, 1, n), m)
                                    /\ UpTo(SubSeq(file, n + 1, Len(file)), m)
          /\ \A u : Before(u, file) => /\ Before(u, SubSeq(file, 1, n))
                                      /\ Before(u, SubSeq(file, n + 1, Len(file)))
      BY <3>1, CutAge
    <3> QED BY <2>2, <3>2
  <2>6. rbuf' # << >>
    <3>1. Len(rbuf') = IF 1 <= n THEN n - 1 + 1 ELSE 0
      BY <1>0, <2>2, <2>3, Cut
    <3>2. Len(rbuf') # 0
      BY <2>3, <3>1
    <3> QED BY <3>2
  <2> QED BY <2>2, <2>4, <2>5, <2>6 DEF AgeInv
<1>7. CASE PutLock
  <2>1. UNCHANGED <<file, rbuf, value, taken, Shown>> /\ rpc = "lock" /\ rpc' = "copy"
    BY <1>7 DEF PutLock, Shown
  <2> QED BY <2>1 DEF AgeInv
<1>8. CASE PutCopy
  <2>1. UNCHANGED <<file, rbuf, taken>> /\ rpc' = "end" /\ Shown' = rbuf
    BY <1>8 DEF PutCopy, Shown
  <2> QED BY <2>1 DEF AgeInv
<1>9. CASE PutEnd
  <2>1. UNCHANGED <<file, taken, Shown>> /\ rpc' = "read" /\ rbuf' = << >>
    BY <1>9 DEF PutEnd, Shown
  <2> QED BY <2>1, NoTextAge DEF AgeInv
<1>10. ASSUME NEW h \in Handlers, Handler(h) PROVE AgeInv'
  BY <1>10, <1>a DEF Handler, Request, GetLock, GetCopy, Reply
<1>11. CASE UNCHANGED vars
  BY <1>11, <1>a DEF vars
<1> QED
  BY <1>1, <1>2, <1>3, <1>4, <1>5, <1>6, <1>7, <1>8, <1>9, <1>10, <1>11
  DEF Next, Server, Daemon, Reader

\* Every step is one of the shared text, or none.
LEMMA SharedStep == ASSUME Inv, AgeInv, [Next]_vars PROVE [Shared!Next]_(Shared!textVars)
<1> USE DEF serverVars, daemonVars, readerVars, handlerVars
<1>0. pc \in [Handlers -> {"idle", "lock", "copy", "reply"}] /\ buf \in [Handlers -> Seq(Chars)]
  BY DEF Inv, TypeOK
<1>a. ASSUME UNCHANGED <<Shown, pc, buf>> PROVE UNCHANGED Shared!textVars
  BY <1>a DEF Shared!textVars, Copies
<1>1. CASE StartServer \/ StartDaemon \/ CrashDaemon \/ Sense \/ Write
  <2>1. UNCHANGED <<Shown, pc, buf>>
    BY <1>1 DEF StartServer, StartDaemon, CrashDaemon, Sense, Write, Shown
  <2> QED BY <1>a, <2>1
<1>2. CASE CrashServer
  <2>1. Shown' = << >> /\ \A h \in Handlers : pc'[h] = "idle"
    BY <1>2 DEF CrashServer, Shown
  <2>2. Copies' = << >>
    BY <2>1 DEF Copies
  <2> QED BY <2>1, <2>2 DEF Shared!Next, Shared!Lose
<1>3. CASE ReadPipe \/ PutLock \/ PutEnd
  <2>1. UNCHANGED <<Shown, pc, buf>>
    BY <1>3 DEF ReadPipe, PutLock, PutEnd, Shown
  <2> QED BY <1>a, <2>1
<1>4. CASE PutCopy
  <2>1. rpc = "copy" /\ Shown' = rbuf /\ UNCHANGED <<pc, buf>>
    BY <1>4 DEF PutCopy, Shown
  <2>2. rbuf # << >> /\ Before(Shown, rbuf)
    BY <2>1 DEF AgeInv
  <2>3. Shared!NoOlder(Shown, Shown')
    BY <2>1, <2>2 DEF Shared!NoOlder, Before
  <2>4. UNCHANGED Copies
    BY <2>1 DEF Copies
  <2> QED BY <2>1, <2>2, <2>3, <2>4 DEF Shared!Next, Shared!Put
<1>5. ASSUME NEW h \in Handlers, Request(h) \/ GetLock(h) PROVE UNCHANGED Shared!textVars
  <2>1. /\ UNCHANGED <<Shown, buf>> /\ pc[h] # "reply"
        /\ \E p \in {"lock", "copy"} : pc' = [pc EXCEPT ![h] = p]
    BY <1>5 DEF Request, GetLock, Shown
  <2>2. {g \in Handlers : pc'[g] = "reply"} = {g \in Handlers : pc[g] = "reply"}
    BY <1>0, <2>1
  <2>3. UNCHANGED Copies
    BY <2>1, <2>2 DEF Copies
  <2> QED BY <2>1, <2>3 DEF Shared!textVars
<1>6. ASSUME NEW h \in Handlers, GetCopy(h) PROVE Shared!Get(h)
  <2>1. /\ rpc # "end" /\ Shown = value /\ Shown' = value /\ pc[h] = "copy"
        /\ value \in Seq(Chars) /\ Len(value) \in Nat
    BY <1>6, SensorPipeAssumption DEF GetCopy, Inv, TypeOK, Holds, Shown
  <2>2. BufLen < Len(value) + 1 <=> ~(Len(value) < BufLen)
    BY <2>1, Sizes
  <2>3. /\ pc' = [pc EXCEPT ![h] = "reply"]
        /\ buf' = [buf EXCEPT ![h] = IF Len(value) < BufLen THEN value ELSE << >>]
    BY <1>6, <2>2 DEF GetCopy
  <2>4. DOMAIN Copies' = DOMAIN Copies \union {h} /\ h \notin DOMAIN Copies
    BY <1>0, <2>1, <2>3 DEF Copies
  <2>5. Copies' = [g \in DOMAIN Copies \union {h} |->
                     IF g # h THEN Copies[g]
                     ELSE IF Len(Shown) < BufLen THEN Shown ELSE << >>]
    BY <1>0, <2>1, <2>3, <2>4 DEF Copies
  <2> QED BY <2>1, <2>4, <2>5 DEF Shared!Get
<1>7. ASSUME NEW h \in Handlers, Reply(h) PROVE Shared!Answer(h)
  <2>1. /\ pc[h] = "reply" /\ pc' = [pc EXCEPT ![h] = "idle"]
        /\ buf' = [buf EXCEPT ![h] = << >>] /\ UNCHANGED Shown
    BY <1>7 DEF Reply, Shown
  <2>2. DOMAIN Copies' = DOMAIN Copies \ {h} /\ h \in DOMAIN Copies
    BY <1>0, <2>1 DEF Copies
  <2>3. Copies' = [g \in DOMAIN Copies \ {h} |-> Copies[g]]
    BY <1>0, <2>1, <2>2 DEF Copies
  <2> QED BY <2>1, <2>2, <2>3 DEF Shared!Answer
<1>8. CASE UNCHANGED vars
  BY <1>8, <1>a DEF vars, Shown
<1> QED
  BY <1>1, <1>2, <1>3, <1>4, <1>5, <1>6, <1>7, <1>8
  DEF Next, Server, Daemon, Reader, Handler, Shared!Next

(* A pipe without message boundaries, a copy in pieces and a mutex that some *)
(* handlers never return are, to a client, one text that is put and got at   *)
(* once: no answer is torn, none is older than one before it.                *)
THEOREM TextIsAtomic == Spec => ImplementsSharedText
<1>1. Init => AgeInv /\ Shared!Init
  <2> SUFFICES ASSUME Init PROVE AgeInv /\ Shared!Init
    OBVIOUS
  <2>1. file = << >> /\ rbuf = << >> /\ Shown = << >> /\ rpc = "read"
    BY DEF Init, Shown
  <2>2. Copies = << >>
    BY DEF Init, Copies
  <2> QED BY <2>1, <2>2, NoTextAge DEF AgeInv, Shared!Init
<1>2. Inv /\ AgeInv /\ [Next]_vars => (Inv /\ AgeInv)' /\ [Shared!Next]_(Shared!textVars)
  BY NextInv, AgeStep, SharedStep
<1> QED BY <1>1, <1>2, InitInv, PTL DEF Spec, ImplementsSharedText, Shared!Spec
=============================================================================
