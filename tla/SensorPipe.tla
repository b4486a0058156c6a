------------------------------- MODULE SensorPipe -------------------------------
(***************************************************************************)
(* The way of a reading from the DHT11 daemon (sensorDaemon/main.cpp) over *)
(* a named pipe (common/fifo.c) to the web server (myHttpServer.c).        *)
(*                                                                         *)
(* A reading n is the text "T H": L characters <<n, 1>> .. <<n, L>>, the   *)
(* blank at Sep.  The daemon writes it whole; a thread of the server reads *)
(* up to ReadSize characters of whatever waits in the pipe into the shared *)
(* text; a handler thread per connection copies that text into a buffer of *)
(* BufLen characters under the mutex and takes two numbers out of it.      *)
(*                                                                         *)
(* The server makes a new pipe at its start.  A daemon that runs on keeps  *)
(* the old one open: file is the pipe under the path, orphan the one that  *)
(* only the daemon has.                                                    *)
(***************************************************************************)
EXTENDS Integers, Sequences, SequencesExt, FiniteSetsExt

CONSTANTS
    Handlers,        \* threads of connections
    Nobody,          \* the mutex is free
    L, Sep,          \* characters of a reading, position of its blank
    ReadSize,        \* BUF_SIZE
    BufLen,          \* size of the handler's buffer
    PipeSize,        \* capacity of a pipe
    MaxReadings,     \* bound: readings the daemon takes
    MaxStarts        \* bound: starts of the server

ASSUME SensorPipeAssumption ==
    /\ "reader" \notin Handlers
    /\ Nobody \notin Handlers \union {"reader"}
    /\ {L, Sep, ReadSize, BufLen, PipeSize, MaxReadings, MaxStarts} \subseteq Nat
    /\ 1 < Sep /\ Sep < L /\ L < BufLen /\ L <= ReadSize /\ L <= PipeSize

VARIABLES
    starts,          \* starts of the server so far
    up,              \* the server runs
    file,            \* text in the pipe under the path
    orphan,          \* text in a pipe that only the daemon holds
    fd,              \* fifo_write_fd: "none" (no daemon), "file" or "orphan"
    taken,           \* readings taken so far
    unsent,          \* the daemon is in writeFifo with reading `taken`
    rpc, rbuf,       \* step and buffer of the reader thread
    value,           \* szReadValue
    mutex,           \* who holds it
    pc, buf,         \* step and buffer of each handler
    full             \* a read returned ReadSize characters

serverVars == <<starts, up>>
daemonVars == <<fd, taken, unsent>>
readerVars == <<rpc, rbuf, full>>
handlerVars == <<pc, buf>>
vars == <<starts, up, file, orphan, fd, taken, unsent, rpc, rbuf, value, mutex,
          pc, buf, full>>

Chars == (1 .. MaxReadings) \X (1 .. L)
Text(n) == [k \in 1 .. L |-> <<n, k>>]

-----------------------------------------------------------------------------
(* getTempHum: 0 is the number 0.0, Garbled a number no reading has.         *)

Garbled == -1

\* atof at position j of t, where a number ought to be that starts with
\* character k of a reading: it stops at a blank or at the second point.
NumberAt(t, j, k) ==
    LET last == IF k = 1 THEN Sep - 1 ELSE L
    IN  IF /\ j + last - k <= Len(t)
           /\ \A i \in k .. last : t[j + i - k] = <<t[j][1], i>>
        THEN t[j][1] ELSE Garbled

Blanks(t) == {i \in DOMAIN t : t[i][2] = Sep}

\* A blank in front leaves pos at 0: the next one is taken for the first too.
Pos(t) == IF Blanks(t) \ {1} = {} THEN 1 ELSE Min(Blanks(t) \ {1})

Temperature(t) ==
    IF Blanks(t) \ {1} = {} \/ 1 \in Blanks(t) THEN 0 ELSE NumberAt(t, 1, 1)

Humidity(t) ==
    IF t = << >> \/ Len(t) \in Blanks(t) THEN 0 ELSE NumberAt(t, Pos(t) + 1, Sep + 1)

-----------------------------------------------------------------------------
Init ==
    /\ starts = 0 /\ up = FALSE
    /\ file = << >> /\ orphan = << >>
    /\ fd = "none" /\ taken = 0 /\ unsent = FALSE
    /\ rpc = "read" /\ rbuf = << >> /\ full = FALSE
    /\ value = << >> /\ mutex = Nobody
    /\ pc = [h \in Handlers |-> "idle"]
    /\ buf = [h \in Handlers |-> << >>]

\* main of the server: createFifo removes the path and makes a new pipe.
StartServer ==
    /\ ~up /\ starts < MaxStarts
    /\ starts' = starts + 1
    /\ up' = TRUE
    /\ file' = << >>
    /\ IF fd = "file"
       THEN fd' = "orphan" /\ orphan' = file
       ELSE UNCHANGED <<fd, orphan>>
    /\ UNCHANGED <<taken, unsent, readerVars, value, mutex, handlerVars>>

\* The process ends with its threads; a pipe nobody has open loses its text.
CrashServer ==
    /\ up
    /\ up' = FALSE
    /\ file' = IF fd = "file" THEN file ELSE << >>
    /\ rpc' = "read" /\ rbuf' = << >> /\ full' = FALSE
    /\ value' = << >> /\ mutex' = Nobody
    /\ pc' = [h \in Handlers |-> "idle"]
    /\ buf' = [h \in Handlers |-> << >>]
    /\ UNCHANGED <<starts, orphan, daemonVars>>

\* openFifo_write: it fails, and main returns, if there is no pipe.
StartDaemon ==
    /\ fd = "none" /\ starts > 0
    /\ fd' = "file"
    /\ UNCHANGED <<serverVars, file, orphan, taken, unsent, readerVars, value, mutex,
                   handlerVars>>

CrashDaemon ==
    /\ fd # "none"
    /\ fd' = "none"
    /\ unsent' = FALSE
    /\ orphan' = << >>
    /\ file' = IF up THEN file ELSE << >>
    /\ UNCHANGED <<serverVars, taken, readerVars, value, mutex, handlerVars>>

\* A measurement that passed the checks: setHuTm, then writeToFifo.
Sense ==
    /\ fd # "none" /\ ~unsent /\ taken < MaxReadings
    /\ taken' = taken + 1
    /\ unsent' = TRUE
    /\ UNCHANGED <<serverVars, file, orphan, fd, readerVars, value, mutex, handlerVars>>

\* write: at most BUF_SIZE characters go in one piece, once there is room.
Fits(t) == Len(t) + L <= PipeSize

Write ==
    /\ unsent
    /\ unsent' = FALSE
    /\ \/ /\ fd = "file" /\ Fits(file)
          /\ file' = file \o Text(taken)
          /\ UNCHANGED orphan
       \/ /\ fd = "orphan" /\ Fits(orphan)
          /\ orphan' = orphan \o Text(taken)
          /\ UNCHANGED file
    /\ UNCHANGED <<serverVars, fd, taken, readerVars, value, mutex, handlerVars>>
-----------------------------------------------------------------------------
(* The reader thread: run and putValue.                                      *)

ReadPipe ==
    /\ up /\ rpc = "read" /\ file # << >>
    /\ LET n == Min({ReadSize, Len(file)})
       IN  /\ rbuf' = SubSeq(file, 1, n)
           /\ file' = SubSeq(file, n + 1, Len(file))
           /\ full' = (full \/ n = ReadSize)
    /\ rpc' = "lock"
    /\ UNCHANGED <<serverVars, orphan, daemonVars, value, mutex, handlerVars>>

PutLock ==
    /\ rpc = "lock" /\ mutex = Nobody
    /\ mutex' = "reader"
    /\ rpc' = "copy"
    /\ UNCHANGED <<serverVars, file, orphan, daemonVars, rbuf, full, value, handlerVars>>

\* memcpy, stopped after any number of characters.
PutCopy ==
    /\ rpc = "copy"
    /\ \E i \in 1 .. Len(rbuf) :
           value' = SubSeq(rbuf, 1, i) \o SubSeq(value, i + 1, Len(value))
    /\ rpc' = "end"
    /\ UNCHANGED <<serverVars, file, orphan, daemonVars, rbuf, full, mutex, handlerVars>>

\* Wrong: keeps the mutex.
PutEndLocked ==
    /\ rpc = "end"
    /\ value' = rbuf
    /\ rbuf' = << >>
    /\ rpc' = "read"
    /\ UNCHANGED <<serverVars, file, orphan, daemonVars, full, mutex, handlerVars>>

\* The rest of memcpy, the terminating 0 and the unlock.
PutEnd ==
    /\ rpc = "end"
    /\ value' = rbuf
    /\ mutex' = Nobody
    /\ rbuf' = << >>
    /\ rpc' = "read"
    /\ UNCHANGED <<serverVars, file, orphan, daemonVars, full, handlerVars>>
-----------------------------------------------------------------------------
(* A connection's thread: POST /api/v1 and GET /tmhu call getTempHum.        *)

Request(h) ==
    /\ up /\ pc[h] = "idle"
    /\ pc' = [pc EXCEPT ![h] = "lock"]
    /\ UNCHANGED <<serverVars, file, orphan, daemonVars, readerVars, value, mutex, buf>>

\* Wrong: does not wait for the mutex.
GetUnlocked(h) ==
    /\ pc[h] = "lock"
    /\ pc' = [pc EXCEPT ![h] = "copy"]
    /\ UNCHANGED <<serverVars, file, orphan, daemonVars, readerVars, value, mutex, buf>>

GetLock(h) ==
    /\ pc[h] = "lock" /\ mutex = Nobody
    /\ mutex' = h
    /\ pc' = [pc EXCEPT ![h] = "copy"]
    /\ UNCHANGED <<serverVars, file, orphan, daemonVars, readerVars, value, buf>>

\* Wrong: does not compare the text with the buffer.
GetCopyUnbounded(h) ==
    /\ pc[h] = "copy"
    /\ buf' = [buf EXCEPT ![h] = value] /\ mutex' = Nobody
    /\ pc' = [pc EXCEPT ![h] = "reply"]
    /\ UNCHANGED <<serverVars, file, orphan, daemonVars, readerVars, value>>

\* Wrong: returns early, with the mutex, if there is no text yet.
GetCopyEmpty(h) ==
    /\ pc[h] = "copy"
    /\ buf' = [buf EXCEPT ![h] = IF BufLen < Len(value) + 1 THEN << >> ELSE value]
    /\ mutex' = IF Len(value) \in 1 .. BufLen - 1 THEN Nobody ELSE mutex
    /\ pc' = [pc EXCEPT ![h] = "reply"]
    /\ UNCHANGED <<serverVars, file, orphan, daemonVars, readerVars, value>>

\* getFifoValue returns without unlocking if the text does not fit.
GetCopy(h) ==
    /\ pc[h] = "copy"
    /\ IF BufLen < Len(value) + 1
       THEN buf' = [buf EXCEPT ![h] = << >>] /\ UNCHANGED mutex
       ELSE buf' = [buf EXCEPT ![h] = value] /\ mutex' = Nobody
    /\ pc' = [pc EXCEPT ![h] = "reply"]
    /\ UNCHANGED <<serverVars, file, orphan, daemonVars, readerVars, value>>

Reply(h) ==
    /\ pc[h] = "reply"
    /\ pc' = [pc EXCEPT ![h] = "idle"]
    /\ buf' = [buf EXCEPT ![h] = << >>]
    /\ UNCHANGED <<serverVars, file, orphan, daemonVars, readerVars, value, mutex>>
-----------------------------------------------------------------------------
Server == StartServer \/ CrashServer
Daemon == StartDaemon \/ CrashDaemon \/ Sense \/ Write
Reader == ReadPipe \/ PutLock \/ PutCopy \/ PutEnd
Handler(h) == Request(h) \/ GetLock(h) \/ GetCopy(h) \/ Reply(h)

Next == Server \/ Daemon \/ Reader \/ \E h \in Handlers : Handler(h)

Spec == Init /\ [][Next]_vars

\* Threads run on; nobody waits for ever for a mutex that is freed again and
\* again.  No start, crash, measurement or request is owed.
Fairness ==
    /\ WF_vars(Write)
    /\ WF_vars(ReadPipe) /\ SF_vars(PutLock) /\ WF_vars(PutCopy) /\ WF_vars(PutEnd)
    /\ \A h \in Handlers : SF_vars(GetLock(h)) /\ WF_vars(GetCopy(h)) /\ WF_vars(Reply(h))

FairSpec == Spec /\ Fairness
-----------------------------------------------------------------------------
(* The shared text between a put and a get is that of SharedText: memcpy, in *)
(* pieces as it is, and the copies of the handlers look atomic, a copy fits  *)
(* the handler's buffer with its end mark, and no request is answered with   *)
(* an older reading than one before it, however pipe and reader thread join  *)
(* and cut the readings (fifo.c:56-106).                                     *)
Shown == IF rpc = "end" THEN rbuf ELSE value
Copies == [h \in {g \in Handlers : pc[g] = "reply"} |-> buf[h]]
Shared == INSTANCE SharedText WITH text <- Shown, got <- Copies

ImplementsSharedText == Shared!Spec

(* Unless the reader thread once found ReadSize characters waiting, the two  *)
(* numbers of an answer belong to one reading, however many texts were read  *)
(* as one; they are both 0 only if nothing was read or nothing was copied.   *)
OneReading ==
    ~full => \A h \in Handlers : pc[h] = "reply" =>
        /\ Temperature(buf[h]) = Humidity(buf[h])
        /\ Temperature(buf[h]) # Garbled
        /\ buf[h] # << >> => Temperature(buf[h]) # 0

(* As long as no text outgrows the handlers' buffer, every request is        *)
(* answered (or the server ends): no thread keeps the mutex.                 *)
Answered ==
    [](Len(value) < BufLen) =>
        \A h \in Handlers : (pc[h] = "lock") ~> (pc[h] = "idle")

(* As long as no text outgrows the handlers' buffer, a reading the daemon    *)
(* writes to the server's pipe reaches the shared text, full pipe or not,    *)
(* unless one of the two processes ends: the daemon is not blocked for ever. *)
Newest == IF value = << >> THEN 0 ELSE Last(value)[1]

Arrives ==
    [](Len(value) < BufLen) =>
        \A n \in 1 .. MaxReadings :
            (up /\ fd = "file" /\ unsent /\ taken = n)
                ~> (~up \/ fd # "file" \/ Newest >= n)
=============================================================================
