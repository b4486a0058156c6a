--------------------------------- MODULE Plcbus ---------------------------------
(***************************************************************************)
(* The PLCBUS driver (devices/PLCBUS/PLCBUS.cpp).  The command handler     *)
(* puts jobs into a queue; the receive thread reads a frame from the       *)
(* serial line, which may answer the job in front of the queue, and then   *)
(* sends the front once more, at most MaxRepeats + 1 times.                *)
(*                                                                         *)
(* Jobs are numbered as they are made.  A job is a command for a unit, or  *)
(* asks all units of a house for their ids.  The adapter answers what it   *)
(* transmits at its own pace, or not at all, and copies the traffic of the *)
(* bus; others on the bus cause answers, too.                              *)
(***************************************************************************)
EXTENDS Naturals, Sequences

CONSTANTS
    Units,           \* house and unit
    Startup,         \* the jobs of main: one per house, for its first unit
    Here, Stray, Tried,  \* no number of a job, see below
    MaxRepeats,      \* 3 in the code
    MaxCommands,     \* bound: commands of users
    MaxNoise,        \* bound: frames that others cause
    MaxAir, MaxLine  \* bounds: what adapter and serial line hold

ASSUME PlcbusAssumption ==
    /\ Startup \in Seq(Units)
    /\ {Here, Stray, Tried} \intersect Nat = {}
    /\ Here \notin {Stray, Tried} /\ Stray # Tried
    /\ MaxRepeats \in Nat \ {0}
    /\ {MaxCommands, MaxNoise, MaxAir, MaxLine} \subseteq Nat

VARIABLES
    jobs,            \* all jobs made: unit and kind
    queue,           \* PLCBUSSendQueue
    sendcount,       \* of each job
    gone,            \* of each job, why it left the queue: the job that was
                     \* answered, Stray (none) or Tried; or Here
    pc,              \* the receive thread
    air,             \* jobs the adapter has transmitted and not answered
    line,            \* frames on the serial line
    started, commands, noise

input == <<air, line, noise>>
users == <<started, commands>>
vars == <<jobs, queue, sendcount, gone, pc, input, users>>

Kinds == {"set", "ids"}
Jobs == DOMAIN jobs

\* A frame is an ack from a unit, an id feedback, or one that is skipped: a
\* copy of what others send, or a part of a frame.  `of` is the job it answers.
Answer(j) == [type |-> IF jobs[j].kind = "set" THEN "ack" ELSE "ids", unit |-> jobs[j].unit, of |-> j]
Noises == [type : {"ack", "ids", "skip"}, unit : Units, of : {0}]

Init ==
    /\ jobs = << >> /\ queue = << >> /\ sendcount = << >> /\ gone = << >>
    /\ pc = "read"
    /\ air = << >> /\ line = << >> /\ noise = 0
    /\ started = 0 /\ commands = 0
-----------------------------------------------------------------------------
(* main and commandHandler.                                                  *)

Push(u, k) ==
    /\ jobs' = Append(jobs, [unit |-> u, kind |-> k])
    /\ queue' = Append(queue, Len(jobs) + 1)
    /\ sendcount' = Append(sendcount, 0)
    /\ gone' = Append(gone, Here)
    /\ UNCHANGED <<pc, input>>

Start ==
    /\ started < Len(Startup)
    /\ Push(Startup[started + 1], "ids")
    /\ started' = started + 1
    /\ UNCHANGED commands

\* The kind is uninitialised for a command that is not on, off or setlevel.
CommandHandler(u) ==
    /\ started = Len(Startup) /\ commands < MaxCommands
    /\ \E k \in Kinds : Push(u, k)
    /\ commands' = commands + 1
    /\ UNCHANGED started
-----------------------------------------------------------------------------
(* receiveFunction.                                                          *)

Pop(why) ==
    /\ queue' = Tail(queue)
    /\ gone' = [gone EXCEPT ![Head(queue)] = why]

Why(f) == IF f.of = 0 THEN Stray ELSE f.of

\* Wrong: does not compare the units.
AckedAny(f) == f.type = "ack" /\ queue # << >>

\* The ack of the unit that the front addresses.
Acked(f) == f.type = "ack" /\ queue # << >> /\ jobs[Head(queue)].unit = f.unit

\* Wrong: does not ask for the size of the queue.
ReadAckUnchecked ==
    /\ pc = "read" /\ line # << >>
    /\ Head(line).type = "ack"
    /\ pc' = IF queue = << >> THEN "broken" ELSE "send"
    /\ IF Acked(Head(line)) THEN Pop(Why(Head(line))) ELSE UNCHANGED <<queue, gone>>
    /\ line' = Tail(line)
    /\ UNCHANGED <<jobs, sendcount, air, noise, users>>

ReadAck ==
    /\ pc = "read" /\ line # << >>
    /\ Head(line).type = "ack"
    /\ IF Acked(Head(line)) THEN Pop(Why(Head(line))) ELSE UNCHANGED <<queue, gone>>
    /\ line' = Tail(line)
    /\ pc' = "send"
    /\ UNCHANGED <<jobs, sendcount, air, noise, users>>

\* Whatever is in front is removed, without a look at its kind.  There may be
\* nothing: then the deque is broken, and the job that was is freed again.
ReadIds ==
    /\ pc = "read" /\ line # << >>
    /\ Head(line).type = "ids"
    /\ IF queue # << >> THEN Pop(Why(Head(line))) /\ pc' = "send"
       ELSE pc' = "broken" /\ UNCHANGED <<queue, gone>>
    /\ line' = Tail(line)
    /\ UNCHANGED <<jobs, sendcount, air, noise, users>>

\* Nothing is sent after these.
ReadSkip ==
    /\ pc = "read" /\ line # << >>
    /\ Head(line).type = "skip"
    /\ line' = Tail(line)
    /\ UNCHANGED <<jobs, queue, sendcount, gone, pc, air, noise, users>>

ReadTimeout ==
    /\ pc = "read" /\ line = << >>
    /\ pc' = "send"
    /\ UNCHANGED <<jobs, queue, sendcount, gone, input, users>>

LastTry(j) == sendcount[j] + 1 > MaxRepeats

\* Wrong: moves the job that was sent to the end of the queue.
SendAround ==
    /\ pc = "send" /\ queue # << >>
    /\ LET j == Head(queue)
       IN  /\ sendcount' = [sendcount EXCEPT ![j] = @ + 1]
           /\ air' \in {air} \union (IF Len(air) < MaxAir THEN {Append(air, j)} ELSE {})
           /\ IF LastTry(j) THEN Pop(Tried) ELSE queue' = Append(Tail(queue), j) /\ UNCHANGED gone
    /\ line' = << >>
    /\ pc' = "read"
    /\ UNCHANGED <<jobs, noise, users>>

\* Wrong: gives up without removing the job.
SendKept ==
    /\ pc = "send" /\ queue # << >>
    /\ LET j == Head(queue)
       IN  /\ sendcount' = [sendcount EXCEPT ![j] = IF LastTry(j) THEN @ ELSE @ + 1]
           /\ air' \in {air} \union (IF Len(air) < MaxAir THEN {Append(air, j)} ELSE {})
    /\ line' = << >>
    /\ pc' = "read"
    /\ UNCHANGED <<jobs, queue, gone, noise, users>>

\* The flush after the write discards what has come meanwhile, and perhaps
\* what was written.
Send ==
    /\ pc = "send" /\ queue # << >>
    /\ LET j == Head(queue)
       IN  /\ sendcount' = [sendcount EXCEPT ![j] = @ + 1]
           /\ air' \in {air} \union (IF Len(air) < MaxAir THEN {Append(air, j)} ELSE {})
           /\ IF LastTry(j) THEN Pop(Tried) ELSE UNCHANGED <<queue, gone>>
    /\ line' = << >>
    /\ pc' = "read"
    /\ UNCHANGED <<jobs, noise, users>>

SendNothing ==
    /\ pc = "send" /\ queue = << >>
    /\ pc' = "read"
    /\ UNCHANGED <<jobs, queue, sendcount, gone, input, users>>
-----------------------------------------------------------------------------
(* The adapter.                                                              *)

Reply ==
    /\ air # << >> /\ Len(line) < MaxLine
    /\ air' = Tail(air)
    /\ line' \in {line, Append(line, Answer(Head(air)))}
    /\ UNCHANGED <<jobs, queue, sendcount, gone, pc, noise, users>>

Traffic ==
    /\ noise < MaxNoise /\ Len(line) < MaxLine
    /\ \E f \in Noises : line' = Append(line, f)
    /\ noise' = noise + 1
    /\ UNCHANGED <<jobs, queue, sendcount, gone, pc, air, users>>

Receiver == ReadAck \/ ReadIds \/ ReadSkip \/ ReadTimeout \/ Send \/ SendNothing
Next == Start \/ (\E u \in Units : CommandHandler(u)) \/ Receiver \/ Reply \/ Traffic
Spec == Init /\ [][Next]_vars

\* The receive thread runs: a read ends after half a second at the latest.
FairSpec == Spec /\ WF_vars(Receiver)
-----------------------------------------------------------------------------
(* Jobs reach the bus in the order in which they were made, and a job is     *)
(* not sent again once a later one was (PLCBUS.cpp:147, 185, 220): the queue *)
(* is in that order and nothing behind its front has been sent.              *)
InOrder ==
    /\ \A m, n \in DOMAIN queue : m < n => queue[m] < queue[n] /\ sendcount[queue[n]] = 0
    /\ \A j \in Jobs : (gone[j] = Here) <=> \E n \in DOMAIN queue : queue[n] = j

(* A job is removed by the answer to another one only if that was sent to    *)
(* the same unit, or its answer is an id feedback, which takes whatever is   *)
(* in front; and if that one was sent more than once, or had been removed by *)
(* an answer that was not its own.  Without repetitions and foreign traffic  *)
(* every job is sent (PLCBUS.cpp:145, 156, 218).                             *)
SurplusOnly ==
    \A j \in Jobs : gone[j] \in Jobs \ {j} =>
        LET o == gone[j]
        IN  /\ o < j
            /\ jobs[o].unit = jobs[j].unit \/ jobs[o].kind = "ids"
            /\ sendcount[o] > 1 \/ gone[o] \in {Stray} \union (Jobs \ {o})

(* The feedback that finds the queue empty (PLCBUS.cpp:156) is foreign, or   *)
(* answers a question that was sent more than once or was already removed by *)
(* another answer.                                                           *)
BrokenBySurplus ==
    pc = "broken" =>
        \/ noise > 0
        \/ \E o \in Jobs : jobs[o].kind = "ids" /\ (sendcount[o] > 1 \/ gone[o] # o)

(* Every job leaves the queue, whatever is lost on the bus, unless the queue *)
(* is broken; frames of others keep the thread from sending only while they  *)
(* last (PLCBUS.cpp:178, 218).                                               *)
Drains == <>[](queue = << >> \/ pc = "broken")
=============================================================================
