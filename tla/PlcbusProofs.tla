------------------------------ MODULE PlcbusProofs ------------------------------
(***************************************************************************)
(* Proofs about Plcbus, for any units, questions at the start, number of   *)
(* repetitions and traffic.                                                *)
(***************************************************************************)
EXTENDS Plcbus, SequenceTheorems, TLAPS

Frames == [type : {"ack", "ids", "skip"}, unit : Units, of : Jobs \union {0}]
Makes == [unit : Units, kind : Kinds]
Reasons == Jobs \union {Here, Stray, Tried}

(* All state has its type.                                                   *)
TypeOK ==
    /\ jobs \in Seq(Makes)
    /\ queue \in Seq(Jobs)
    /\ sendcount \in Seq(0 .. MaxRepeats + 1) /\ Len(sendcount) = Len(jobs)
    /\ gone \in Seq(Reasons) /\ Len(gone) = Len(jobs)
    /\ pc \in {"read", "send", "broken"}
    /\ air \in Seq(Jobs)
    /\ line \in Seq(Frames)
    /\ started \in 0 .. Len(Startup) /\ commands \in 0 .. MaxCommands /\ noise \in 0 .. MaxNoise

\* Jobs leave the queue in order; one is given up after its last try only.
Fifo == \A j, k \in Jobs : gone[j] = Here /\ j < k => gone[k] = Here
Tries ==
    \A j \in Jobs :
        /\ gone[j] = Tried => sendcount[j] > 1
        /\ gone[j] = Here => sendcount[j] <= MaxRepeats

\* An answer on its way belongs to a job that was sent, and to one that was
\* sent again if the job has been answered already.
AirSent ==
    \A k \in DOMAIN air :
        /\ sendcount[air[k]] > 0
        /\ gone[air[k]] = air[k] => sendcount[air[k]] > 1
LineSent ==
    \A k \in DOMAIN line :
        /\ line[k].of = 0 => noise > 0
        /\ line[k].of # 0 =>
            /\ line[k] = Answer(line[k].of)
            /\ sendcount[line[k].of] > 0
            /\ gone[line[k].of] = line[k].of => sendcount[line[k].of] > 1

\* Two answers to one job are on their way only if it was sent again.
AirTwice ==
    \A k, l \in DOMAIN air : k # l /\ air[k] = air[l] => sendcount[air[k]] > 1
LineTwice ==
    \A k, l \in DOMAIN line :
        k # l /\ line[k].of = line[l].of /\ line[k].of # 0 => sendcount[line[k].of] > 1
BothTwice ==
    \A k \in DOMAIN air, l \in DOMAIN line : air[k] = line[l].of => sendcount[air[k]] > 1

Answers == AirSent /\ LineSent /\ AirTwice /\ LineTwice /\ BothTwice

Inv == TypeOK /\ InOrder /\ Fifo /\ Tries /\ Answers /\ SurplusOnly /\ BrokenBySurplus
-----------------------------------------------------------------------------
\* Next, action by action.
LEMMA Cases ==
    ASSUME [Next]_vars
    PROVE  \/ Start
           \/ \E u \in Units : CommandHandler(u)
           \/ ReadAck \/ ReadIds \/ ReadSkip \/ ReadTimeout \/ Send \/ SendNothing
           \/ Reply \/ Traffic
           \/ UNCHANGED vars
BY DEF Next, Receiver

\* What Tail and Append do, and that a sequence may have wider elements.
LEMMA TailIs ==
    ASSUME NEW S, NEW s \in Seq(S), s # << >>
    PROVE  /\ Head(s) \in S /\ Head(s) = s[1] /\ 1 \in DOMAIN s
           /\ Tail(s) \in Seq(S) /\ Len(Tail(s)) = Len(s) - 1
           /\ \A n \in DOMAIN Tail(s) : Tail(s)[n] = s[n + 1] /\ n + 1 \in DOMAIN s
           /\ \A n \in DOMAIN s : n > 1 => n - 1 \in DOMAIN Tail(s) /\ Tail(s)[n - 1] = s[n]
OBVIOUS

LEMMA AppendIs ==
    ASSUME NEW S, NEW s \in Seq(S), NEW e \in S
    PROVE  /\ Append(s, e) \in Seq(S) /\ Len(Append(s, e)) = Len(s) + 1
           /\ DOMAIN Append(s, e) = DOMAIN s \union {Len(s) + 1}
           /\ \A n \in DOMAIN s : Append(s, e)[n] = s[n]
           /\ Append(s, e)[Len(s) + 1] = e
OBVIOUS

LEMMA Wider == ASSUME NEW S, NEW T, S \subseteq T, NEW s \in Seq(S) PROVE s \in Seq(T)
OBVIOUS

LEMMA ElementsIs ==
    ASSUME NEW S, NEW s \in Seq(S)
    PROVE  DOMAIN s = 1 .. Len(s) /\ Len(s) \in Nat /\ \A n \in DOMAIN s : s[n] \in S
OBVIOUS

LEMMA ChangeIs ==
    ASSUME NEW S, NEW s \in Seq(S), NEW i \in DOMAIN s, NEW e \in S
    PROVE  /\ [s EXCEPT ![i] = e] \in Seq(S) /\ Len([s EXCEPT ![i] = e]) = Len(s)
           /\ [s EXCEPT ![i] = e][i] = e
           /\ \A j \in DOMAIN s : j # i => [s EXCEPT ![i] = e][j] = s[j]
OBVIOUS

\* The records of the jobs have the same length.
LEMMA Lengths ==
    ASSUME TypeOK
    PROVE  /\ Jobs = 1 .. Len(jobs) /\ Len(jobs) \in Nat
           /\ DOMAIN sendcount = Jobs /\ DOMAIN gone = Jobs
           /\ \A n \in DOMAIN queue : queue[n] \in Jobs
           /\ \A j \in Jobs : sendcount[j] \in 0 .. MaxRepeats + 1 /\ gone[j] \in Reasons
<1>1. Jobs = 1 .. Len(jobs) /\ Len(jobs) \in Nat
  BY DEF TypeOK, Jobs
<1>2. DOMAIN sendcount = Jobs /\ \A j \in Jobs : sendcount[j] \in 0 .. MaxRepeats + 1
  BY <1>1, ElementsIs DEF TypeOK
<1>3. DOMAIN gone = Jobs /\ \A j \in Jobs : gone[j] \in Reasons
  BY <1>1, ElementsIs DEF TypeOK
<1>4. \A n \in DOMAIN queue : queue[n] \in Jobs
  BY ElementsIs DEF TypeOK
<1> QED BY <1>1, <1>2, <1>3, <1>4

LEMMA KindIs ==
    ASSUME TypeOK, NEW j \in Jobs
    PROVE  jobs[j].unit \in Units /\ jobs[j].kind \in {"set", "ids"}
<1>1. jobs[j] \in Makes
  BY ElementsIs DEF TypeOK, Jobs
<1> QED BY <1>1 DEF Makes, Kinds

\* A new job.
LEMMA PushTypes ==
    ASSUME TypeOK, NEW u \in Units, NEW k \in Kinds, Push(u, k)
    PROVE  /\ Jobs' = Jobs \union {Len(jobs) + 1} /\ Len(jobs) + 1 \notin Jobs
           /\ \A j \in Jobs : /\ jobs'[j] = jobs[j] /\ sendcount'[j] = sendcount[j]
                              /\ gone'[j] = gone[j]
           /\ sendcount'[Len(jobs) + 1] = 0 /\ gone'[Len(jobs) + 1] = Here
           /\ jobs'[Len(jobs) + 1] = [unit |-> u, kind |-> k]
           /\ jobs' \in Seq(Makes) /\ Len(jobs') = Len(jobs) + 1
           /\ queue' \in Seq(Jobs')
           /\ sendcount' \in Seq(0 .. MaxRepeats + 1) /\ Len(sendcount') = Len(jobs')
           /\ gone' \in Seq(Reasons') /\ Len(gone') = Len(jobs')
           /\ air' \in Seq(Jobs')
           /\ line' \in Seq(Frames')
<1> DEFINE n == Len(jobs) + 1
<1>1. Jobs = 1 .. Len(jobs) /\ Len(jobs) \in Nat
  BY Lengths
<1>2. jobs \in Seq(Makes) /\ [unit |-> u, kind |-> k] \in Makes
  BY DEF TypeOK, Makes
<1>3. jobs' = Append(jobs, [unit |-> u, kind |-> k])
  BY DEF Push
<1>4. jobs' \in Seq(Makes) /\ Len(jobs') = n /\ \A j \in Jobs : jobs'[j] = jobs[j]
  BY <1>1, <1>2, <1>3, AppendIs DEF Jobs
<1>5. Jobs' = Jobs \union {n} /\ n \notin Jobs
  BY <1>1, <1>2, <1>3, AppendIs DEF Jobs
<1>6. jobs'[n] = [unit |-> u, kind |-> k]
  BY <1>2, <1>3, AppendIs
<1>7. queue' \in Seq(Jobs')
  <2>1. queue \in Seq(Jobs')
    BY <1>5, Wider DEF TypeOK
  <2> QED BY <2>1, <1>5, AppendIs DEF Push
<1>8. air' \in Seq(Jobs')
  BY <1>5, Wider DEF TypeOK, Push, input
<1>9. line' \in Seq(Frames')
  <2>1. Frames \subseteq Frames'
    BY <1>5 DEF Frames
  <2> QED BY <2>1, Wider DEF TypeOK, Push, input
<1>10. /\ sendcount' \in Seq(0 .. MaxRepeats + 1) /\ Len(sendcount') = n
       /\ sendcount'[n] = 0
       /\ \A j \in Jobs : sendcount'[j] = sendcount[j]
  <2>1. sendcount \in Seq(0 .. MaxRepeats + 1) /\ Len(sendcount) = Len(jobs) /\ DOMAIN sendcount = Jobs
    BY Lengths DEF TypeOK
  <2>2. 0 \in 0 .. MaxRepeats + 1
    BY PlcbusAssumption
  <2>3. sendcount' = Append(sendcount, 0)
    BY DEF Push
  <2> QED BY <2>1, <2>2, <2>3, AppendIs
<1>11. /\ gone' \in Seq(Reasons') /\ Len(gone') = n
       /\ gone'[n] = Here
       /\ \A j \in Jobs : gone'[j] = gone[j]
  <2>1. Reasons \subseteq Reasons' /\ Here \in Reasons'
    BY <1>5 DEF Reasons
  <2>2. gone \in Seq(Reasons') /\ Len(gone) = Len(jobs) /\ DOMAIN gone = Jobs
    BY <2>1, Wider, Lengths DEF TypeOK
  <2>3. gone' = Append(gone, Here)
    BY DEF Push
  <2> QED BY <2>1, <2>2, <2>3, AppendIs
<1> QED BY <1>4, <1>5, <1>6, <1>7, <1>8, <1>9, <1>10, <1>11

\* The constants that are no job.
LEMMA Marks ==
    ASSUME TypeOK
    PROVE  /\ Here \notin Jobs /\ Stray \notin Jobs /\ Tried \notin Jobs /\ 0 \notin Jobs
           /\ Here # Stray /\ Here # Tried /\ Here # 0 /\ Stray # Tried /\ Jobs \subseteq Nat
           /\ MaxRepeats \in Nat /\ MaxRepeats > 0 /\ MaxNoise \in Nat /\ MaxCommands \in Nat
<1>1. Jobs \subseteq Nat /\ 0 \notin Jobs
  BY Lengths
<1>2. {Here, Stray, Tried} \intersect Nat = {} /\ Here \notin {Stray, Tried} /\ 0 \in Nat /\ Stray # Tried
  BY PlcbusAssumption
<1>3. Here \notin Nat /\ Stray \notin Nat /\ Tried \notin Nat
  BY <1>2
<1>4. MaxRepeats \in Nat /\ MaxRepeats > 0 /\ MaxNoise \in Nat /\ MaxCommands \in Nat
  BY PlcbusAssumption
<1> QED BY <1>1, <1>2, <1>3, <1>4

\* The front is the oldest job and, unless it was sent again, the only one sent.
LEMMA Front ==
    ASSUME Inv, queue # << >>
    PROVE  /\ Head(queue) \in Jobs /\ gone[Head(queue)] = Here
           /\ \A j \in Jobs : gone[j] = Here /\ j # Head(queue) =>
                  j > Head(queue) /\ sendcount[j] = 0
<1>1. queue \in Seq(Jobs) /\ TypeOK
  BY DEF Inv, TypeOK
<1>2. Head(queue) = queue[1] /\ 1 \in DOMAIN queue /\ Head(queue) \in Jobs /\ DOMAIN queue = 1 .. Len(queue)
  BY <1>1, TailIs, ElementsIs
<1>3. gone[Head(queue)] = Here
  BY <1>2 DEF Inv, InOrder
<1>4. ASSUME NEW j \in Jobs, gone[j] = Here, j # Head(queue)
      PROVE  j > Head(queue) /\ sendcount[j] = 0
  <2>1. PICK n \in DOMAIN queue : queue[n] = j
    BY <1>4 DEF Inv, InOrder
  <2>2. 1 < n
    BY <1>2, <1>4, <2>1
  <2>3. queue[1] < queue[n] /\ sendcount[queue[n]] = 0
    BY <1>2, <2>2 DEF Inv, InOrder
  <2>4. Head(queue) \in Nat /\ j \in Nat
    BY <1>1, <1>2, Marks
  <2> QED BY <1>2, <2>1, <2>3, <2>4
<1> QED BY <1>2, <1>3, <1>4

\* What is left when the front goes.
LEMMA PopIs ==
    ASSUME Inv, queue # << >>, NEW why \in Reasons \ {Here}, Pop(why)
    PROVE  /\ queue' \in Seq(Jobs)
           /\ gone' \in Seq(Reasons) /\ Len(gone') = Len(jobs)
           /\ gone'[Head(queue)] = why
           /\ \A j \in Jobs : j # Head(queue) => gone'[j] = gone[j]
           /\ \A m, n \in DOMAIN queue' : m < n => queue'[m] < queue'[n]
           /\ \A n \in DOMAIN queue' : queue'[n] # Head(queue) /\ sendcount[queue'[n]] = 0
           /\ \A j \in Jobs : gone'[j] = Here <=> \E n \in DOMAIN queue' : queue'[n] = j
           /\ \A j, k \in Jobs : gone'[j] = Here /\ j < k => gone'[k] = Here
<1> DEFINE q == Head(queue)
<1>1. TypeOK /\ queue \in Seq(Jobs) /\ gone \in Seq(Reasons) /\ Len(gone) = Len(jobs)
  BY DEF Inv, TypeOK
<1>2. q \in Jobs /\ gone[q] = Here /\ \A j \in Jobs : gone[j] = Here /\ j # q => j > q /\ sendcount[j] = 0
  BY Front
<1>3. queue' = Tail(queue) /\ gone' = [gone EXCEPT ![q] = why]
  BY DEF Pop
<1> HIDE DEF q
<1>4. DOMAIN gone = Jobs /\ Jobs = 1 .. Len(jobs) /\ Jobs \subseteq Nat
  BY <1>1, Lengths
<1>5. gone'[q] = why /\ \A j \in Jobs : j # q => gone'[j] = gone[j]
  BY <1>2, <1>3, <1>4
<1>6. gone' \in Seq(Reasons) /\ Len(gone') = Len(jobs)
  BY <1>1, <1>2, <1>3, <1>4, ChangeIs
<1>7. /\ queue' \in Seq(Jobs)
      /\ \A n \in DOMAIN queue' : queue'[n] = queue[n + 1] /\ n + 1 \in DOMAIN queue
      /\ \A n \in DOMAIN queue : n > 1 => n - 1 \in DOMAIN queue' /\ queue'[n - 1] = queue[n]
  BY <1>1, <1>3, TailIs
<1>8. DOMAIN queue' \subseteq Nat \ {0} /\ DOMAIN queue \subseteq Nat \ {0} /\ queue[1] = q /\ 1 \in DOMAIN queue
  BY <1>1, <1>7, TailIs, ElementsIs DEF q
<1>9. \A m, n \in DOMAIN queue : m < n => queue[m] < queue[n] /\ sendcount[queue[n]] = 0
  BY DEF Inv, InOrder
<1>10. \A m, n \in DOMAIN queue' : m < n => queue'[m] < queue'[n]
  BY <1>7, <1>8, <1>9
<1>11. \A n \in DOMAIN queue' : queue'[n] # q /\ sendcount[queue'[n]] = 0 /\ queue'[n] \in Jobs
  <2> TAKE n \in DOMAIN queue'
  <2>1. queue'[n] = queue[n + 1] /\ n + 1 \in DOMAIN queue /\ 1 < n + 1
    BY <1>7, <1>8
  <2>2. queue[1] < queue[n + 1] /\ sendcount[queue[n + 1]] = 0
    BY <1>8, <1>9, <2>1
  <2>3. queue'[n] \in Jobs /\ queue'[n] \in Nat /\ q \in Nat
    BY <1>2, <1>4, <1>7, ElementsIs
  <2> QED BY <1>8, <2>1, <2>2, <2>3
<1>12. \A j \in Jobs : gone'[j] = Here <=> \E n \in DOMAIN queue' : queue'[n] = j
  <2> TAKE j \in Jobs
  <2>1. ASSUME gone'[j] = Here PROVE \E n \in DOMAIN queue' : queue'[n] = j
    <3>1. j # q /\ gone[j] = Here
      BY <1>5, <2>1
    <3>2. PICK n \in DOMAIN queue : queue[n] = j
      BY <3>1 DEF Inv, InOrder
    <3>3. n > 1
      BY <1>8, <3>1, <3>2
    <3> QED BY <1>7, <3>2, <3>3
  <2>2. ASSUME NEW n \in DOMAIN queue', queue'[n] = j PROVE gone'[j] = Here
    <3>1. j # q
      BY <1>11, <2>2
    <3>2. gone[j] = Here
      BY <1>7, <2>2 DEF Inv, InOrder
    <3> QED BY <1>5, <3>1, <3>2
  <2> QED BY <2>1, <2>2
<1>13. \A j, k \in Jobs : gone'[j] = Here /\ j < k => gone'[k] = Here
  <2> SUFFICES ASSUME NEW j \in Jobs, NEW k \in Jobs, gone'[j] = Here, j < k PROVE gone'[k] = Here
    OBVIOUS
  <2>1. j # q /\ gone[j] = Here
    BY <1>5
  <2>2. j > q
    BY <1>2, <2>1
  <2>3. k # q
    BY <1>2, <1>4, <2>2
  <2>4. gone[k] = Here
    BY <2>1 DEF Inv, Fifo
  <2> QED BY <1>5, <2>3, <2>4
<1> QED BY <1>5, <1>6, <1>7, <1>10, <1>11, <1>12, <1>13 DEF q

\* What an answer says about the job it belongs to when it is read: the job has
\* left the queue or is its front.
LEMMA Known ==
    ASSUME Inv, line # << >>
    PROVE  LET f == Head(line)
           IN  /\ f \in Frames /\ f = line[1] /\ 1 \in DOMAIN line
               /\ f.of = 0 => noise > 0
               /\ f.of # 0 =>
                   /\ f = Answer(f.of) /\ f.of \in Jobs
                   /\ gone[f.of] = f.of => sendcount[f.of] > 1
                   /\ gone[f.of] = Here => queue # << >> /\ f.of = Head(queue)
<1> DEFINE f == Head(line)
<1>1. TypeOK /\ line \in Seq(Frames)
  BY DEF Inv, TypeOK
<1>2. f \in Frames /\ f = line[1] /\ 1 \in DOMAIN line
  BY <1>1, TailIs
<1>3. f.of \in Jobs \union {0}
  BY <1>2 DEF Frames
<1> HIDE DEF f
<1>4. /\ f.of = 0 => noise > 0
      /\ f.of # 0 => f = Answer(f.of) /\ sendcount[f.of] > 0 /\ (gone[f.of] = f.of => sendcount[f.of] > 1)
  BY <1>2 DEF Inv, Answers, LineSent
<1>5. ASSUME f.of # 0, gone[f.of] = Here PROVE queue # << >> /\ f.of = Head(queue)
  <2>1. f.of \in Jobs /\ sendcount[f.of] > 0
    BY <1>3, <1>4, <1>5
  <2>2. PICK n \in DOMAIN queue : queue[n] = f.of
    BY <1>5, <2>1 DEF Inv, InOrder
  <2>3. queue # << >>
    BY <2>2
  <2>4. sendcount[f.of] # 0
    BY <1>1, <2>1, Lengths
  <2> QED BY <1>5, <2>1, <2>3, <2>4, Front
<1> QED BY <1>2, <1>3, <1>4, <1>5 DEF f

\* The step of ReadAck and ReadIds, with or without a job that leaves.
Taken ==
    /\ line # << >> /\ line' = Tail(line)
    /\ UNCHANGED <<jobs, sendcount, air, noise, users>>
    /\ \/ UNCHANGED <<queue, gone>>
       \/ /\ queue # << >> /\ Pop(Why(Head(line)))
          /\ Head(line).type = "ids" \/ jobs[Head(queue)].unit = Head(line).unit

LEMMA TakenGone ==
    ASSUME Inv, Taken
    PROVE  /\ queue' \in Seq(Jobs) /\ gone' \in Seq(Reasons) /\ Len(gone') = Len(jobs)
           /\ InOrder' /\ Fifo' /\ Tries'
           /\ \A j \in Jobs : gone[j] # Here => gone'[j] = gone[j]
           /\ \A j \in Jobs : gone'[j] = j => gone[j] = j \/ Head(line).of = j
           /\ \A j \in Jobs : gone'[j] # gone[j] =>
                  /\ queue # << >> /\ j = Head(queue) /\ gone'[j] = Why(Head(line))
                  /\ Head(line).type = "ids" \/ jobs[j].unit = Head(line).unit
<1>1. TypeOK /\ DOMAIN gone = Jobs
  BY Lengths DEF Inv
<1>2. Jobs' = Jobs /\ sendcount' = sendcount
  BY DEF Taken, Jobs
<1>3. CASE UNCHANGED <<queue, gone>>
  <2>1. InOrder' /\ Fifo' /\ Tries'
    BY <1>2, <1>3 DEF Inv, InOrder, Fifo, Tries
  <2>2. queue' \in Seq(Jobs) /\ gone' \in Seq(Reasons) /\ Len(gone') = Len(jobs)
    BY <1>3 DEF Inv, TypeOK
  <2> QED BY <1>3, <2>1, <2>2
<1>4. CASE ~UNCHANGED <<queue, gone>>
  <2> DEFINE q == Head(queue) f == Head(line) why == Why(f)
  <2>1. /\ queue # << >> /\ Pop(why)
        /\ f.type = "ids" \/ jobs[q].unit = f.unit
    BY <1>4 DEF Taken
  <2>2. /\ f.of # 0 => f.of \in Jobs
        /\ line # << >>
    BY Known DEF Taken
  <2>3. why \in Reasons \ {Here} /\ why # Tried
    BY <1>1, <2>2, Marks DEF Why, Reasons
  <2>4. why = f.of \/ why = Stray
    BY DEF Why
  <2>5. q \in Jobs /\ gone[q] = Here
    BY <2>1, Front
  <2> HIDE DEF q, f, why
  <2>6. /\ queue' \in Seq(Jobs)
        /\ gone' \in Seq(Reasons) /\ Len(gone') = Len(jobs)
        /\ gone'[q] = why
        /\ \A j \in Jobs : j # q => gone'[j] = gone[j]
        /\ \A m, n \in DOMAIN queue' : m < n => queue'[m] < queue'[n]
        /\ \A n \in DOMAIN queue' : sendcount[queue'[n]] = 0
        /\ \A j \in Jobs : gone'[j] = Here <=> \E n \in DOMAIN queue' : queue'[n] = j
        /\ \A j, k \in Jobs : gone'[j] = Here /\ j < k => gone'[k] = Here
    BY <2>1, <2>3, PopIs DEF q
  <2>7. InOrder'
    BY <1>2, <2>6 DEF InOrder
  <2>8. Fifo'
    BY <1>2, <2>6 DEF Fifo
  <2>9. Tries'
    BY <1>2, <2>3, <2>6 DEF Tries, Inv
  <2>10. \A j \in Jobs : gone[j] # Here => gone'[j] = gone[j]
    BY <2>5, <2>6
  <2>11. \A j \in Jobs : gone'[j] = j => gone[j] = j \/ f.of = j
    <3>1. Stray \notin Jobs
      BY <1>1, Marks
    <3> QED BY <2>4, <2>5, <2>6, <3>1
  <2>12. \A j \in Jobs : gone'[j] # gone[j] =>
             queue # << >> /\ j = q /\ gone'[j] = why /\ (f.type = "ids" \/ jobs[j].unit = f.unit)
    BY <2>1, <2>6
  <2> QED BY <2>6, <2>7, <2>8, <2>9, <2>10, <2>11, <2>12 DEF q, f, why
<1> QED BY <1>3, <1>4

LEMMA TakenAnswers ==
    ASSUME Inv, Taken
    PROVE  Answers' /\ line' \in Seq(Frames)
<1> DEFINE f == Head(line)
<1>1. TypeOK /\ line \in Seq(Frames) /\ air \in Seq(Jobs)
  BY DEF Inv, TypeOK
<1>2. line # << >> /\ line' = Tail(line) /\ UNCHANGED <<jobs, sendcount, air, noise>>
  BY DEF Taken
<1>3. /\ line' \in Seq(Frames)
      /\ \A k \in DOMAIN line' : line'[k] = line[k + 1] /\ k + 1 \in DOMAIN line /\ k + 1 # 1
      /\ f = line[1] /\ 1 \in DOMAIN line
  <2>1. DOMAIN line' \subseteq Nat \ {0}
    BY <1>1, <1>2, TailIs, ElementsIs
  <2> QED BY <1>1, <1>2, <2>1, TailIs
<1>4. \A k \in DOMAIN air : air[k] \in Jobs
  BY <1>1, ElementsIs
<1>5. \A k \in DOMAIN line : line[k].of \in Jobs \union {0}
  <2>1. \A k \in DOMAIN line : line[k] \in Frames
    BY <1>1, ElementsIs
  <2> QED BY <2>1 DEF Frames
<1>6. \A j \in Jobs : gone'[j] = j => gone[j] = j \/ f.of = j
  BY TakenGone
<1>7. 0 \notin Jobs
  BY <1>1, Marks
<1> HIDE DEF f
<1>8. AirSent'
  <2>1. ASSUME NEW k \in DOMAIN air PROVE sendcount[air[k]] > 0
    BY DEF Inv, Answers, AirSent
  <2>2. ASSUME NEW k \in DOMAIN air, gone'[air[k]] = air[k] PROVE sendcount[air[k]] > 1
    <3>1. CASE gone[air[k]] = air[k]
      BY <3>1 DEF Inv, Answers, AirSent
    <3>2. CASE air[k] = f.of
      BY <1>3, <3>2 DEF Inv, Answers, BothTwice
    <3> QED BY <1>4, <1>6, <2>2, <3>1, <3>2
  <2> QED BY <1>2, <2>1, <2>2 DEF AirSent
<1>9. LineSent'
  <2>1. ASSUME NEW k \in DOMAIN line', line'[k].of = 0 PROVE noise > 0
    BY <1>3, <2>1 DEF Inv, Answers, LineSent
  <2>2. ASSUME NEW k \in DOMAIN line', line'[k].of # 0
        PROVE  /\ line'[k] = Answer(line'[k].of) /\ sendcount[line'[k].of] > 0
               /\ gone'[line'[k].of] = line'[k].of => sendcount[line'[k].of] > 1
    <3> DEFINE o == line'[k].of
    <3>1. o = line[k + 1].of /\ k + 1 \in DOMAIN line /\ k + 1 # 1 /\ line'[k] = line[k + 1]
      BY <1>3
    <3>2. o \in Jobs /\ o # 0
      BY <1>5, <2>2, <3>1
    <3> HIDE DEF o
    <3>3. line[k + 1] = Answer(o) /\ sendcount[o] > 0 /\ (gone[o] = o => sendcount[o] > 1)
      BY <3>1, <3>2 DEF Inv, Answers, LineSent
    <3>4. f.of = o => sendcount[o] > 1
      BY <1>3, <3>1, <3>2 DEF Inv, Answers, LineTwice
    <3>5. gone'[o] = o => sendcount[o] > 1
      BY <1>6, <3>2, <3>3, <3>4
    <3> QED BY <3>1, <3>3, <3>5 DEF o
  <2>3. \A j \in Jobs \union {0} : Answer(j)' = Answer(j)
    BY <1>2 DEF Answer
  <2>4. \A k \in DOMAIN line' : line'[k].of \in Jobs \union {0}
    BY <1>3, <1>5
  <2> QED BY <1>2, <2>1, <2>2, <2>3, <2>4 DEF LineSent, Answer
<1>10. AirTwice'
  BY <1>2 DEF Inv, Answers, AirTwice
<1>11. LineTwice'
  <2> SUFFICES ASSUME NEW k \in DOMAIN line', NEW l \in DOMAIN line', k # l,
                      line'[k].of = line'[l].of, line'[k].of # 0
               PROVE  sendcount[line'[k].of] > 1
    BY <1>2 DEF LineTwice
  <2>1. k + 1 # l + 1
    BY <1>1, <1>2, <1>3, ElementsIs
  <2> QED BY <1>3, <2>1 DEF Inv, Answers, LineTwice
<1>12. BothTwice'
  BY <1>2, <1>3 DEF Inv, Answers, BothTwice
<1> QED BY <1>3, <1>8, <1>9, <1>10, <1>11, <1>12 DEF Answers

\* A job that leaves for another's answer: that one is older, was for the same
\* unit or a question, and was sent again or had left before.
LEMMA TakenSurplus ==
    ASSUME Inv, Taken
    PROVE  SurplusOnly'
<1>1. Jobs' = Jobs /\ jobs' = jobs /\ sendcount' = sendcount
  BY DEF Taken, Jobs
<1>2. TypeOK
  BY DEF Inv
<1> SUFFICES ASSUME NEW j \in Jobs, gone'[j] \in Jobs \ {j}
             PROVE  LET o == gone'[j]
                    IN  /\ o < j
                        /\ jobs[o].unit = jobs[j].unit \/ jobs[o].kind = "ids"
                        /\ sendcount[o] > 1 \/ gone'[o] \in {Stray} \union (Jobs \ {o})
  BY <1>1 DEF SurplusOnly
<1> DEFINE o == gone'[j] f == Head(line) q == Head(queue)
<1>3. o \in Jobs /\ o # j
  OBVIOUS
<1>4. ASSUME gone[o] # Here, sendcount[o] > 1 \/ gone[o] \in {Stray} \union (Jobs \ {o})
      PROVE  sendcount[o] > 1 \/ gone'[o] \in {Stray} \union (Jobs \ {o})
  BY <1>3, <1>4, TakenGone
<1>5. CASE gone'[j] = gone[j]
  <2>1. /\ o < j
        /\ jobs[o].unit = jobs[j].unit \/ jobs[o].kind = "ids"
        /\ sendcount[o] > 1 \/ gone[o] \in {Stray} \union (Jobs \ {o})
    BY <1>3, <1>5 DEF Inv, SurplusOnly
  <2>2. gone[o] \in {Stray} \union (Jobs \ {o}) => gone[o] # Here
    BY <1>2, Marks
  <2> QED BY <1>4, <2>1, <2>2
<1>6. CASE gone'[j] # gone[j]
  <2>1. /\ queue # << >> /\ j = q /\ o = Why(f)
        /\ f.type = "ids" \/ jobs[j].unit = f.unit
    BY <1>6, TakenGone
  <2>2. f.of # 0 /\ o = f.of
    <3>1. Stray \notin Jobs
      BY <1>2, Marks
    <3> QED BY <1>3, <2>1, <3>1 DEF Why
  <2>3. /\ f = Answer(o)
        /\ gone[o] = o => sendcount[o] > 1
        /\ gone[o] = Here => o = q
    BY <2>2, Known DEF Taken
  <2>4. gone[o] # Here
    BY <1>3, <2>1, <2>3
  <2>5. o < j
    <3>1. gone[q] = Here /\ q \in Jobs
      BY <2>1, Front
    <3>2. ~(q < o)
      BY <1>3, <2>4, <3>1 DEF Inv, Fifo
    <3>3. q \in Nat /\ o \in Nat
      BY <1>2, <1>3, <3>1, Marks
    <3> QED BY <1>3, <2>1, <3>2, <3>3
  <2>6. jobs[o].unit = jobs[j].unit \/ jobs[o].kind = "ids"
    <3>1. /\ f.unit = jobs[o].unit
          /\ f.type = IF jobs[o].kind = "set" THEN "ack" ELSE "ids"
      BY <2>3 DEF Answer
    <3>2. jobs[o].kind \in {"set", "ids"}
      BY <1>2, <1>3, KindIs
    <3> QED BY <2>1, <3>1, <3>2
  <2>7. sendcount[o] > 1 \/ gone[o] \in {Stray} \union (Jobs \ {o})
    <3>1. gone[o] \in Reasons
      BY <1>2, <1>3, Lengths
    <3>2. gone[o] = Tried => sendcount[o] > 1
      <4> HIDE DEF o
      <4> QED BY <1>3 DEF Inv, Tries
    <3> QED BY <2>3, <2>4, <3>1, <3>2 DEF Reasons
  <2> QED BY <1>4, <2>4, <2>5, <2>6, <2>7
<1> QED BY <1>5, <1>6

LEMMA TakenInv ==
    ASSUME Inv, Taken, pc = "read", pc' \in {"read", "send", "broken"},
           pc' = "broken" => queue = << >> /\ Head(line).type = "ids" /\ UNCHANGED gone
    PROVE  Inv'
<1>1. Jobs' = Jobs /\ UNCHANGED <<jobs, sendcount, air, noise, users>>
  BY DEF Taken, Jobs
<1>2. Frames' = Frames /\ Reasons' = Reasons
  BY <1>1 DEF Frames, Reasons
<1>3. TypeOK'
  BY <1>1, <1>2, TakenGone, TakenAnswers DEF Inv, TypeOK, users
<1>4. BrokenBySurplus'
  <2> SUFFICES ASSUME pc' = "broken"
               PROVE  \/ noise > 0
                      \/ \E o \in Jobs : jobs[o].kind = "ids" /\ (sendcount[o] > 1 \/ gone[o] # o)
    BY <1>1 DEF BrokenBySurplus
  <2> DEFINE f == Head(line)
  <2>1. CASE f.of = 0
    BY <2>1, Known DEF Taken
  <2>2. CASE f.of # 0
    <3>1. f = Answer(f.of) /\ f.of \in Jobs /\ (gone[f.of] = f.of => sendcount[f.of] > 1)
      BY <2>2, Known DEF Taken
    <3>2. f.type = IF jobs[f.of].kind = "set" THEN "ack" ELSE "ids"
      BY <3>1 DEF Answer
    <3>3. jobs[f.of].kind \in {"set", "ids"}
      BY <3>1, KindIs DEF Inv
    <3> QED BY <3>1, <3>2, <3>3
  <2> QED BY <2>1, <2>2
<1> QED BY <1>3, <1>4, TakenGone, TakenAnswers, TakenSurplus DEF Inv

\* What a send does to counts and queue.
LEMMA SendIs ==
    ASSUME Inv, Send
    PROVE  LET q == Head(queue)
           IN  /\ q \in Jobs /\ gone[q] = Here
               /\ sendcount' \in Seq(0 .. MaxRepeats + 1) /\ Len(sendcount') = Len(jobs)
               /\ sendcount'[q] = sendcount[q] + 1
               /\ \A j \in Jobs : j # q => sendcount'[j] = sendcount[j]
               /\ queue' \in Seq(Jobs) /\ gone' \in Seq(Reasons) /\ Len(gone') = Len(jobs)
               /\ \A j \in Jobs : j # q => gone'[j] = gone[j]
               /\ \/ gone'[q] = Here /\ sendcount'[q] <= MaxRepeats
                  \/ gone'[q] = Tried /\ sendcount'[q] > 1
               /\ \A m, n \in DOMAIN queue' : m < n => queue'[m] < queue'[n] /\ sendcount'[queue'[n]] = 0
               /\ \A j \in Jobs : gone'[j] = Here <=> \E n \in DOMAIN queue' : queue'[n] = j
               /\ \A j, k \in Jobs : gone'[j] = Here /\ j < k => gone'[k] = Here
<1> DEFINE q == Head(queue)
<1>1. TypeOK /\ queue # << >>
  BY DEF Inv, Send
<1>2. q \in Jobs /\ gone[q] = Here /\ \A j \in Jobs : gone[j] = Here /\ j # q => j > q /\ sendcount[j] = 0
  BY <1>1, Front
<1>3. sendcount' = [sendcount EXCEPT ![q] = sendcount[q] + 1]
  BY DEF Send
<1>4. IF LastTry(q) THEN Pop(Tried) ELSE UNCHANGED <<queue, gone>>
  BY DEF Send
<1> HIDE DEF q
<1>5. /\ DOMAIN sendcount = Jobs /\ sendcount[q] \in Nat /\ sendcount[q] <= MaxRepeats
      /\ MaxRepeats \in Nat /\ MaxRepeats > 0
  BY <1>1, <1>2, Lengths, Marks DEF Inv, Tries
<1>6. sendcount[q] + 1 \in 0 .. MaxRepeats + 1
  BY <1>5
<1>7. sendcount' \in Seq(0 .. MaxRepeats + 1) /\ Len(sendcount') = Len(jobs)
  BY <1>1, <1>2, <1>3, <1>5, <1>6, ChangeIs DEF TypeOK
<1>8. sendcount'[q] = sendcount[q] + 1 /\ \A j \in Jobs : j # q => sendcount'[j] = sendcount[j]
  BY <1>2, <1>3, <1>5
<1>9. CASE LastTry(q)
  <2>1. Pop(Tried) /\ sendcount[q] + 1 > MaxRepeats
    BY <1>4, <1>9 DEF LastTry
  <2>2. Tried \in Reasons \ {Here}
    BY <1>1, Marks DEF Reasons
  <2>3. /\ queue' \in Seq(Jobs)
        /\ gone' \in Seq(Reasons) /\ Len(gone') = Len(jobs)
        /\ gone'[q] = Tried
        /\ \A j \in Jobs : j # q => gone'[j] = gone[j]
        /\ \A m, n \in DOMAIN queue' : m < n => queue'[m] < queue'[n]
        /\ \A n \in DOMAIN queue' : queue'[n] # q /\ sendcount[queue'[n]] = 0
        /\ \A j \in Jobs : gone'[j] = Here <=> \E n \in DOMAIN queue' : queue'[n] = j
        /\ \A j, k \in Jobs : gone'[j] = Here /\ j < k => gone'[k] = Here
    BY <1>1, <2>1, <2>2, PopIs DEF q
  <2>4. \A n \in DOMAIN queue' : queue'[n] \in Jobs /\ sendcount'[queue'[n]] = 0
    BY <1>8, <2>3, ElementsIs
  <2>5. sendcount'[q] > 1
    BY <1>5, <1>8, <2>1
  <2> QED BY <1>2, <1>7, <1>8, <2>3, <2>4, <2>5 DEF q
<1>10. CASE ~LastTry(q)
  <2>1. UNCHANGED <<queue, gone>> /\ sendcount'[q] <= MaxRepeats
    BY <1>4, <1>5, <1>8, <1>10 DEF LastTry
  <2>2. gone'[q] = Here
    BY <1>2, <2>1
  <2>3. \A m, n \in DOMAIN queue' : m < n => queue'[m] < queue'[n] /\ sendcount'[queue'[n]] = 0
    <3> SUFFICES ASSUME NEW m \in DOMAIN queue, NEW n \in DOMAIN queue, m < n
                 PROVE  queue[m] < queue[n] /\ sendcount'[queue[n]] = 0
      BY <2>1
    <3>1. queue[m] < queue[n] /\ sendcount[queue[n]] = 0 /\ queue[n] \in Jobs /\ queue[m] \in Jobs
      BY <1>1, Lengths DEF Inv, InOrder
    <3>2. queue[1] = q /\ 1 \in DOMAIN queue /\ 1 < n
      BY <1>1, TailIs, ElementsIs DEF TypeOK, q
    <3>3. queue[1] < queue[n]
      BY <3>2 DEF Inv, InOrder
    <3>4. queue[n] # q
      BY <1>1, <1>2, <3>1, <3>2, <3>3, Marks
    <3> QED BY <1>8, <3>1, <3>4
  <2>4. /\ \A j \in Jobs : gone'[j] = Here <=> \E n \in DOMAIN queue' : queue'[n] = j
        /\ \A j, k \in Jobs : gone'[j] = Here /\ j < k => gone'[k] = Here
    BY <2>1 DEF Inv, InOrder, Fifo
  <2>5. queue' \in Seq(Jobs) /\ gone' \in Seq(Reasons) /\ Len(gone') = Len(jobs)
    BY <1>1, <2>1 DEF TypeOK
  <2> QED BY <1>2, <1>7, <1>8, <2>1, <2>2, <2>3, <2>4, <2>5 DEF q
<1> QED BY <1>9, <1>10

LEMMA SendInv ==
    ASSUME Inv, Send
    PROVE  Inv'
<1> DEFINE q == Head(queue)
<1>1. TypeOK /\ air \in Seq(Jobs) /\ Jobs' = Jobs /\ UNCHANGED <<jobs, noise, users>>
  BY DEF Inv, TypeOK, Send, Jobs
<1>2. line' = << >> /\ pc' = "read" /\ air' \in {air, Append(air, q)}
  BY DEF Send
<1>3. /\ q \in Jobs /\ gone[q] = Here
      /\ sendcount' \in Seq(0 .. MaxRepeats + 1) /\ Len(sendcount') = Len(jobs)
      /\ sendcount'[q] = sendcount[q] + 1
      /\ \A j \in Jobs : j # q => sendcount'[j] = sendcount[j]
      /\ queue' \in Seq(Jobs) /\ gone' \in Seq(Reasons) /\ Len(gone') = Len(jobs)
      /\ \A j \in Jobs : j # q => gone'[j] = gone[j]
      /\ \/ gone'[q] = Here /\ sendcount'[q] <= MaxRepeats
         \/ gone'[q] = Tried /\ sendcount'[q] > 1
      /\ \A m, n \in DOMAIN queue' : m < n => queue'[m] < queue'[n] /\ sendcount'[queue'[n]] = 0
      /\ \A j \in Jobs : gone'[j] = Here <=> \E n \in DOMAIN queue' : queue'[n] = j
      /\ \A j, k \in Jobs : gone'[j] = Here /\ j < k => gone'[k] = Here
  BY SendIs
<1> HIDE DEF q
<1>4. \A j \in Jobs : sendcount[j] \in Nat /\ sendcount'[j] >= sendcount[j] /\ sendcount'[j] \in Nat
  <2>1. \A j \in Jobs : sendcount[j] \in 0 .. MaxRepeats + 1
    BY <1>1, Lengths
  <2>2. \A j \in Jobs : sendcount[j] \in Nat
    BY <1>1, <2>1, Marks
  <2> QED BY <1>3, <2>2
<1>5. Here \notin Jobs /\ Tried \notin Jobs /\ Stray \notin Jobs /\ Here # Tried /\ Here # Stray
  BY <1>1, Marks
<1>6. /\ air' \in Seq(Jobs)
      /\ \A k \in DOMAIN air' : (k \in DOMAIN air /\ air'[k] = air[k]) \/ (k = Len(air) + 1 /\ air'[k] = q)
  <2>1. DOMAIN Append(air, q) = DOMAIN air \union {Len(air) + 1} /\ Append(air, q) \in Seq(Jobs)
    BY <1>1, <1>3, AppendIs
  <2>2. Append(air, q)[Len(air) + 1] = q /\ \A k \in DOMAIN air : Append(air, q)[k] = air[k]
    BY <1>1, <1>3, AppendIs
  <2>3. CASE air' = air
    BY <1>1, <2>3
  <2>4. CASE air' = Append(air, q)
    BY <2>1, <2>2, <2>4
  <2> QED BY <1>2, <2>3, <2>4
<1>7. \A k \in DOMAIN air : air[k] \in Jobs /\ sendcount[air[k]] > 0
  BY <1>1, ElementsIs DEF Inv, Answers, AirSent
<1>8. InOrder' /\ Fifo'
  BY <1>1, <1>3 DEF InOrder, Fifo
<1>9. Tries'
  <2> SUFFICES ASSUME NEW j \in Jobs
               PROVE  /\ gone'[j] = Tried => sendcount'[j] > 1
                      /\ gone'[j] = Here => sendcount'[j] <= MaxRepeats
    BY <1>1 DEF Tries
  <2>1. CASE j = q
    BY <1>3, <1>5, <2>1
  <2>2. CASE j # q
    BY <1>3, <2>2 DEF Inv, Tries
  <2> QED BY <2>1, <2>2
<1>10. AirSent'
  <2> SUFFICES ASSUME NEW k \in DOMAIN air'
               PROVE  /\ sendcount'[air'[k]] > 0
                      /\ gone'[air'[k]] = air'[k] => sendcount'[air'[k]] > 1
    BY DEF AirSent
  <2>1. CASE air'[k] = q
    BY <1>3, <1>4, <1>5, <2>1
  <2>2. CASE air'[k] # q
    <3>1. k \in DOMAIN air /\ air'[k] = air[k] /\ air[k] \in Jobs
      BY <1>6, <1>7, <2>2
    <3> QED BY <1>3, <2>2, <3>1 DEF Inv, Answers, AirSent
  <2> QED BY <2>1, <2>2
<1>11. AirTwice'
  <2> SUFFICES ASSUME NEW k \in DOMAIN air', NEW l \in DOMAIN air', k # l, air'[k] = air'[l]
               PROVE  sendcount'[air'[k]] > 1
    BY DEF AirTwice
  <2>1. CASE air'[k] = q
    <3>1. PICK m \in DOMAIN air : air[m] = q
      BY <1>6, <2>1
    <3>2. sendcount[q] > 0
      BY <1>7, <3>1
    <3> QED BY <1>3, <1>4, <2>1, <3>2
  <2>2. CASE air'[k] # q
    <3>1. k \in DOMAIN air /\ l \in DOMAIN air /\ air'[k] = air[k] /\ air[k] = air[l] /\ air[k] \in Jobs
      BY <1>6, <1>7, <2>2
    <3> QED BY <1>3, <2>2, <3>1 DEF Inv, Answers, AirTwice
  <2> QED BY <2>1, <2>2
<1>12. LineSent' /\ LineTwice' /\ BothTwice'
  <2>1. DOMAIN line' = {}
    BY <1>2
  <2> QED BY <2>1 DEF LineSent, LineTwice, BothTwice
<1>13. SurplusOnly'
  <2> SUFFICES ASSUME NEW j \in Jobs, gone'[j] \in Jobs \ {j}
               PROVE  LET o == gone'[j]
                      IN  /\ o < j
                          /\ jobs[o].unit = jobs[j].unit \/ jobs[o].kind = "ids"
                          /\ sendcount'[o] > 1 \/ gone'[o] \in {Stray} \union (Jobs \ {o})
    BY <1>1 DEF SurplusOnly
  <2> DEFINE o == gone'[j]
  <2>1. j # q /\ o = gone[j] /\ o \in Jobs
    BY <1>3, <1>5
  <2>2. /\ o < j
        /\ jobs[o].unit = jobs[j].unit \/ jobs[o].kind = "ids"
        /\ sendcount[o] > 1 \/ gone[o] \in {Stray} \union (Jobs \ {o})
    BY <2>1 DEF Inv, SurplusOnly
  <2> HIDE DEF o
  <2>3. sendcount'[o] > 1 \/ gone'[o] \in {Stray} \union (Jobs \ {o})
    <3>1. CASE sendcount[o] > 1
      BY <1>4, <2>1, <3>1
    <3>2. CASE gone[o] \in {Stray} \union (Jobs \ {o})
      BY <1>3, <1>5, <2>1, <3>2
    <3> QED BY <2>2, <3>1, <3>2
  <2> QED BY <2>2, <2>3 DEF o
<1>14. BrokenBySurplus'
  BY <1>2 DEF BrokenBySurplus
<1>15. TypeOK'
  <2>1. line' \in Seq(Frames')
    BY <1>2
  <2>2. Reasons' = Reasons
    BY <1>1 DEF Reasons
  <2> QED BY <1>1, <1>2, <1>3, <1>6, <2>1, <2>2 DEF TypeOK, users
<1> QED BY <1>8, <1>9, <1>10, <1>11, <1>12, <1>13, <1>14, <1>15 DEF Inv, Answers

-----------------------------------------------------------------------------
LEMMA InitInv == Init => Inv
<1> SUFFICES ASSUME Init PROVE Inv
  OBVIOUS
<1>1. jobs = << >> /\ queue = << >> /\ sendcount = << >> /\ gone = << >> /\ air = << >> /\ line = << >>
  BY DEF Init
<1>2. Jobs = {} /\ DOMAIN queue = {} /\ DOMAIN air = {} /\ DOMAIN line = {}
  BY <1>1 DEF Jobs
<1>3. TypeOK
  <2>1. 0 \in 0 .. MaxCommands /\ 0 \in 0 .. MaxNoise /\ 0 \in 0 .. Len(Startup)
    BY PlcbusAssumption
  <2> QED BY <1>1, <2>1 DEF Init, TypeOK
<1>4. InOrder /\ Fifo /\ Tries /\ SurplusOnly
  BY <1>2 DEF InOrder, Fifo, Tries, SurplusOnly
<1>5. Answers
  BY <1>2 DEF Answers, AirSent, LineSent, AirTwice, LineTwice, BothTwice
<1>6. BrokenBySurplus
  BY DEF Init, BrokenBySurplus
<1> QED BY <1>3, <1>4, <1>5, <1>6 DEF Inv

\* A new job goes to the end; nothing is known of it yet.
LEMMA PushInv ==
    ASSUME Inv, NEW u \in Units, NEW k \in Kinds, Push(u, k),
           started' \in 0 .. Len(Startup), commands' \in 0 .. MaxCommands
    PROVE  Inv'
<1> DEFINE e == Len(jobs) + 1
<1>1. TypeOK /\ UNCHANGED <<pc, air, line, noise>> /\ queue' = Append(queue, e)
  BY DEF Inv, Push, input
<1>2. /\ Jobs' = Jobs \union {e} /\ e \notin Jobs
      /\ \A j \in Jobs : jobs'[j] = jobs[j] /\ sendcount'[j] = sendcount[j] /\ gone'[j] = gone[j]
      /\ sendcount'[e] = 0 /\ gone'[e] = Here
  BY <1>1, PushTypes
<1>3. TypeOK'
  <2>1. /\ jobs' \in Seq(Makes) /\ queue' \in Seq(Jobs')
        /\ sendcount' \in Seq(0 .. MaxRepeats + 1) /\ Len(sendcount') = Len(jobs')
        /\ gone' \in Seq(Reasons') /\ Len(gone') = Len(jobs')
        /\ air' \in Seq(Jobs') /\ line' \in Seq(Frames')
    BY <1>1, PushTypes
  <2> QED BY <1>1, <2>1 DEF TypeOK
<1>4. Jobs = 1 .. Len(jobs) /\ Jobs \subseteq Nat /\ Len(jobs) \in Nat /\ \A j \in Jobs : j < e
  BY <1>1, Lengths
<1> HIDE DEF e
<1>5. /\ Here \notin Jobs /\ Here # Tried /\ Here # Stray /\ e \in Nat
      /\ 0 \notin Jobs /\ MaxRepeats \in Nat
  BY <1>1, <1>4, Marks DEF e
<1>6. /\ DOMAIN queue = 1 .. Len(queue) /\ Len(queue) \in Nat
      /\ \A n \in DOMAIN queue : queue[n] \in Jobs
  BY <1>1, ElementsIs DEF TypeOK
<1>7. /\ DOMAIN queue' = DOMAIN queue \union {Len(queue) + 1}
      /\ \A n \in DOMAIN queue : queue'[n] = queue[n]
      /\ queue'[Len(queue) + 1] = e
  <2>1. queue \in Seq(Jobs \union {e})
    BY <1>1, Wider DEF TypeOK
  <2> QED BY <1>1, <2>1, AppendIs
<1>8. InOrder'
  <2>1. ASSUME NEW m \in DOMAIN queue', NEW n \in DOMAIN queue', m < n
        PROVE  queue'[m] < queue'[n] /\ sendcount'[queue'[n]] = 0
    <3>1. CASE n \in DOMAIN queue
      <4>1. m \in DOMAIN queue
        BY <1>6, <1>7, <2>1, <3>1
      <4>2. queue[m] < queue[n] /\ sendcount[queue[n]] = 0
        BY <2>1, <3>1, <4>1 DEF Inv, InOrder
      <4> QED BY <1>2, <1>6, <1>7, <3>1, <4>1, <4>2
    <3>2. CASE n \notin DOMAIN queue
      <4>1. n = Len(queue) + 1 /\ queue'[n] = e /\ m \in DOMAIN queue
        BY <1>6, <1>7, <2>1, <3>2
      <4> QED BY <1>2, <1>4, <1>6, <1>7, <4>1
    <3> QED BY <3>1, <3>2
  <2>2. ASSUME NEW j \in Jobs'
        PROVE  (gone'[j] = Here) <=> \E n \in DOMAIN queue' : queue'[n] = j
    <3>1. CASE j = e
      BY <1>2, <1>7, <3>1
    <3>2. CASE j \in Jobs
      <4>1. (gone[j] = Here) <=> \E n \in DOMAIN queue : queue[n] = j
        BY <3>2 DEF Inv, InOrder
      <4>2. (\E n \in DOMAIN queue' : queue'[n] = j) <=> \E n \in DOMAIN queue : queue[n] = j
        BY <1>2, <1>7, <3>2
      <4> QED BY <1>2, <3>2, <4>1, <4>2
    <3> QED BY <1>2, <3>1, <3>2
  <2> QED BY <2>1, <2>2 DEF InOrder
<1>9. Fifo'
  <2> SUFFICES ASSUME NEW i \in Jobs', NEW j \in Jobs', gone'[i] = Here, i < j PROVE gone'[j] = Here
    BY DEF Fifo
  <2>1. CASE j = e
    BY <1>2, <2>1
  <2>2. CASE j \in Jobs
    <3>1. i \in Jobs
      BY <1>2, <1>4, <1>5, <2>2
    <3> QED BY <1>2, <2>2, <3>1 DEF Inv, Fifo
  <2> QED BY <1>2, <2>1, <2>2
<1>10. Tries'
  <2> SUFFICES ASSUME NEW j \in Jobs'
               PROVE  /\ gone'[j] = Tried => sendcount'[j] > 1
                      /\ gone'[j] = Here => sendcount'[j] <= MaxRepeats
    BY DEF Tries
  <2>1. CASE j = e
    BY <1>2, <1>5, <2>1
  <2>2. CASE j \in Jobs
    BY <1>2, <2>2 DEF Inv, Tries
  <2> QED BY <1>2, <2>1, <2>2
<1>11. \A n \in DOMAIN air : air[n] \in Jobs
  BY <1>1, ElementsIs DEF TypeOK
<1>12. \A n \in DOMAIN line : line[n].of \in Jobs \union {0}
  <2>1. \A n \in DOMAIN line : line[n] \in Frames
    BY <1>1, ElementsIs DEF TypeOK
  <2> QED BY <2>1 DEF Frames
<1>13. AirSent' /\ AirTwice' /\ BothTwice'
  BY <1>1, <1>2, <1>11 DEF Inv, Answers, AirSent, AirTwice, BothTwice
<1>14. LineTwice'
  BY <1>1, <1>2, <1>12 DEF Inv, Answers, LineTwice
<1>15. LineSent'
  <2> SUFFICES ASSUME NEW n \in DOMAIN line
               PROVE  /\ line[n].of = 0 => noise > 0
                      /\ line[n].of # 0 =>
                          /\ line[n] = Answer(line[n].of)'
                          /\ sendcount'[line[n].of] > 0
                          /\ gone'[line[n].of] = line[n].of => sendcount'[line[n].of] > 1
    BY <1>1 DEF LineSent, Answer
  <2> DEFINE o == line[n].of
  <2>1. CASE o = 0
    BY <2>1 DEF Inv, Answers, LineSent
  <2>2. CASE o # 0
    <3>1. o \in Jobs
      BY <1>12, <2>2
    <3>2. line[n] = Answer(o) /\ sendcount[o] > 0 /\ (gone[o] = o => sendcount[o] > 1)
      BY <2>2 DEF Inv, Answers, LineSent
    <3> HIDE DEF o
    <3>3. Answer(o)' = Answer(o)
      <4>1. o' = o
        BY <1>1 DEF o
      <4> QED BY <1>2, <3>1, <4>1 DEF Answer
    <3>4. line[n] = [type |-> IF jobs'[o].kind = "set" THEN "ack" ELSE "ids", unit |-> jobs'[o].unit, of |-> o]
      BY <1>2, <3>1, <3>2 DEF Answer
    <3>5. sendcount'[o] > 0 /\ (gone'[o] = o => sendcount'[o] > 1)
      BY <1>2, <3>1, <3>2
    <3> QED BY <2>2, <3>4, <3>5, <1>1 DEF o, Answer
  <2> QED BY <2>1, <2>2
<1>16. SurplusOnly'
  <2> SUFFICES ASSUME NEW j \in Jobs', gone'[j] \in Jobs' \ {j}
               PROVE  LET o == gone'[j]
                      IN  /\ o < j
                          /\ jobs'[o].unit = jobs'[j].unit \/ jobs'[o].kind = "ids"
                          /\ sendcount'[o] > 1 \/ gone'[o] \in {Stray} \union (Jobs' \ {o})
    BY DEF SurplusOnly
  <2>1. j \in Jobs /\ gone'[j] = gone[j]
    <3>1. Here \notin Nat
      BY PlcbusAssumption
    <3>2. Here \notin Jobs'
      BY <1>2, <1>5, <3>1
    <3>3. j # e
      BY <1>2, <3>2
    <3> QED BY <1>2, <3>3
  <2> DEFINE o == gone[j]
  <2>2. o \in Jobs
    <3>1. gone[j] \in Reasons /\ Stray \notin Nat /\ Tried \notin Nat /\ Here \notin Nat
      BY <1>1, <2>1, Lengths, PlcbusAssumption
    <3>2. gone[j] \in Nat
      BY <1>2, <1>4, <1>5, <2>1
    <3> QED BY <3>1, <3>2 DEF Reasons
  <2>3. /\ o < j
        /\ jobs[o].unit = jobs[j].unit \/ jobs[o].kind = "ids"
        /\ sendcount[o] > 1 \/ gone[o] \in {Stray} \union (Jobs \ {o})
    BY <2>1, <2>2 DEF Inv, SurplusOnly
  <2> HIDE DEF o
  <2>4. jobs'[o] = jobs[o] /\ jobs'[j] = jobs[j] /\ sendcount'[o] = sendcount[o] /\ gone'[o] = gone[o]
    BY <1>2, <2>1, <2>2
  <2> QED BY <1>2, <2>1, <2>3, <2>4 DEF o
<1>17. BrokenBySurplus'
  BY <1>1, <1>2 DEF Inv, BrokenBySurplus
<1> QED BY <1>3, <1>8, <1>9, <1>10, <1>13, <1>14, <1>15, <1>16, <1>17 DEF Inv, Answers

\* The adapter only adds frames: an answer to what it had in the air, or noise.
LEMMA AdapterInv ==
    ASSUME Inv, Reply \/ Traffic
    PROVE  Inv'
<1>1. /\ UNCHANGED <<jobs, queue, sendcount, gone, pc, users>>
      /\ Jobs' = Jobs /\ Frames' = Frames /\ Reasons' = Reasons
  BY DEF Reply, Traffic, Jobs, Frames, Reasons
<1>2. TypeOK /\ air \in Seq(Jobs) /\ line \in Seq(Frames) /\ noise \in 0 .. MaxNoise
  BY DEF Inv, TypeOK
<1>3. Answer(0)' = Answer(0) /\ \A j \in Jobs : Answer(j)' = Answer(j)
  BY <1>1 DEF Answer
<1>4. InOrder' /\ Fifo' /\ Tries' /\ SurplusOnly'
  BY <1>1 DEF Inv, InOrder, Fifo, Tries, SurplusOnly
<1>5. 0 \notin Jobs /\ MaxNoise \in Nat
  BY <1>2, Marks
<1>6. \A n \in DOMAIN line : line[n] \in Frames /\ line[n].of \in Jobs \union {0}
  <2>1. \A n \in DOMAIN line : line[n] \in Frames
    BY <1>2, ElementsIs
  <2> QED BY <2>1 DEF Frames
<1>7. CASE Reply
  <2> DEFINE j == Head(air) a == Answer(j)
  <2>1. air # << >> /\ air' = Tail(air) /\ line' \in {line, Append(line, a)} /\ UNCHANGED noise
    BY <1>7 DEF Reply
  <2>2. /\ j \in Jobs /\ j = air[1] /\ 1 \in DOMAIN air /\ air' \in Seq(Jobs)
        /\ \A k \in DOMAIN air' : air'[k] = air[k + 1] /\ k + 1 \in DOMAIN air
    BY <1>2, <2>1, TailIs
  <2>3. \A k, l \in DOMAIN air' : k + 1 # 1 /\ (k # l => k + 1 # l + 1)
    BY <2>2, ElementsIs
  <2>4. a \in Frames /\ a.of = j /\ a.of # 0
    <3>1. jobs[j].unit \in Units
      BY <1>2, <2>2, KindIs
    <3> QED BY <1>5, <2>2, <3>1 DEF Answer, Frames
  <2> HIDE DEF j, a
  <2>5. /\ line' \in Seq(Frames)
        /\ \A n \in DOMAIN line' : (n \in DOMAIN line /\ line'[n] = line[n])
             \/ (n = Len(line) + 1 /\ line'[n] = a)
    <3>1. /\ Append(line, a) \in Seq(Frames)
          /\ DOMAIN Append(line, a) = DOMAIN line \union {Len(line) + 1}
          /\ \A n \in DOMAIN line : Append(line, a)[n] = line[n]
          /\ Append(line, a)[Len(line) + 1] = a
      BY <1>2, <2>4, AppendIs
    <3>2. CASE line' = line
      BY <1>2, <3>2
    <3>3. CASE line' = Append(line, a)
      BY <3>1, <3>3
    <3> QED BY <2>1, <3>2, <3>3
  <2>6. TypeOK'
    BY <1>1, <2>1, <2>2, <2>5 DEF Inv, TypeOK, users
  <2>7. AirSent' /\ AirTwice'
    BY <1>1, <2>2, <2>3 DEF Inv, Answers, AirSent, AirTwice
  <2>8. sendcount[j] > 0 /\ (gone[j] = j => sendcount[j] > 1)
    BY <2>2 DEF Inv, Answers, AirSent
  <2>9. \A n \in DOMAIN line : line[n].of = j => sendcount[j] > 1
    BY <2>2 DEF Inv, Answers, BothTwice
  <2>10. \A k \in DOMAIN air' : air'[k] = j => sendcount[j] > 1
    BY <2>2, <2>3 DEF Inv, Answers, AirTwice
  <2>11. LineSent'
    <3> SUFFICES ASSUME NEW n \in DOMAIN line'
                 PROVE  /\ line'[n].of = 0 => noise > 0
                        /\ line'[n].of # 0 =>
                            /\ line'[n] = Answer(line'[n].of)
                            /\ sendcount[line'[n].of] > 0
                            /\ gone[line'[n].of] = line'[n].of => sendcount[line'[n].of] > 1
      BY <1>1, <2>1 DEF LineSent, Answer
    <3>1. CASE n \in DOMAIN line /\ line'[n] = line[n]
      BY <3>1 DEF Inv, Answers, LineSent
    <3>2. CASE line'[n] = a
      <4>1. line'[n].of = j /\ line'[n].of # 0 /\ a = Answer(j)
        BY <2>4, <3>2 DEF a
      <4> QED BY <2>8, <3>2, <4>1
    <3> QED BY <2>5, <3>1, <3>2
  <2>12. LineTwice'
    <3> SUFFICES ASSUME NEW k \in DOMAIN line', NEW l \in DOMAIN line', k # l,
                        line'[k].of = line'[l].of, line'[k].of # 0
                 PROVE  sendcount[line'[k].of] > 1
      BY <1>1 DEF LineTwice
    <3>1. CASE k \in DOMAIN line /\ line'[k] = line[k] /\ l \in DOMAIN line /\ line'[l] = line[l]
      BY <3>1 DEF Inv, Answers, LineTwice
    <3>2. CASE k \in DOMAIN line /\ line'[k] = line[k] /\ line'[l] = a
      BY <2>4, <2>9, <3>2
    <3>3. CASE l \in DOMAIN line /\ line'[l] = line[l] /\ line'[k] = a
      BY <2>4, <2>9, <3>3
    <3> QED BY <2>5, <3>1, <3>2, <3>3
  <2>13. BothTwice'
    <3> SUFFICES ASSUME NEW k \in DOMAIN air', NEW l \in DOMAIN line', air'[k] = line'[l].of
                 PROVE  sendcount[air'[k]] > 1
      BY <1>1 DEF BothTwice
    <3>1. CASE l \in DOMAIN line /\ line'[l] = line[l]
      BY <2>2, <3>1 DEF Inv, Answers, BothTwice
    <3>2. CASE line'[l] = a
      BY <2>4, <2>10, <3>2
    <3> QED BY <2>5, <3>1, <3>2
  <2>14. BrokenBySurplus'
    BY <1>1, <2>1 DEF Inv, BrokenBySurplus
  <2> QED BY <1>4, <2>6, <2>7, <2>11, <2>12, <2>13, <2>14 DEF Inv, Answers
<1>8. CASE Traffic
  <2>1. PICK f \in Noises : line' = Append(line, f)
    BY <1>8 DEF Traffic
  <2>2. noise' = noise + 1 /\ noise < MaxNoise /\ air' = air
    BY <1>8 DEF Traffic
  <2>3. noise' > 0 /\ noise' \in 0 .. MaxNoise
    BY <1>2, <1>5, <2>2
  <2>4. f \in Frames /\ f.of = 0
    BY DEF Noises, Frames
  <2>5. /\ line' \in Seq(Frames)
        /\ \A n \in DOMAIN line' : (n \in DOMAIN line /\ line'[n] = line[n])
             \/ (n = Len(line) + 1 /\ line'[n] = f)
    <3>1. /\ Append(line, f) \in Seq(Frames)
          /\ DOMAIN Append(line, f) = DOMAIN line \union {Len(line) + 1}
          /\ \A n \in DOMAIN line : Append(line, f)[n] = line[n]
          /\ Append(line, f)[Len(line) + 1] = f
      BY <1>2, <2>4, AppendIs
    <3> QED BY <2>1, <3>1
  <2>6. TypeOK'
    BY <1>1, <2>2, <2>3, <2>5 DEF Inv, TypeOK, users
  <2>7. AirSent' /\ AirTwice'
    BY <1>1, <2>2 DEF Inv, Answers, AirSent, AirTwice
  <2>8. LineSent'
    <3> SUFFICES ASSUME NEW n \in DOMAIN line'
                 PROVE  /\ line'[n].of # 0 =>
                            /\ line'[n] = Answer(line'[n].of)
                            /\ sendcount[line'[n].of] > 0
                            /\ gone[line'[n].of] = line'[n].of => sendcount[line'[n].of] > 1
      BY <1>1, <2>3 DEF LineSent, Answer
    <3>1. CASE n \in DOMAIN line /\ line'[n] = line[n]
      BY <3>1 DEF Inv, Answers, LineSent
    <3> QED BY <2>4, <2>5, <3>1
  <2>9. LineTwice'
    <3> SUFFICES ASSUME NEW k \in DOMAIN line', NEW l \in DOMAIN line', k # l,
                        line'[k].of = line'[l].of, line'[k].of # 0
                 PROVE  sendcount[line'[k].of] > 1
      BY <1>1 DEF LineTwice
    <3>1. /\ k \in DOMAIN line /\ line'[k] = line[k]
          /\ l \in DOMAIN line /\ line'[l] = line[l]
      BY <2>4, <2>5
    <3> QED BY <3>1 DEF Inv, Answers, LineTwice
  <2>10. BothTwice'
    <3> SUFFICES ASSUME NEW k \in DOMAIN air, NEW l \in DOMAIN line', air[k] = line'[l].of
                 PROVE  sendcount[air[k]] > 1
      BY <1>1, <2>2 DEF BothTwice
    <3>1. air[k] # 0
      BY <1>2, <1>5, ElementsIs
    <3>2. l \in DOMAIN line /\ line'[l] = line[l]
      BY <2>4, <2>5, <3>1
    <3> QED BY <3>2 DEF Inv, Answers, BothTwice
  <2>11. BrokenBySurplus'
    BY <2>3 DEF BrokenBySurplus
  <2> QED BY <1>4, <2>6, <2>7, <2>8, <2>9, <2>10, <2>11 DEF Inv, Answers
<1> QED BY <1>7, <1>8

LEMMA NextInv == ASSUME Inv, [Next]_vars PROVE Inv'
<1>1. CASE Start
  <2>1. Startup \in Seq(Units) /\ started \in 0 .. Len(Startup) /\ started < Len(Startup)
    BY <1>1, PlcbusAssumption DEF Inv, TypeOK, Start
  <2>2. Startup[started + 1] \in Units
    BY <2>1, ElementsIs
  <2>3. started' \in 0 .. Len(Startup) /\ commands' \in 0 .. MaxCommands
    BY <1>1, <2>1 DEF Inv, TypeOK, Start
  <2>4. Push(Startup[started + 1], "ids") /\ "ids" \in Kinds
    BY <1>1 DEF Start, Kinds
  <2> QED BY <2>2, <2>3, <2>4, PushInv
<1>2. ASSUME NEW u \in Units, CommandHandler(u) PROVE Inv'
  <2>1. commands' \in 0 .. MaxCommands /\ started' \in 0 .. Len(Startup)
    BY <1>2, PlcbusAssumption DEF Inv, TypeOK, CommandHandler
  <2>2. PICK k \in Kinds : Push(u, k)
    BY <1>2 DEF CommandHandler
  <2> QED BY <2>1, <2>2, PushInv
<1>3. CASE ReadAck
  <2>1. Taken /\ pc = "read" /\ pc' = "send"
    BY <1>3 DEF ReadAck, Taken, Acked
  <2> QED BY <2>1, TakenInv
<1>4. CASE ReadIds
  <2>1. Taken /\ pc = "read" /\ pc' \in {"read", "send", "broken"}
    BY <1>4 DEF ReadIds, Taken
  <2>2. pc' = "broken" => queue = << >> /\ Head(line).type = "ids" /\ UNCHANGED gone
    BY <1>4 DEF ReadIds
  <2> QED BY <2>1, <2>2, TakenInv
<1>5. CASE ReadSkip
  <2>1. Taken /\ pc = "read" /\ pc' = "read"
    BY <1>5 DEF ReadSkip, Taken
  <2> QED BY <2>1, TakenInv
<1>6. CASE ReadTimeout \/ SendNothing \/ UNCHANGED vars
  <2>1. UNCHANGED <<jobs, queue, sendcount, gone, air, line, noise, users>>
    BY <1>6 DEF ReadTimeout, SendNothing, vars, input
  <2>2. pc' \in {pc, "read", "send"}
    BY <1>6 DEF ReadTimeout, SendNothing, vars
  <2>3. Jobs' = Jobs /\ Frames' = Frames /\ Reasons' = Reasons
    BY <2>1 DEF Jobs, Frames, Reasons
  <2>4. TypeOK'
    BY <2>1, <2>2, <2>3 DEF Inv, TypeOK, users
  <2>5. InOrder' /\ Fifo' /\ Tries' /\ SurplusOnly'
    BY <2>1, <2>3 DEF Inv, InOrder, Fifo, Tries, SurplusOnly
  <2>6. Answers'
    BY <2>1 DEF Inv, Answers, AirSent, LineSent, AirTwice, LineTwice, BothTwice, Answer
  <2>7. BrokenBySurplus'
    BY <2>1, <2>2, <2>3 DEF Inv, BrokenBySurplus
  <2> QED BY <2>4, <2>5, <2>6, <2>7 DEF Inv
<1>7. CASE Send
  BY <1>7, SendInv
<1>8. CASE Reply \/ Traffic
  BY <1>8, AdapterInv
<1> QED BY <1>1, <1>2, <1>3, <1>4, <1>5, <1>6, <1>7, <1>8, Cases

LEMMA Always == Spec => []Inv
BY InitInv, NextInv, PTL DEF Spec

(* The types hold; no job is sent more than MaxRepeats + 1 times.            *)
THEOREM TypeCorrect == Spec => []TypeOK
<1>1. Inv => TypeOK
  BY DEF Inv
<1> QED BY <1>1, Always, PTL

(* Jobs are sent in the order in which they were made (PLCBUS.cpp:147, 220). *)
THEOREM SentInOrder == Spec => []InOrder
<1>1. Inv => InOrder
  BY DEF Inv
<1> QED BY <1>1, Always, PTL

(* A job is lost to another's answer only if that one was repeated or had    *)
(* already left the queue by another's or a foreign answer (PLCBUS.cpp:145). *)
THEOREM LostToSurplus == Spec => []SurplusOnly
<1>1. Inv => SurplusOnly
  BY DEF Inv
<1> QED BY <1>1, Always, PTL

(* Without foreign traffic and a question that was repeated or removed, the  *)
(* queue is never popped when empty (PLCBUS.cpp:156).                        *)
THEOREM BrokenOnlySo == Spec => []BrokenBySurplus
<1>1. Inv => BrokenBySurplus
  BY DEF Inv
<1> QED BY <1>1, Always, PTL
=============================================================================
