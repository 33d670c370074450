----------------------------- MODULE SchedProofs -----------------------------
(***************************************************************************)
(* Proofs about modules Sched and SchedHistory, for every set of CPUs and  *)
(* processes, every assignment of priorities and every number of levels.   *)
(***************************************************************************)
EXTENDS SchedHistory, FunctionTheorems, FiniteSetTheorems, TLAPS

\* What Append and Tail do to the elements of a queue.
LEMMA AppendElements ==
    ASSUME NEW s \in Seq(Proc), NEW p \in Proc
    PROVE  /\ Append(s, p) \in Seq(Proc)
           /\ Len(Append(s, p)) = Len(s) + 1
           /\ Len(s) \in Nat
           /\ \A i \in 1..Len(s) : Append(s, p)[i] = s[i]
           /\ Append(s, p)[Len(s) + 1] = p
  OBVIOUS

\* The elements of a queue after dequeue(): each moves one place to the front.
LEMMA TailElements ==
    ASSUME NEW s \in Seq(Proc), s # <<>>
    PROVE  /\ Tail(s) \in Seq(Proc)
           /\ Len(Tail(s)) = Len(s) - 1
           /\ Len(s) \in Nat /\ Len(s) > 0
           /\ \A i \in 1..(Len(s) - 1) : Tail(s)[i] = s[i + 1]
           /\ Head(s) = s[1]
           /\ s[1] \in Proc
  OBVIOUS

\* A step inside get_proc() goes to a place and a level of the right type.
Where == {"idle", "scan", "select", "slot", "take", "reset"}

\* A move inside get_mlq_proc() keeps the types of its place and its level.
LEMMA GotoType ==
    ASSUME SchedTypeOK, NEW c \in CPU, NEW w \in Where, NEW k \in Level, Goto(c, w, k)
    PROVE  gpc' \in [CPU -> Where] /\ prio_select' \in [CPU -> Level]
  BY DEF SchedTypeOK, Goto, Where

\* So does going on to the next level.
LEMMA NextLevelType ==
    ASSUME SchedTypeOK, NEW c \in CPU, NEW k \in Level, NextLevel(c, k)
    PROVE  gpc' \in [CPU -> Where] /\ prio_select' \in [CPU -> Level]
<1>1. CASE k = MAX_PRIO - 1
  BY <1>1, SchedAssumption, GotoType DEF NextLevel, Return, Where, Level
<1>2. CASE k # MAX_PRIO - 1
  <2>1. k + 1 \in Level
    BY <1>2, SchedAssumption DEF Level
  <2> QED
    BY <1>2, <2>1, GotoType DEF NextLevel, Where
<1> QED
  BY <1>1, <1>2

\* SchedTypeOK is inductive by itself.
LEMMA TypeStep == SchedTypeOK /\ [SchedNext]_schedVars => SchedTypeOK'
<1> SUFFICES ASSUME SchedTypeOK, [SchedNext]_schedVars PROVE SchedTypeOK'
  OBVIOUS
<1> USE SchedAssumption
<1>0. FullSlots \in [Level -> 0..UINT_MAX] /\ 0 \in Level
  BY DEF FullSlots, Level
<1>1. ASSUME NEW p \in Proc, AddProc(p) PROVE SchedTypeOK'
  BY <1>1, AppendElements DEF AddProc, Enqueue, SchedTypeOK, Level
<1>2. ASSUME NEW c \in CPU, PutProc(c) PROVE SchedTypeOK'
  <2>1. mlq_ready_queue' \in [Level -> Seq(Proc)]
    BY <1>2, AppendElements DEF PutProc, Enqueue, SchedTypeOK, Level
  <2> QED
    BY <1>2, <2>1 DEF PutProc, SchedTypeOK
<1>3. ASSUME NEW c \in CPU, FreeProc(c) PROVE SchedTypeOK'
  BY <1>3 DEF FreeProc, SchedTypeOK
<1>4. ASSUME NEW c \in CPU, GetProc(c) PROVE SchedTypeOK'
  BY <1>4, <1>0, GotoType DEF GetProc, SchedTypeOK, Where
<1>5. ASSUME NEW c \in CPU, QueueEmpty(c) PROVE SchedTypeOK'
  <2>1. prio_select[c] \in Level
    BY DEF SchedTypeOK
  <2>2. gpc' \in [CPU -> Where] /\ prio_select' \in [CPU -> Level]
    <3>1. CASE Goto(c, "select", 0) \/ Return(c)
      BY <3>1, <1>0, GotoType DEF Return, Where
    <3>2. CASE prio_select[c] < MAX_PRIO - 1 /\ Goto(c, "scan", prio_select[c] + 1)
      <4>1. prio_select[c] + 1 \in Level
        BY <2>1, <3>2 DEF Level
      <4> QED
        BY <3>2, <4>1, GotoType DEF Where
    <3> QED
      BY <1>5, <3>1, <3>2 DEF QueueEmpty
  <2> QED
    BY <1>5, <2>2 DEF QueueEmpty, SchedTypeOK, Where
<1>6. ASSUME NEW c \in CPU, SelectLevel(c) PROVE SchedTypeOK'
  <2>1. prio_select[c] \in Level
    BY DEF SchedTypeOK
  <2>2. gpc' \in [CPU -> Where] /\ prio_select' \in [CPU -> Level]
    BY <1>6, <2>1, GotoType, NextLevelType DEF SelectLevel, Where
  <2>3. slot' \in [Level -> 0..UINT_MAX]
    BY <1>6, <1>0 DEF SelectLevel, SchedTypeOK
  <2> QED
    BY <1>6, <2>2, <2>3 DEF SelectLevel, SchedTypeOK, Where
<1>7. ASSUME NEW c \in CPU, TestSlot(c) PROVE SchedTypeOK'
  <2>1. prio_select[c] \in Level
    BY DEF SchedTypeOK
  <2>2. gpc' \in [CPU -> Where] /\ prio_select' \in [CPU -> Level]
    BY <1>7, <2>1, GotoType, NextLevelType DEF TestSlot, Where
  <2> QED
    BY <1>7, <2>2 DEF TestSlot, SchedTypeOK, Where
<1>8. ASSUME NEW c \in CPU, TakeProc(c) PROVE SchedTypeOK'
  <2>1. prio_select[c] \in Level
    BY DEF SchedTypeOK
  <2>2. mlq_ready_queue' \in [Level -> Seq(Proc)] /\ proc' \in [CPU -> Proc \cup {NULL}]
    <3>1. CASE Empty(prio_select[c])
      BY <1>8, <3>1 DEF TakeProc, Dequeue, SchedTypeOK
    <3>2. CASE ~Empty(prio_select[c])
      <4> DEFINE s == mlq_ready_queue[prio_select[c]]
      <4>1. s \in Seq(Proc) /\ s # <<>>
        BY <2>1, <3>2 DEF Empty, SchedTypeOK
      <4>2. Tail(s) \in Seq(Proc) /\ Head(s) \in Proc
        BY <4>1, TailElements
      <4>3. /\ mlq_ready_queue' = [mlq_ready_queue EXCEPT ![prio_select[c]] = Tail(s)]
            /\ proc' = [proc EXCEPT ![c] = Head(s)]
        BY <1>8, <3>2 DEF TakeProc, Dequeue
      <4> QED
        BY <2>1, <4>2, <4>3 DEF SchedTypeOK
    <3> QED
      BY <3>1, <3>2
  <2>3. slot' \in [Level -> 0..UINT_MAX]
    BY <1>8 DEF TakeProc, Decrement, SchedTypeOK
  <2>4. gpc' \in [CPU -> Where] /\ prio_select' \in [CPU -> Level]
    BY <1>8, <1>0, GotoType DEF TakeProc, Return, Where
  <2> QED
    BY <1>8, <2>2, <2>3, <2>4 DEF TakeProc, SchedTypeOK, Where
<1>9. ASSUME NEW c \in CPU, ResetSlots(c) PROVE SchedTypeOK'
  <2>1. gpc' \in [CPU -> Where] /\ prio_select' \in [CPU -> Level]
    BY <1>9, <1>0, NextLevelType DEF ResetSlots
  <2> QED
    BY <1>9, <1>0, <2>1 DEF ResetSlots, SchedTypeOK, Where
<1>10. CASE UNCHANGED schedVars
  BY <1>10 DEF schedVars, SchedTypeOK
<1> QED
  BY <1>1, <1>2, <1>3, <1>4, <1>5, <1>6, <1>7, <1>8, <1>9, <1>10
     DEF SchedNext, Serve, GetStep, Undefined

-----------------------------------------------------------------------------
\* What the placement of the processes depends on.
placeVars == <<mlq_ready_queue, proc, loaded, finished>>

Placement == QueueOnce /\ HeldOnce /\ Placed /\ finished \subseteq loaded

\* enqueue() of a process that is in no queue and, from now on, held by no CPU.
LEMMA EnqueueStep ==
    ASSUME SchedTypeOK, SchedTypeOK', QueueOnce, NEW p \in Proc, Enqueue(p),
           ~Queued(p), p \in loaded' \ finished', finished' = finished,
           loaded \subseteq loaded',
           \A c \in CPU : proc'[c] = proc[c] \/ proc'[c] = NULL,
           \A c \in CPU : proc'[c] # p
    PROVE  /\ QueueOnce'
           /\ Queued(p)'
           /\ \A q \in Proc : Queued(q) => Queued(q)'
<1> USE SchedAssumption
<1> DEFINE s == mlq_ready_queue[prio[p]]
<1>1. prio[p] \in Level /\ s \in Seq(Proc)
  BY DEF SchedTypeOK, Level
<1>2. mlq_ready_queue'[prio[p]] = Append(s, p)
  BY <1>1 DEF Enqueue, SchedTypeOK
<1>3. \A k \in Level : k # prio[p] => mlq_ready_queue'[k] = mlq_ready_queue[k]
  BY DEF Enqueue, SchedTypeOK
<1>4. /\ Len(Append(s, p)) = Len(s) + 1
      /\ Len(s) \in Nat
      /\ \A i \in 1..Len(s) : Append(s, p)[i] = s[i]
      /\ Append(s, p)[Len(s) + 1] = p
  BY <1>1, AppendElements
<1>5. Queued(p)'
  BY <1>2, <1>4 DEF Queued
<1>6. ASSUME NEW q \in Proc, Queued(q) PROVE Queued(q)'
  <2>1. prio[q] \in Level
    BY DEF Level
  <2>2. CASE prio[q] = prio[p]
    <3>1. PICK i \in 1..Len(s) : s[i] = q
      BY <1>6, <2>2 DEF Queued
    <3>2. i \in 1..Len(Append(s, p)) /\ Append(s, p)[i] = q
      BY <1>4, <3>1
    <3> QED
      BY <1>2, <2>2, <3>2 DEF Queued
  <2>3. CASE prio[q] # prio[p]
    BY <1>3, <1>6, <2>1, <2>3 DEF Queued
  <2> QED
    BY <2>2, <2>3
<1>7. \A i \in 1..Len(s) : s[i] # p
  BY DEF Queued
<1>8. QueueOnce'
  <2> SUFFICES ASSUME NEW k \in Level, NEW i \in 1..Len(mlq_ready_queue'[k])
               PROVE  /\ mlq_ready_queue'[k][i] \in loaded' \ finished'
                      /\ prio[mlq_ready_queue'[k][i]] = k
                      /\ \A c \in CPU : proc'[c] # mlq_ready_queue'[k][i]
                      /\ \A j \in 1..Len(mlq_ready_queue'[k]) :
                            mlq_ready_queue'[k][j] = mlq_ready_queue'[k][i] => i = j
    BY DEF QueueOnce
  <2>1. ASSUME NEW j \in 1..Len(mlq_ready_queue[k])
        PROVE  /\ mlq_ready_queue[k][j] \in loaded' \ finished'
               /\ prio[mlq_ready_queue[k][j]] = k
               /\ \A c \in CPU : proc'[c] # mlq_ready_queue[k][j]
               /\ \A h \in 1..Len(mlq_ready_queue[k]) :
                     mlq_ready_queue[k][h] = mlq_ready_queue[k][j] => j = h
    <3>1. /\ mlq_ready_queue[k][j] \in loaded \ finished
          /\ prio[mlq_ready_queue[k][j]] = k
          /\ \A c \in CPU : proc[c] # mlq_ready_queue[k][j]
          /\ \A h \in 1..Len(mlq_ready_queue[k]) :
                mlq_ready_queue[k][h] = mlq_ready_queue[k][j] => j = h
      BY DEF QueueOnce
    <3>2. mlq_ready_queue[k][j] # NULL
      BY <3>1 DEF SchedTypeOK
    <3> QED
      BY <3>1, <3>2
  <2>2. CASE k # prio[p]
    <3>1. mlq_ready_queue'[k] = mlq_ready_queue[k]
      BY <1>3, <2>2
    <3> QED
      BY <2>1, <3>1
  <2>3. CASE k = prio[p] /\ i \in 1..Len(s)
    <3>1. mlq_ready_queue'[k][i] = s[i]
      BY <1>2, <1>4, <2>3
    <3>2. ASSUME NEW j \in 1..Len(mlq_ready_queue'[k]),
                 mlq_ready_queue'[k][j] = mlq_ready_queue'[k][i]
          PROVE  i = j
      <4>1. CASE j \in 1..Len(s)
        <5>1. mlq_ready_queue'[k][j] = s[j]
          BY <1>2, <1>4, <2>3, <4>1
        <5>2. \A h \in 1..Len(s) : s[h] = s[i] => i = h
          BY <2>1, <2>3
        <5> QED
          BY <3>1, <3>2, <4>1, <5>1, <5>2
      <4>2. CASE j = Len(s) + 1
        <5>1. mlq_ready_queue'[k][j] = p
          BY <1>2, <1>4, <2>3, <4>2
        <5> QED
          BY <1>7, <2>3, <3>1, <3>2, <5>1
      <4> QED
        BY <1>2, <1>4, <2>3, <4>1, <4>2
    <3> QED
      BY <2>1, <2>3, <3>1, <3>2
  <2>4. CASE k = prio[p] /\ i = Len(s) + 1
    <3>1. mlq_ready_queue'[k][i] = p /\ prio[p] = k
      BY <1>2, <1>4, <2>4
    <3>2. ASSUME NEW j \in 1..Len(mlq_ready_queue'[k]), mlq_ready_queue'[k][j] = p
          PROVE  i = j
      <4>1. CASE j \in 1..Len(s)
        <5>1. mlq_ready_queue'[k][j] = s[j]
          BY <1>2, <1>4, <2>4, <4>1
        <5> QED
          BY <1>7, <3>2, <4>1, <5>1
      <4>2. CASE j = Len(s) + 1
        BY <2>4, <4>2
      <4> QED
        BY <1>2, <1>4, <2>4, <4>1, <4>2
    <3> QED
      BY <3>1, <3>2
  <2> QED
    BY <1>2, <1>4, <2>2, <2>3, <2>4
<1> QED
  BY <1>5, <1>6, <1>8

\* A step that moves no process keeps every process where it is.
LEMMA FrameStep == Placement /\ UNCHANGED placeVars => Placement'
BY DEF Placement, placeVars, QueueOnce, HeldOnce, Placed, Queued, Held

\* add_proc() puts a process that is nowhere at the end of its queue.
LEMMA AddStep ==
    ASSUME SchedTypeOK, SchedTypeOK', Placement, NEW p \in Proc, AddProc(p)
    PROVE  Placement'
<1> USE SchedAssumption DEF Placement
<1>1. /\ loaded' = loaded \cup {p} /\ p \notin loaded
      /\ finished' = finished /\ proc' = proc /\ Enqueue(p)
  BY DEF AddProc
<1>2. \A c \in CPU : proc[c] # p
  BY <1>1 DEF HeldOnce
<1>3. prio[p] \in Level
  BY DEF Level
<1>4. ~Queued(p)
  BY <1>1, <1>3 DEF QueueOnce, Queued
<1>5. p \in loaded' \ finished'
  BY <1>1
<1>6. /\ QueueOnce'
      /\ Queued(p)'
      /\ \A q \in Proc : Queued(q) => Queued(q)'
  BY <1>1, <1>2, <1>4, <1>5, EnqueueStep
<1>7. HeldOnce'
  BY <1>1 DEF HeldOnce
<1>8. Placed'
  <2> SUFFICES ASSUME NEW q \in loaded' \ finished' PROVE Queued(q)' \/ Held(q)'
    BY DEF Placed
  <2>1. q = p \/ Queued(q) \/ Held(q)
    BY <1>1 DEF Placed
  <2>2. Held(q) => Held(q)'
    BY <1>1 DEF Held
  <2>3. q \in Proc
    BY DEF SchedTypeOK
  <2> QED
    BY <1>6, <2>1, <2>2, <2>3
<1> QED
  BY <1>1, <1>6, <1>7, <1>8

\* put_proc() moves the process of a CPU to the end of its queue.
LEMMA PutStep ==
    ASSUME SchedTypeOK, SchedTypeOK', Placement, NEW c \in CPU, PutProc(c)
    PROVE  Placement'
<1> USE SchedAssumption DEF Placement
<1>0. PICK p \in Proc : p = proc[c]
  BY DEF PutProc, SchedTypeOK
<1>1. /\ loaded' = loaded /\ finished' = finished /\ Enqueue(p) /\ p # NULL
      /\ proc' = [proc EXCEPT ![c] = NULL]
  BY <1>0 DEF PutProc
<1>2. p \in Proc /\ p \in loaded' \ finished'
  BY <1>0, <1>1 DEF SchedTypeOK, HeldOnce
<1>3. \A d \in CPU : proc'[d] = IF d = c THEN NULL ELSE proc[d]
  BY <1>1 DEF SchedTypeOK
<1>4. \A d \in CPU : d # c => proc[d] # p
  BY <1>0, <1>1 DEF HeldOnce
<1>5. prio[p] \in Level
  BY <1>2 DEF Level
<1>6. ~Queued(p)
  BY <1>0, <1>5 DEF QueueOnce, Queued
<1>7. /\ QueueOnce'
      /\ Queued(p)'
      /\ \A q \in Proc : Queued(q) => Queued(q)'
  BY <1>1, <1>2, <1>3, <1>4, <1>6, EnqueueStep
<1>8. HeldOnce'
  BY <1>1, <1>3 DEF HeldOnce
<1>9. Placed'
  <2> SUFFICES ASSUME NEW q \in loaded' \ finished' PROVE Queued(q)' \/ Held(q)'
    BY DEF Placed
  <2>1. q \in Proc
    BY DEF SchedTypeOK
  <2>2. Queued(q) \/ Held(q)
    BY <1>1 DEF Placed
  <2>3. Held(q) => q = p \/ Held(q)'
    BY <1>0, <1>1, <1>3, <2>1 DEF Held
  <2> QED
    BY <1>7, <2>1, <2>2, <2>3
<1> QED
  BY <1>1, <1>7, <1>8, <1>9

\* free() takes a process out of the system.
LEMMA FreeStep ==
    ASSUME SchedTypeOK, SchedTypeOK', Placement, NEW c \in CPU, FreeProc(c)
    PROVE  Placement'
<1> USE SchedAssumption DEF Placement
<1> DEFINE p == proc[c]
<1>1. /\ loaded' = loaded /\ finished' = finished \cup {p} /\ p # NULL
      /\ mlq_ready_queue' = mlq_ready_queue
      /\ proc' = [proc EXCEPT ![c] = NULL]
  BY DEF FreeProc
<1>2. \A d \in CPU : proc'[d] = IF d = c THEN NULL ELSE proc[d]
  BY <1>1 DEF SchedTypeOK
<1>3. \A d \in CPU : d # c => proc[d] # p
  BY <1>1 DEF HeldOnce
<1>4. QueueOnce'
  <2> SUFFICES ASSUME NEW k \in Level, NEW i \in 1..Len(mlq_ready_queue[k])
               PROVE  /\ mlq_ready_queue[k][i] \in loaded' \ finished'
                      /\ prio[mlq_ready_queue[k][i]] = k
                      /\ \A d \in CPU : proc'[d] # mlq_ready_queue[k][i]
                      /\ \A j \in 1..Len(mlq_ready_queue[k]) :
                            mlq_ready_queue[k][j] = mlq_ready_queue[k][i] => i = j
    BY <1>1 DEF QueueOnce
  <2>1. /\ mlq_ready_queue[k][i] \in loaded \ finished
        /\ \A d \in CPU : proc[d] # mlq_ready_queue[k][i]
    BY DEF QueueOnce
  <2>2. mlq_ready_queue[k][i] # NULL
    BY <2>1 DEF SchedTypeOK
  <2>3. /\ mlq_ready_queue[k][i] \in loaded' \ finished'
        /\ \A d \in CPU : proc'[d] # mlq_ready_queue[k][i]
    BY <1>1, <1>2, <2>1, <2>2
  <2> QED
    BY <2>3 DEF QueueOnce
<1>5. HeldOnce'
  BY <1>1, <1>2, <1>3 DEF HeldOnce
<1>6. Placed'
  BY <1>1, <1>2 DEF Placed, Queued, Held
<1>7. finished' \subseteq loaded'
  BY <1>1 DEF HeldOnce
<1> QED
  BY <1>4, <1>5, <1>6, <1>7

\* dequeue() moves the first process of a queue to the CPU, or, when another
\* CPU has emptied the queue since it was tested, moves nothing.
LEMMA TakeStep ==
    ASSUME SchedTypeOK, SchedTypeOK', Placement, NEW c \in CPU, TakeProc(c),
           proc[c] = NULL
    PROVE  Placement'
<1> USE SchedAssumption DEF Placement
<1>0. PICK k \in Level : k = prio_select[c]
  BY DEF SchedTypeOK
<1>1. loaded' = loaded /\ finished' = finished /\ Dequeue(c, k)
  BY <1>0 DEF TakeProc
<1>2. CASE Empty(k)
  <2>1. mlq_ready_queue' = mlq_ready_queue /\ proc' = proc
    BY <1>1, <1>2 DEF Dequeue, SchedTypeOK
  <2> QED
    BY <1>1, <2>1, FrameStep DEF placeVars
<1>3. CASE ~Empty(k)
  <2>1. PICK s \in Seq(Proc) : s = mlq_ready_queue[k] /\ s # <<>>
    BY <1>3 DEF Empty, SchedTypeOK
  <2>2. /\ Len(Tail(s)) = Len(s) - 1
        /\ Len(s) \in Nat /\ Len(s) > 0
        /\ \A i \in 1..(Len(s) - 1) : Tail(s)[i] = s[i + 1]
        /\ Head(s) = s[1]
        /\ s[1] \in Proc
    BY <2>1, TailElements
  <2>3. PICK p \in Proc : p = s[1]
    BY <2>2
  <2>4. /\ mlq_ready_queue'[k] = Tail(s)
        /\ \A h \in Level : h # k => mlq_ready_queue'[h] = mlq_ready_queue[h]
        /\ \A d \in CPU : proc'[d] = IF d = c THEN p ELSE proc[d]
    BY <1>1, <1>3, <2>1, <2>2, <2>3 DEF Dequeue, SchedTypeOK
  <2>5. \A i \in 1..Len(s) :
           /\ s[i] \in loaded \ finished
           /\ prio[s[i]] = k
           /\ \A d \in CPU : proc[d] # s[i]
           /\ \A j \in 1..Len(s) : s[j] = s[i] => i = j
    BY <2>1 DEF QueueOnce
  <2>6. /\ p \in loaded \ finished /\ prio[p] = k
        /\ \A d \in CPU : proc[d] # p
        /\ \A j \in 1..Len(s) : s[j] = p => j = 1
    <3>1. 1 \in 1..Len(s)
      BY <2>2
    <3>2. /\ s[1] \in loaded \ finished /\ prio[s[1]] = k
          /\ \A d \in CPU : proc[d] # s[1]
          /\ \A j \in 1..Len(s) : s[j] = s[1] => 1 = j
      BY <2>5, <3>1
    <3> QED
      BY <2>3, <3>2
  <2>7. QueueOnce'
    <3> SUFFICES ASSUME NEW h \in Level, NEW i \in 1..Len(mlq_ready_queue'[h])
                 PROVE  /\ mlq_ready_queue'[h][i] \in loaded \ finished
                        /\ prio[mlq_ready_queue'[h][i]] = h
                        /\ \A d \in CPU : proc'[d] # mlq_ready_queue'[h][i]
                        /\ \A j \in 1..Len(mlq_ready_queue'[h]) :
                              mlq_ready_queue'[h][j] = mlq_ready_queue'[h][i] => i = j
      BY <1>1 DEF QueueOnce
    <3>1. CASE h = k
      <4>1. i \in 1..(Len(s) - 1) /\ mlq_ready_queue'[h][i] = s[i + 1]
        BY <2>2, <2>4, <3>1
      <4>2. i + 1 \in 1..Len(s) /\ s[i + 1] # p
        BY <2>2, <2>6, <4>1
      <4>3. \A d \in CPU : proc'[d] # s[i + 1]
        BY <2>4, <2>5, <4>2
      <4>4. ASSUME NEW j \in 1..Len(mlq_ready_queue'[h]),
                   mlq_ready_queue'[h][j] = mlq_ready_queue'[h][i]
            PROVE  i = j
        <5>1. j + 1 \in 1..Len(s) /\ s[j + 1] = s[i + 1]
          <6>1. j \in 1..(Len(s) - 1)
            BY <2>2, <2>4, <3>1
          <6>2. mlq_ready_queue'[h][j] = s[j + 1]
            BY <2>2, <2>4, <3>1, <6>1
          <6> QED
            BY <2>2, <4>1, <4>4, <6>1, <6>2
        <5>2. i + 1 = j + 1
          BY <2>5, <4>2, <5>1
        <5> QED
          BY <5>2
      <4> QED
        BY <2>5, <3>1, <4>1, <4>2, <4>3, <4>4
    <3>2. CASE h # k
      <4>1. mlq_ready_queue'[h] = mlq_ready_queue[h]
        BY <2>4, <3>2
      <4>2. /\ mlq_ready_queue[h][i] \in loaded \ finished
            /\ prio[mlq_ready_queue[h][i]] = h
            /\ \A d \in CPU : proc[d] # mlq_ready_queue[h][i]
            /\ \A j \in 1..Len(mlq_ready_queue[h]) :
                  mlq_ready_queue[h][j] = mlq_ready_queue[h][i] => i = j
        BY <4>1 DEF QueueOnce
      <4>3. \A d \in CPU : proc'[d] # mlq_ready_queue[h][i]
        BY <2>4, <2>6, <3>2, <4>2
      <4> QED
        BY <4>1, <4>2, <4>3
    <3> QED
      BY <3>1, <3>2
  <2>8. HeldOnce'
    BY <1>1, <2>4, <2>6 DEF HeldOnce
  <2>9. Placed'
    <3> SUFFICES ASSUME NEW q \in loaded \ finished PROVE Queued(q)' \/ Held(q)'
      BY <1>1 DEF Placed
    <3>1. q \in Proc /\ prio[q] \in Level
      BY DEF SchedTypeOK, Level
    <3>2. CASE Held(q)
      <4>1. PICK d \in CPU : proc[d] = q
        BY <3>2 DEF Held
      <4>2. d # c
        BY <3>1, <4>1
      <4> QED
        BY <2>4, <4>1, <4>2 DEF Held
    <3>3. CASE Queued(q) /\ prio[q] = k
      <4>1. PICK i \in 1..Len(s) : s[i] = q
        BY <2>1, <3>3 DEF Queued
      <4>2. CASE i = 1
        BY <2>3, <2>4, <4>1, <4>2 DEF Held
      <4>3. CASE i # 1
        <5>1. i - 1 \in 1..(Len(s) - 1) /\ Tail(s)[i - 1] = q
          BY <2>2, <4>1, <4>3
        <5> QED
          BY <2>2, <2>4, <3>3, <5>1 DEF Queued
      <4> QED
        BY <4>2, <4>3
    <3>4. CASE Queued(q) /\ prio[q] # k
      BY <2>4, <3>1, <3>4 DEF Queued
    <3> QED
      BY <3>2, <3>3, <3>4 DEF Placed
  <2> QED
    BY <1>1, <2>7, <2>8, <2>9
<1> QED
  BY <1>2, <1>3

\* A CPU inside get_proc() holds no process.
GetHoldsNone == \A c \in CPU : gpc[c] # "idle" => proc[c] = NULL

PlacementInv == SchedTypeOK /\ GetHoldsNone /\ Placement

\* After init_scheduler() no process is anywhere.
LEMMA InitPlacement == SchedInit => PlacementInv
<1> SUFFICES ASSUME SchedInit PROVE PlacementInv
  OBVIOUS
<1> USE SchedAssumption DEF SchedInit
<1>1. SchedTypeOK
  <2>1. slot \in [Level -> 0..UINT_MAX] /\ 0 \in Level
    BY DEF FullSlots, Level
  <2> QED
    BY <2>1 DEF SchedTypeOK
<1>2. GetHoldsNone
  BY DEF GetHoldsNone
<1>3. Placement
  BY DEF Placement, QueueOnce, HeldOnce, Placed, Queued, Held
<1> QED
  BY <1>1, <1>2, <1>3 DEF PlacementInv

\* Every step of the loader and of a CPU preserves the placement.
LEMMA NextPlacement == PlacementInv /\ [SchedNext]_schedVars => PlacementInv'
<1> SUFFICES ASSUME PlacementInv, [SchedNext]_schedVars PROVE PlacementInv'
  OBVIOUS
<1>1. SchedTypeOK /\ SchedTypeOK' /\ GetHoldsNone /\ Placement
  BY TypeStep DEF PlacementInv
<1>2. GetHoldsNone'
  <2> USE <1>1 DEF SchedTypeOK, GetHoldsNone, Goto, Return, NextLevel
  <2>1. ASSUME NEW p \in Proc, AddProc(p) PROVE GetHoldsNone'
    BY <2>1 DEF AddProc
  <2>2. ASSUME NEW c \in CPU, PutProc(c) \/ FreeProc(c) \/ GetProc(c) PROVE GetHoldsNone'
    BY <2>2 DEF PutProc, FreeProc, GetProc
  <2>3. ASSUME NEW c \in CPU, QueueEmpty(c) \/ SelectLevel(c) \/ TestSlot(c) \/ ResetSlots(c)
        PROVE GetHoldsNone'
    BY <2>3 DEF QueueEmpty, SelectLevel, TestSlot, ResetSlots
  <2>4. ASSUME NEW c \in CPU, TakeProc(c) PROVE GetHoldsNone'
    BY <2>4 DEF TakeProc, Dequeue
  <2>5. CASE UNCHANGED schedVars
    BY <2>5 DEF schedVars
  <2> QED
    BY <2>1, <2>2, <2>3, <2>4, <2>5 DEF SchedNext, Serve, GetStep, Undefined
<1>3. Placement'
  <2>1. ASSUME NEW c \in CPU, TakeProc(c) PROVE proc[c] = NULL
    BY <1>1, <2>1 DEF GetHoldsNone, TakeProc
  <2>2. ASSUME NEW c \in CPU,
               GetProc(c) \/ QueueEmpty(c) \/ SelectLevel(c) \/ TestSlot(c) \/ ResetSlots(c)
        PROVE  UNCHANGED placeVars
    BY <2>2 DEF GetProc, QueueEmpty, SelectLevel, TestSlot, ResetSlots, placeVars
  <2>3. UNCHANGED schedVars => UNCHANGED placeVars
    BY DEF schedVars, placeVars
  <2> QED
    BY <1>1, <2>1, <2>2, <2>3, AddStep, PutStep, FreeStep, TakeStep, FrameStep
       DEF SchedNext, Serve, GetStep, Undefined
<1> QED
  BY <1>1, <1>2, <1>3 DEF PlacementInv

\* The inductive invariant of the scheduler.
THEOREM PlacementInvariant == SchedSpec => []PlacementInv
BY InitPlacement, NextPlacement, PTL DEF SchedSpec

\* The variables of the scheduler always have their types.
THEOREM SchedTypeCorrect == SchedSpec => []SchedTypeOK
<1>1. PlacementInv => SchedTypeOK
  BY DEF PlacementInv
<1> QED
  BY <1>1, PlacementInvariant, PTL

\* A process is never in two places, whatever the CPUs do inside get_proc().
THEOREM OnePlaceTheorem == SchedSpec => []OnePlace
<1>1. PlacementInv => OnePlace
  BY DEF PlacementInv, Placement, OnePlace
<1> QED
  BY <1>1, PlacementInvariant, PTL

\* No process that was added is lost before it is freed.
THEOREM NoneLostTheorem == SchedSpec => []NoneLost
<1>1. PlacementInv => NoneLost
  BY DEF PlacementInv, Placement, NoneLost
<1> QED
  BY <1>1, PlacementInvariant, PTL

\* A queue is an injection into the processes that wait at its level, since
\* it holds no process twice, none that runs and none that has finished: it
\* outgrows its array only when more of them wait than the array has places.
THEOREM OverrunOnlyIfCrowdedTheorem == SchedSpec => []OverrunOnlyIfCrowded
<1>1. PlacementInv => OverrunOnlyIfCrowded
  <2> SUFFICES ASSUME PlacementInv, NEW k \in Level, Len(mlq_ready_queue[k]) > MAX_QUEUE_SIZE
               PROVE  Cardinality(Waiting(k)) > MAX_QUEUE_SIZE
    BY DEF OverrunOnlyIfCrowded
  <2>1. PICK s \in Seq(Proc) : s = mlq_ready_queue[k]
    BY DEF PlacementInv, SchedTypeOK
  <2>2. Len(s) \in Nat /\ s \in [1..Len(s) -> Proc]
    BY <2>1
  <2>3. ASSUME NEW i \in 1..Len(s) PROVE s[i] \in Waiting(k)
    <3>1. /\ s[i] \in loaded \ finished
          /\ prio[s[i]] = k
          /\ \A c \in CPU : proc[c] # s[i]
      BY <2>1 DEF PlacementInv, Placement, QueueOnce
    <3> QED
      BY <3>1 DEF Waiting, Held
  <2>4. \A i, j \in 1..Len(s) : s[i] = s[j] => i = j
    BY <2>1 DEF PlacementInv, Placement, QueueOnce
  <2>5. s \in Injection(1..Len(s), Waiting(k))
    <3>1. s \in [1..Len(s) -> Waiting(k)]
      BY <2>2, <2>3
    <3> QED
      BY <2>4, <3>1, Fun_IsInj
  <2>6. IsFiniteSet(Waiting(k))
    <3>1. IsFiniteSet(Proc)
      BY SchedAssumption
    <3>2. Waiting(k) \subseteq Proc
      BY DEF Waiting, PlacementInv, SchedTypeOK
    <3> QED
      BY <3>1, <3>2, FS_Subset
  <2>7. Cardinality(1..Len(s)) <= Cardinality(Waiting(k))
    BY <2>5, <2>6, FS_Injection
  <2>8. Cardinality(1..Len(s)) = Len(s)
    <3>1. PICK n \in Nat : n = Len(s)
      BY <2>2
    <3>2. Cardinality(1..n) = IF 1 > n THEN 0 ELSE n - 1 + 1
      BY FS_Interval
    <3> QED
      BY <3>1, <3>2
  <2>9. Cardinality(Waiting(k)) \in Nat
    BY <2>6, FS_CardinalityType
  <2>10. MAX_QUEUE_SIZE \in Nat /\ Len(s) > MAX_QUEUE_SIZE
    BY <2>1, SchedAssumption
  <2> QED
    BY <2>2, <2>7, <2>8, <2>9, <2>10
<1> QED
  BY <1>1, PlacementInvariant, PTL

-----------------------------------------------------------------------------
\* What bounds the slots when a single CPU calls get_proc(): between its
\* unlocked test of slot and the decrement nobody else changes the counter.
SlotsInRange == \A k \in Level : slot[k] \in 0..(MAX_PRIO - k)

SlotInv == SlotsInRange /\ \A c \in CPU : gpc[c] = "take" => slot[prio_select[c]] > 0

\* With one CPU the slot counters stay in the range that the comment above
\* get_mlq_proc() gives, so they never wrap around.
THEOREM SlotRangeTheorem ==
    ASSUME \A c, d \in CPU : c = d
    PROVE  SchedSpec => []SlotRange
<1> USE SchedAssumption
<1>0. \A k \in Level : FullSlots[k] = MAX_PRIO - k /\ FullSlots[k] \in 0..(MAX_PRIO - k)
  BY DEF FullSlots, Level
<1>1. SchedInit => SlotInv
  BY <1>0 DEF SchedInit, SlotInv, SlotsInRange, Level
<1>2. SchedTypeOK /\ SlotInv /\ [SchedNext]_schedVars => SlotInv'
  <2> SUFFICES ASSUME SchedTypeOK, SlotInv, [SchedNext]_schedVars PROVE SlotInv'
    OBVIOUS
  <2> USE DEF SlotInv, SlotsInRange, SchedTypeOK
  <2>1. ASSUME NEW p \in Proc, AddProc(p) PROVE SlotInv'
    BY <2>1 DEF AddProc
  <2>2. ASSUME NEW c \in CPU, PutProc(c) \/ FreeProc(c) PROVE SlotInv'
    BY <2>2 DEF PutProc, FreeProc
  <2>3. ASSUME NEW c \in CPU, GetProc(c) \/ QueueEmpty(c) PROVE SlotInv'
    BY <2>3 DEF GetProc, QueueEmpty, Goto, Return
  <2>4. ASSUME NEW c \in CPU, SelectLevel(c) \/ ResetSlots(c) PROVE SlotInv'
    <3>1. slot' = slot \/ slot' = FullSlots
      BY <2>4 DEF SelectLevel, ResetSlots
    <3>2. gpc'[c] # "take"
      BY <2>4 DEF SelectLevel, ResetSlots, NextLevel, Goto, Return
    <3> QED
      BY <1>0, <3>1, <3>2
  <2>5. ASSUME NEW c \in CPU, TestSlot(c) PROVE SlotInv'
    <3>1. slot' = slot
      BY <2>5 DEF TestSlot
    <3>2. gpc'[c] = "take" => slot[prio_select'[c]] > 0
      BY <2>5 DEF TestSlot, NextLevel, Goto, Return
    <3> QED
      BY <3>1, <3>2
  <2>6. ASSUME NEW c \in CPU, TakeProc(c) PROVE SlotInv'
    <3>1. prio_select[c] \in Level /\ slot[prio_select[c]] > 0
      BY <2>6 DEF TakeProc
    <3>2. \A k \in Level : slot'[k] = IF k = prio_select[c] THEN slot[k] - 1 ELSE slot[k]
      <4>1. Decrement(slot[prio_select[c]]) = slot[prio_select[c]] - 1
        BY <3>1 DEF Decrement
      <4> QED
        BY <2>6, <4>1 DEF TakeProc
    <3>3. gpc'[c] # "take"
      BY <2>6 DEF TakeProc, Goto, Return
    <3>4. ASSUME NEW k \in Level PROVE slot'[k] \in 0..(MAX_PRIO - k)
      <4>0. k \in Nat /\ MAX_PRIO \in Nat
        BY DEF Level
      <4>1. slot[k] \in 0..(MAX_PRIO - k)
        OBVIOUS
      <4>2. CASE k = prio_select[c]
        <5>1. slot'[k] = slot[k] - 1 /\ slot[k] > 0
          BY <3>1, <3>2, <4>2
        <5> QED
          BY <4>0, <4>1, <5>1
      <4>3. CASE k # prio_select[c]
        BY <3>2, <4>1, <4>3
      <4> QED
        BY <4>2, <4>3
    <3> QED
      BY <3>3, <3>4
  <2>7. CASE UNCHANGED schedVars
    BY <2>7 DEF schedVars
  <2> QED
    BY <2>1, <2>2, <2>3, <2>4, <2>5, <2>6, <2>7 DEF SchedNext, Serve, GetStep, Undefined
<1>3. SlotInv => SlotRange
  BY DEF SlotInv, SlotsInRange, SlotRange
<1> QED
  BY <1>1, <1>2, <1>3, SchedTypeCorrect, PTL DEF SchedSpec

-----------------------------------------------------------------------------
(* What the priorities promise *)

\* A level that was eligible when a single CPU called get_proc() stays so, and
\* the CPU does not pass it; what the CPU found ready before it took the lock
\* again is still there.
EligibleInv ==
    \A c \in CPU : gpc[c] # "idle" =>
        \A k \in eligible[c] :
            k \in Level /\ ~Empty(k) /\ slot[k] > 0 /\ prio_select[c] <= k /\ gpc[c] # "reset"

FoundInv == \A c \in CPU : gpc[c] \in {"slot", "take"} => ~Empty(prio_select[c])

HistoryInv == PlacementInv /\ eligible \in [CPU -> SUBSET Level] /\ EligibleInv /\ FoundInv

\* Remembering the levels changes nothing.
LEMMA HistoryImplementsSched == HistorySpec => SchedSpec
<1>1. HistoryInit => SchedInit
  BY DEF HistoryInit
<1>2. [HistoryNext]_historyVars => [SchedNext]_schedVars
  BY DEF HistoryNext, historyVars, SchedNext, Serve, Undefined
<1> QED
  BY <1>1, <1>2, PTL DEF HistorySpec, SchedSpec

\* The level after one that cannot be served is not behind an eligible level; the
\* last one is then the end of the loop only if no level was eligible.
LEMMA NotPassed ==
    ASSUME SchedTypeOK, NEW c \in CPU, NEW j \in Level, NextLevel(c, j),
           NEW k \in Level, j <= k, j # k
    PROVE  gpc'[c] = "select" /\ prio_select'[c] = j + 1 /\ j + 1 <= k
<1>1. j # MAX_PRIO - 1 /\ j + 1 <= k
  BY SchedAssumption DEF Level
<1> QED
  BY <1>1 DEF NextLevel, Goto, SchedTypeOK

\* enqueue() empties no queue.
LEMMA EnqueueFills ==
    ASSUME SchedTypeOK, NEW p \in Proc, Enqueue(p), NEW k \in Level, ~Empty(k)
    PROVE  ~Empty(k)'
<1>1. PICK s \in Seq(Proc) : s = mlq_ready_queue[k] /\ s # <<>>
  BY DEF SchedTypeOK, Empty
<1>2. mlq_ready_queue'[k] = IF k = prio[p] THEN Append(s, p) ELSE s
  BY <1>1 DEF Enqueue, SchedTypeOK
<1>3. Append(s, p) # <<>>
  <2>1. Len(Append(s, p)) = Len(s) + 1 /\ Len(s) \in Nat /\ Len(<<>>) = 0
    BY AppendElements
  <2> QED
    BY <2>1
<1> QED
  BY <1>1, <1>2, <1>3 DEF Empty

\* Every step keeps the invariant, since no other CPU empties a queue or uses a slot.
LEMMA HistoryStep ==
    ASSUME \A c, d \in CPU : c = d, HistoryInv, [HistoryNext]_historyVars
    PROVE  HistoryInv'
<1> USE SchedAssumption
<1>1. SchedTypeOK /\ eligible \in [CPU -> SUBSET Level] /\ EligibleInv /\ FoundInv /\ PlacementInv
  BY DEF HistoryInv, PlacementInv
<1>2. [SchedNext]_schedVars
  BY DEF HistoryNext, historyVars, SchedNext, Serve, Undefined
<1>3. PlacementInv' /\ SchedTypeOK'
  BY <1>1, <1>2, NextPlacement DEF PlacementInv
<1>4. CASE UNCHANGED historyVars
  BY <1>1, <1>3, <1>4 DEF historyVars, schedVars, HistoryInv, EligibleInv, FoundInv, Empty
<1>5. ASSUME NEW p \in Proc, AddProc(p), UNCHANGED eligible PROVE HistoryInv'
  <2>1. \A k \in Level : ~Empty(k) => ~Empty(k)'
    BY <1>1, <1>5, EnqueueFills DEF AddProc
  <2>2. UNCHANGED <<slot, gpc, prio_select, eligible>> /\ \A c \in CPU : prio_select[c] \in Level
    BY <1>1, <1>5 DEF AddProc, SchedTypeOK
  <2> QED
    BY <1>1, <1>3, <2>1, <2>2 DEF HistoryInv, EligibleInv, FoundInv
<1>6. ASSUME NEW c \in CPU, GetProc(c), eligible' = [eligible EXCEPT ![c] = EligibleLevels]
      PROVE  HistoryInv'
  <2>1. /\ eligible' \in [CPU -> SUBSET Level] /\ eligible'[c] = EligibleLevels
        /\ EligibleLevels \subseteq Level
    BY <1>1, <1>6 DEF EligibleLevels
  <2>2. gpc'[c] = "scan" /\ prio_select'[c] = 0 /\ UNCHANGED <<mlq_ready_queue, slot>>
    BY <1>1, <1>6 DEF GetProc, Goto, SchedTypeOK
  <2>3. \A k \in EligibleLevels : k \in Level /\ ~Empty(k)' /\ slot'[k] > 0 /\ 0 <= k
    BY <2>2 DEF EligibleLevels, Empty, Level
  <2> QED
    BY <1>3, <2>1, <2>2, <2>3 DEF HistoryInv, EligibleInv, FoundInv
<1>7. ASSUME NEW c \in CPU, PutProc(c) \/ FreeProc(c), UNCHANGED eligible PROVE HistoryInv'
  <2>1. gpc'[c] = "idle"
    BY <1>7 DEF PutProc, FreeProc
  <2> QED
    BY <1>1, <1>3, <1>7, <2>1 DEF HistoryInv, EligibleInv, FoundInv
<1>8. ASSUME NEW c \in CPU, GetStep(c), UNCHANGED eligible PROVE HistoryInv'
  <2>1. PICK j \in Level : j = prio_select[c]
    BY <1>1 DEF SchedTypeOK
  <2>2. gpc[c] # "idle"
    BY <1>8 DEF GetStep, QueueEmpty, SelectLevel, TestSlot, TakeProc, ResetSlots
  <2>3. ASSUME NEW k \in eligible[c]
        PROVE  k \in Level /\ ~Empty(k) /\ slot[k] > 0 /\ j <= k /\ gpc[c] # "reset"
    BY <1>1, <2>1, <2>2 DEF EligibleInv
  <2> DEFINE Kept ==
        /\ gpc'[c] # "idle" =>
             \A k \in eligible[c] : ~Empty(k)' /\ slot'[k] > 0 /\ prio_select'[c] <= k /\ gpc'[c] # "reset"
        /\ gpc'[c] \in {"slot", "take"} => mlq_ready_queue'[prio_select'[c]] # <<>>
  <2>4. SUFFICES Kept
    <3>1. \A d \in CPU : d = c
      OBVIOUS
    <3>2. EligibleInv'
      BY <1>8, <2>3, <3>1 DEF EligibleInv
    <3>3. FoundInv'
      BY <3>1 DEF FoundInv, Empty
    <3> QED
      BY <1>1, <1>3, <1>8, <3>2, <3>3 DEF HistoryInv
  <2>5. CASE QueueEmpty(c)
    <3>1. UNCHANGED <<mlq_ready_queue, slot>>
      BY <2>5 DEF QueueEmpty
    <3>2. \/ gpc'[c] = "idle"
          \/ gpc'[c] = "select" /\ prio_select'[c] = 0
          \/ gpc'[c] = "scan" /\ prio_select'[c] = j + 1 /\ Empty(j)
      BY <1>1, <2>1, <2>5 DEF QueueEmpty, Return, Goto, SchedTypeOK
    <3>3. ASSUME NEW k \in eligible[c], gpc'[c] # "idle" PROVE prio_select'[c] <= k
      <4>1. k \in Level /\ j <= k /\ ~Empty(k)
        BY <2>3
      <4>2. Empty(j) => j + 1 <= k
        BY <4>1 DEF Level
      <4> QED
        BY <3>2, <3>3, <4>1, <4>2 DEF Level
    <3> QED
      BY <2>3, <3>1, <3>2, <3>3 DEF Empty
  <2>6. CASE SelectLevel(c) /\ Empty(j)
    <3>1. UNCHANGED mlq_ready_queue /\ NextLevel(c, j) /\ slot' = IF j = MAX_PRIO - 1 THEN FullSlots ELSE slot
      BY <2>1, <2>6 DEF SelectLevel
    <3>2. gpc'[c] \in {"idle", "select"}
      BY <1>1, <3>1 DEF NextLevel, Return, Goto, SchedTypeOK
    <3>3. ASSUME NEW k \in eligible[c]
          PROVE  ~Empty(k)' /\ slot'[k] > 0 /\ prio_select'[c] <= k
      <4>1. k \in Level /\ j <= k /\ ~Empty(k) /\ slot[k] > 0 /\ j # k
        BY <2>3, <2>6
      <4>2. prio_select'[c] <= k
        BY <1>1, <3>1, <4>1, NotPassed
      <4>3. j # MAX_PRIO - 1
        BY <4>1 DEF Level
      <4> QED
        BY <3>1, <4>1, <4>2, <4>3 DEF Empty
    <3> QED
      BY <3>2, <3>3
  <2>7. CASE SelectLevel(c) /\ ~Empty(j)
    <3>1. UNCHANGED <<mlq_ready_queue, slot>> /\ gpc'[c] = "slot" /\ prio_select'[c] = j
      BY <1>1, <2>1, <2>7 DEF SelectLevel, Goto, SchedTypeOK
    <3> QED
      BY <2>3, <2>7, <3>1 DEF Empty
  <2>8. CASE TestSlot(c)
    <3>1. UNCHANGED <<mlq_ready_queue, slot>> /\ ~Empty(j)
      BY <1>1, <2>1, <2>8 DEF TestSlot, FoundInv
    <3>2. CASE slot[j] > 0 /\ Goto(c, "take", j)
      <4>1. gpc'[c] = "take" /\ prio_select'[c] = j
        BY <1>1, <3>2 DEF Goto, SchedTypeOK
      <4> QED
        BY <2>3, <3>1, <4>1 DEF Empty
    <3>3. CASE slot[j] = 0 /\ j = MAX_PRIO - 1 /\ Goto(c, "reset", j)
      <4>1. gpc'[c] = "reset"
        BY <1>1, <3>3 DEF Goto, SchedTypeOK
      <4>2. ASSUME NEW k \in eligible[c] PROVE FALSE
        <5>1. k \in Level /\ j <= k /\ slot[k] > 0
          BY <2>3
        <5>2. k = j
          BY <3>3, <5>1 DEF Level
        <5> QED
          BY <3>3, <5>1, <5>2
      <4> QED
        BY <4>1, <4>2
    <3>4. CASE slot[j] = 0 /\ j < MAX_PRIO - 1 /\ NextLevel(c, j)
      <4>1. gpc'[c] \in {"idle", "select"}
        BY <1>1, <3>4 DEF NextLevel, Return, Goto, SchedTypeOK
      <4>2. ASSUME NEW k \in eligible[c] PROVE prio_select'[c] <= k
        <5>1. k \in Level /\ j <= k /\ j # k
          <6>1. k \in Level /\ j <= k /\ slot[k] > 0
            BY <2>3
          <6>2. k # j
            BY <3>4, <6>1
          <6> QED
            BY <6>1, <6>2
        <5> QED
          BY <1>1, <3>4, <5>1, NotPassed
      <4> QED
        BY <2>3, <3>1, <4>1, <4>2 DEF Empty
    <3> QED
      BY <2>1, <2>8, <3>2, <3>3, <3>4 DEF TestSlot
  <2>9. CASE TakeProc(c)
    <3>1. gpc'[c] = "idle"
      BY <1>1, <2>9 DEF TakeProc, Return, Goto, SchedTypeOK
    <3> QED
      BY <3>1
  <2>10. CASE ResetSlots(c)
    <3>1. eligible[c] = {}
      BY <2>3, <2>10 DEF ResetSlots
    <3>2. gpc'[c] \in {"idle", "select"}
      BY <1>1, <2>10 DEF ResetSlots, NextLevel, Return, Goto, SchedTypeOK
    <3> QED
      BY <3>1, <3>2
  <2> QED
    BY <1>8, <2>5, <2>6, <2>7, <2>8, <2>9, <2>10 DEF GetStep
<1> QED
  BY <1>4, <1>5, <1>6, <1>7, <1>8 DEF HistoryNext, Undefined, historyVars

\* What a return from get_proc() gives.
LEMMA ReturnStep ==
    ASSUME \A c, d \in CPU : c = d, HistoryInv, HistoryNext,
           NEW c \in CPU, gpc[c] # "idle", gpc'[c] = "idle", NEW k \in eligible[c]
    PROVE  proc'[c] # NULL /\ prio[proc'[c]] <= k
<1> USE SchedAssumption
<1>1. SchedTypeOK /\ EligibleInv /\ FoundInv /\ QueueOnce
  BY DEF HistoryInv, PlacementInv, Placement
<1>2. PICK j \in Level : j = prio_select[c]
  BY <1>1 DEF SchedTypeOK
<1>3. k \in Level /\ ~Empty(k) /\ slot[k] > 0 /\ j <= k /\ gpc[c] # "reset"
  BY <1>1, <1>2 DEF EligibleInv
<1>4. GetStep(c)
  <2>1. ASSUME NEW d \in CPU, GetProc(d) \/ PutProc(d) \/ FreeProc(d) PROVE FALSE
    <3>1. c = d
      OBVIOUS
    <3> QED
      BY <2>1, <3>1 DEF GetProc, PutProc, FreeProc
  <2>2. ASSUME NEW p \in Proc, AddProc(p) PROVE FALSE
    BY <2>2 DEF AddProc
  <2>3. ~Undefined
    BY DEF Undefined, schedVars
  <2> QED
    BY <2>1, <2>2, <2>3 DEF HistoryNext
<1>5. ~QueueEmpty(c)
  <2> SUFFICES ASSUME QueueEmpty(c) PROVE FALSE
    OBVIOUS
  <2>1. Empty(j) /\ j = MAX_PRIO - 1
    BY <1>1, <1>2 DEF QueueEmpty, Goto, SchedTypeOK
  <2> QED
    BY <1>3, <2>1 DEF Level
<1>6. ~SelectLevel(c)
  <2> SUFFICES ASSUME SelectLevel(c) PROVE FALSE
    OBVIOUS
  <2>1. Empty(j) /\ NextLevel(c, j)
    BY <1>1, <1>2 DEF SelectLevel, Goto, SchedTypeOK
  <2> QED
    BY <1>1, <1>3, <2>1, NotPassed
<1>7. ~TestSlot(c)
  BY <1>1, <1>2 DEF TestSlot, NextLevel, Goto, SchedTypeOK
<1>8. ~ResetSlots(c)
  BY <1>3 DEF ResetSlots
<1>9. TakeProc(c)
  BY <1>4, <1>5, <1>6, <1>7, <1>8 DEF GetStep
<1>10. PICK s \in Seq(Proc) : s = mlq_ready_queue[j] /\ s # <<>>
  BY <1>1, <1>2, <1>9 DEF TakeProc, FoundInv, Empty, SchedTypeOK
<1>11. Head(s) = s[1] /\ s[1] \in Proc /\ 1 \in 1..Len(s)
  <2>1. Head(s) = s[1] /\ s[1] \in Proc /\ Len(s) \in Nat /\ Len(s) > 0
    BY <1>10, TailElements
  <2> QED
    BY <2>1
<1>12. prio[s[1]] = j
  BY <1>1, <1>10, <1>11 DEF QueueOnce
<1>13. proc'[c] = s[1]
  BY <1>1, <1>2, <1>9, <1>10, <1>11 DEF TakeProc, Dequeue, Empty, SchedTypeOK
<1> QED
  BY <1>3, <1>11, <1>12, <1>13

\* With one CPU, get_proc() serves the most urgent level that could be served
\* when it was called, although it reads the queues and the slots without the
\* lock while the loader adds processes, and returns NULL only if there is none.
THEOREM HighestPriorityFirstTheorem ==
    ASSUME \A c, d \in CPU : c = d
    PROVE  HistorySpec => HighestPriorityFirst
<1>1. HistoryInit => HistoryInv
  <2> SUFFICES ASSUME HistoryInit PROVE HistoryInv
    OBVIOUS
  <2>1. PlacementInv
    BY InitPlacement DEF HistoryInit
  <2>2. eligible \in [CPU -> SUBSET Level] /\ \A c \in CPU : gpc[c] = "idle"
    BY DEF HistoryInit, SchedInit
  <2> QED
    BY <2>1, <2>2 DEF HistoryInv, EligibleInv, FoundInv
<1>2. HistoryInv /\ [HistoryNext]_historyVars => HistoryInv'
  BY HistoryStep
<1>3. HistoryInv /\ [HistoryNext]_historyVars =>
        [\A c \in CPU : gpc[c] # "idle" /\ gpc'[c] = "idle" =>
            \A k \in eligible[c] : proc'[c] # NULL /\ prio[proc'[c]] <= k]_historyVars
  BY ReturnStep
<1> QED
  BY <1>1, <1>2, <1>3, PTL DEF HistorySpec, HighestPriorityFirst

=============================================================================
