---------------------------- MODULE OneTbbProofs ----------------------------
(***************************************************************************)
(* Theorems about OneTbbWrapper, for any threads, tasks and bounds: the    *)
(* counter covers what is unfinished, nothing runs twice, and the counter  *)
(* exceeds the maximum by no more than its steps can explain.              *)
(***************************************************************************)
EXTENDS OneTbbWrapper, FiniteSetTheorems, TLAPS

(* Where a task can be between its admission and its end: in a buffer of   *)
(* its thread, in the vector on its way there, or in the arena.            *)
Spots == Streamed \cup {"streaming", "batch"}

At(c, spot) ==
    IF spot = "batch" THEN batch[c]
    ELSE IF spot = "streaming" THEN IF pc[c] = "streamed" THEN tasks[c] ELSE {}
    ELSE buffer[c][spot]

Types ==
    /\ buffer \in [Callers -> [Streamed -> SUBSET Tasks]]
    /\ pc \in [Callers -> {"idle", "tryEnqueue", "admitted", "streamed", "arena", "drain"}]
    /\ tasks \in [Callers -> SUBSET Tasks]
    /\ strategy \in [Callers -> Strategies \cup {"none"}]
    /\ batch \in [Callers -> SUBSET Tasks]
    /\ taskCount \in [Callers -> Nat]
    /\ accepted \subseteq Tasks /\ dropped \subseteq Tasks
    /\ executed \in [Tasks -> Nat]
    /\ leaked \in Nat
    /\ queueSize \in Int

(* What the place of a thread in its call says of its locals.              *)
Locals ==
    \A c \in Callers :
        /\ pc[c] \in {"idle", "drain"} => tasks[c] = {}
        /\ pc[c] \notin {"idle", "drain"} => strategy[c] \in Strategies
        /\ pc[c] = "streamed" => strategy[c] \in Streamed
        /\ pc[c] # "arena" => batch[c] = {} /\ taskCount[c] = 0
        /\ taskCount[c] = 0 => batch[c] = {}

(* Vectors are disjoint, and no task in one is admitted before its time.   *)
VectorsApart ==
    /\ \A c, d \in Callers : c # d => tasks[c] \cap tasks[d] = {}
    /\ \A c \in Callers :
           IF pc[c] \in {"tryEnqueue", "admitted"} THEN tasks[c] \cap accepted = {}
                                                   ELSE tasks[c] \subseteq accepted

(* An admitted task is in one spot, or has run once, or was cancelled.     *)
HeldOnce ==
    /\ \A c, d \in Callers : \A p, q \in Spots : \A t \in Tasks :
           t \in At(c, p) /\ t \in At(d, q) => c = d /\ p = q
    /\ \A c \in Callers : \A p \in Spots : \A t \in At(c, p) :
           t \in accepted /\ executed[t] = 0 /\ t \notin dropped
    /\ \A t \in Tasks : executed[t] <= 1
    /\ dropped \subseteq accepted
    /\ \A t \in Tasks : t \notin accepted => executed[t] = 0
    /\ \A t \in accepted :
           \/ executed[t] > 0
           \/ t \in dropped
           \/ \E c \in Callers : \E p \in Spots : t \in At(c, p)

OwnInv == Types /\ Locals /\ VectorsApart /\ HeldOnce

LEMMA SpotsApart ==
    /\ "streaming" \in Spots /\ "batch" \in Spots /\ Streamed \subseteq Spots
    /\ "streaming" \notin Streamed /\ "batch" \notin Streamed
BY DEF Spots, Streamed

LEMMA OwnInvInit == Init => OwnInv
<1> SUFFICES ASSUME Init PROVE OwnInv
  OBVIOUS
<1>1. Types
  BY DEF Init, Types
<1>2. \A c \in Callers : \A p \in Spots : At(c, p) = {}
  BY DEF Init, At, Spots
<1>3. Locals /\ VectorsApart
  BY DEF Init, Locals, VectorsApart
<1>4. HeldOnce
  BY <1>2 DEF Init, HeldOnce
<1> QED BY <1>1, <1>3, <1>4 DEF OwnInv

(* The steps after which every task is where it was.                       *)
LEMMA NothingMoves ==
    ASSUME HeldOnce, UNCHANGED <<buffer, batch, accepted, executed, dropped>>,
           \A c \in Callers : At(c, "streaming")' = At(c, "streaming")
    PROVE  HeldOnce'
<1>1. \A c \in Callers : \A p \in Spots : At(c, p)' = At(c, p)
  BY SpotsApart DEF At
<1> QED BY <1>1 DEF HeldOnce

LEMMA OwnInvStep == OwnInv /\ [Next]_vars => OwnInv'
<1> SUFFICES ASSUME OwnInv, [Next]_vars PROVE OwnInv'
  OBVIOUS
<1>t. Types /\ Locals /\ VectorsApart /\ HeldOnce
  BY DEF OwnInv
<1> USE SpotsApart, WrapperAssumption DEF callvars, ghosts
<1>1. ASSUME NEW c \in Callers, CallTryEnqueue(c) PROVE OwnInv'
  <2>1. PICK S \in SUBSET Fresh, s \in Strategies :
            tasks' = [tasks EXCEPT ![c] = S] /\ strategy' = [strategy EXCEPT ![c] = s]
    BY <1>1 DEF CallTryEnqueue
  <2>2. /\ pc[c] = "idle" /\ pc' = [pc EXCEPT ![c] = "tryEnqueue"]
        /\ UNCHANGED <<queueSize, buffer, batch, taskCount, accepted, executed, dropped, leaked>>
    BY <1>1 DEF CallTryEnqueue, GoTo
  <2>3. S \subseteq Tasks /\ S \cap accepted = {} /\ \A d \in Callers : S \cap tasks[d] = {}
    <3>1. \A d \in Callers : tasks[d] \subseteq UNION {tasks[e] : e \in Callers}
      OBVIOUS
    <3> QED BY <2>1, <3>1 DEF Fresh
  <2>4. Types'
    BY <1>t, <2>1, <2>2, <2>3 DEF Types
  <2>5. Locals' /\ VectorsApart'
    BY <1>t, <2>1, <2>2, <2>3 DEF Types, Locals, VectorsApart
  <2>6. HeldOnce'
    BY <1>t, <2>1, <2>2, NothingMoves DEF Types, At
  <2> QED BY <2>4, <2>5, <2>6 DEF OwnInv
<1>2. ASSUME NEW c \in Callers, ReadQueueSize(c) PROVE OwnInv'
  <2>1. /\ pc[c] = "tryEnqueue"
        /\ UNCHANGED <<queueSize, buffer, batch, accepted, executed, dropped, leaked>>
        /\ \/ /\ pc' = [pc EXCEPT ![c] = "idle"]
              /\ tasks' = [tasks EXCEPT ![c] = {}]
              /\ strategy' = [strategy EXCEPT ![c] = "none"]
              /\ taskCount' = [taskCount EXCEPT ![c] = 0]
           \/ /\ pc' = [pc EXCEPT ![c] = "admitted"]
              /\ UNCHANGED <<tasks, strategy, taskCount>>
    BY <1>2 DEF ReadQueueSize, Returns, GoTo
  <2>2. Types'
    <3>1. CASE pc' = [pc EXCEPT ![c] = "admitted"] /\ UNCHANGED <<tasks, strategy, taskCount>>
      BY <1>t, <2>1, <3>1 DEF Types
    <3>2. CASE Returns(c)
      <4>1. /\ tasks' = [tasks EXCEPT ![c] = {}]
            /\ taskCount' = [taskCount EXCEPT ![c] = 0]
            /\ strategy' = [strategy EXCEPT ![c] = "none"]
            /\ pc' = [pc EXCEPT ![c] = "idle"]
        BY <3>2 DEF Returns, GoTo
      <4> QED BY <1>t, <2>1, <4>1 DEF Types
    <3> QED BY <2>1, <3>1, <3>2 DEF Returns, GoTo
  <2>3. Locals'
    BY <1>t, <2>1 DEF Types, Locals
  <2>4. VectorsApart'
    <3>1. \A d \in Callers : d # c => tasks'[d] = tasks[d] /\ pc'[d] = pc[d]
      BY <1>t, <2>1 DEF Types
    <3>2. \/ tasks'[c] = tasks[c] /\ pc'[c] = "admitted"
          \/ tasks'[c] = {} /\ pc'[c] = "idle"
      BY <1>t, <2>1 DEF Types
    <3> QED BY <1>t, <2>1, <3>1, <3>2, SMTT(30) DEF VectorsApart
  <2>5. HeldOnce'
    BY <1>t, <2>1, NothingMoves DEF Types, At
  <2> QED BY <2>2, <2>3, <2>4, <2>5 DEF OwnInv
<1>3. ASSUME NEW c \in Callers, Admit(c) PROVE OwnInv'
  <2>1. /\ pc[c] = "admitted"
        /\ queueSize' = queueSize + Cardinality(tasks[c])
        /\ accepted' = accepted \cup tasks[c]
        /\ UNCHANGED <<buffer, executed, dropped, leaked, tasks, strategy>>
        /\ \/ /\ strategy[c] \in Direct
              /\ batch' = [batch EXCEPT ![c] = tasks[c]]
              /\ taskCount' = [taskCount EXCEPT ![c] = Cardinality(tasks[c])]
              /\ pc' = [pc EXCEPT ![c] = "arena"]
           \/ /\ strategy[c] \notin Direct
              /\ pc' = [pc EXCEPT ![c] = "streamed"]
              /\ UNCHANGED <<batch, taskCount>>
    BY <1>3 DEF Admit, ToArena, GoTo
  <2>2. Cardinality(tasks[c]) \in Nat /\ (Cardinality(tasks[c]) = 0 => tasks[c] = {})
    BY <1>t, FS_Subset, FS_CardinalityType, FS_EmptySet DEF Types
  <2>3. strategy[c] \in Strategies /\ (strategy[c] \in Direct \/ strategy[c] \in Streamed)
    BY <1>t, <2>1 DEF Locals
  <2>4. Types'
    <3>0. queueSize \in Int /\ accepted \subseteq Tasks /\ tasks[c] \subseteq Tasks
      BY <1>t DEF Types
    <3>1. queueSize' \in Int /\ accepted' \subseteq Tasks
      <4>1. queueSize' = queueSize + Cardinality(tasks[c]) /\ accepted' = accepted \cup tasks[c]
        BY <2>1
      <4> HIDE WrapperAssumption
      <4> QED BY <2>2, <3>0, <4>1
    <3>2. pc' \in [Callers -> {"idle", "tryEnqueue", "admitted", "streamed", "arena", "drain"}]
      BY <1>t, <2>1 DEF Types
    <3>3. batch \in [Callers -> SUBSET Tasks] /\ taskCount \in [Callers -> Nat]
      BY <1>t DEF Types
    <3>4. batch' = batch \/ batch' = [batch EXCEPT ![c] = tasks[c]]
      BY <2>1
    <3>5. taskCount' = taskCount \/ taskCount' = [taskCount EXCEPT ![c] = Cardinality(tasks[c])]
      BY <2>1
    <3>6. batch' \in [Callers -> SUBSET Tasks]
      <4> HIDE WrapperAssumption
      <4> QED BY <3>0, <3>3, <3>4
    <3>7. taskCount' \in [Callers -> Nat]
      <4> HIDE WrapperAssumption
      <4> QED BY <2>2, <3>3, <3>5
    <3> QED BY <1>t, <2>1, <3>1, <3>2, <3>6, <3>7 DEF Types
  <2>5. Locals'
    BY <1>t, <2>1, <2>2, <2>3 DEF Types, Locals
  <2>6. VectorsApart'
    BY <1>t, <2>1 DEF Types, VectorsApart
  <2>7. ASSUME NEW spot \in Spots, At(c, spot) = {},
               \A d \in Callers : \A p \in Spots :
                   At(d, p)' = IF d = c /\ p = spot THEN tasks[c] ELSE At(d, p)
        PROVE  HeldOnce'
    <3>1. \A t \in tasks[c] : t \in Tasks \ accepted
      BY <1>t, <2>1 DEF Types, VectorsApart
    <3>2. \A t \in tasks[c] : \A d \in Callers : \A p \in Spots : t \notin At(d, p)
      BY <1>t, <3>1 DEF HeldOnce
    <3>3. \A d, e \in Callers : \A p, q \in Spots : \A t \in Tasks :
              t \in At(d, p)' /\ t \in At(e, q)' => d = e /\ p = q
      BY <1>t, <3>2, <2>7 DEF HeldOnce
    <3>a. \A t \in tasks[c] : t \in accepted' /\ executed'[t] = 0 /\ t \notin dropped'
      BY <1>t, <2>1, <3>1 DEF HeldOnce
    <3>b. \A d \in Callers : \A p \in Spots : \A t \in At(d, p) :
              t \in accepted' /\ executed'[t] = 0 /\ t \notin dropped'
      BY <1>t, <2>1 DEF HeldOnce
    <3>4. \A d \in Callers : \A p \in Spots : \A t \in At(d, p)' :
              t \in accepted' /\ executed'[t] = 0 /\ t \notin dropped'
      BY <2>7, <3>a, <3>b
    <3>5. \A t \in accepted' :
             \/ executed'[t] > 0
             \/ t \in dropped'
             \/ \E d \in Callers : \E p \in Spots : t \in At(d, p)'
      <4>1. \A t \in tasks[c] : t \in At(c, spot)'
        BY <2>7
      <4>2. \A d \in Callers : \A p \in Spots : At(d, p) \subseteq At(d, p)' \/ (d = c /\ p = spot)
        BY <2>7
      <4>3. At(c, spot) = {}
        BY <2>7
      <4> QED BY <1>t, <2>1, <4>1, <4>2, <4>3 DEF HeldOnce
    <3>6. dropped' \subseteq accepted' /\ \A t \in Tasks : executed'[t] <= 1 /\ (t \notin accepted' => executed'[t] = 0)
      BY <1>t, <2>1 DEF HeldOnce
    <3> QED BY <3>3, <3>4, <3>5, <3>6 DEF HeldOnce
  <2>8. ASSUME strategy[c] \in Direct PROVE HeldOnce'
    <3>1. \A d \in Callers : \A p \in Spots :
              At(d, p)' = IF d = c /\ p = "batch" THEN tasks[c] ELSE At(d, p)
      BY <1>t, <2>1, <2>8 DEF Types, At
    <3>2. At(c, "batch") = {}
      BY <1>t, <2>1 DEF Locals, At
    <3> QED BY <2>7, <3>1, <3>2
  <2>9. ASSUME strategy[c] \notin Direct PROVE HeldOnce'
    <3>1. \A d \in Callers : \A p \in Spots :
              At(d, p)' = IF d = c /\ p = "streaming" THEN tasks[c] ELSE At(d, p)
      BY <1>t, <2>1, <2>9 DEF Types, At
    <3>2. At(c, "streaming") = {}
      BY <2>1 DEF At
    <3> QED BY <2>7, <3>1, <3>2
  <2>10. HeldOnce'
    BY <2>8, <2>9
  <2> QED BY <2>4, <2>5, <2>6, <2>10 DEF OwnInv
<1>4. ASSUME NEW c \in Callers, StreamLarge(c) PROVE OwnInv'
  <2>1. /\ pc[c] = "streamed" /\ pc' = [pc EXCEPT ![c] = "arena"]
        /\ queueSize' = queueSize + Cardinality(tasks[c])
        /\ batch' = [batch EXCEPT ![c] = tasks[c]]
        /\ taskCount' = [taskCount EXCEPT ![c] = Cardinality(tasks[c])]
        /\ UNCHANGED <<buffer, accepted, executed, dropped, leaked, tasks, strategy>>
    BY <1>4 DEF StreamLarge, ToArena, GoTo
  <2>2. Cardinality(tasks[c]) \in Nat /\ (Cardinality(tasks[c]) = 0 => tasks[c] = {})
    BY <1>t, FS_Subset, FS_CardinalityType, FS_EmptySet DEF Types
  <2>3. Types' /\ Locals'
    BY <1>t, <2>1, <2>2 DEF Types, Locals
  <2>4. VectorsApart'
    BY <1>t, <2>1 DEF Types, VectorsApart
  <2>5. \A d \in Callers : \A p \in Spots :
            At(d, p)' = IF d # c THEN At(d, p)
                        ELSE IF p = "batch" THEN At(c, "streaming")
                        ELSE IF p = "streaming" THEN {}
                        ELSE At(c, p)
    BY <1>t, <2>1 DEF Types, At
  <2>6. At(c, "batch") = {}
    BY <1>t, <2>1 DEF Locals, At
  <2>7. HeldOnce'
    BY <1>t, <2>1, <2>5, <2>6 DEF HeldOnce
  <2> QED BY <2>3, <2>4, <2>7 DEF OwnInv
<1>5. ASSUME NEW c \in Callers, Accumulate(c) PROVE OwnInv'
  <2> DEFINE s == strategy[c]
  <2>0. s \in Streamed /\ pc[c] = "streamed"
    BY <1>5, <1>t DEF Accumulate, Locals
  <2>1. /\ pc' = [pc EXCEPT ![c] = "idle"]
        /\ buffer' = [buffer EXCEPT ![c][s] = buffer[c][s] \cup tasks[c]]
        /\ tasks' = [tasks EXCEPT ![c] = {}]
        /\ strategy' = [strategy EXCEPT ![c] = "none"]
        /\ taskCount' = [taskCount EXCEPT ![c] = 0]
        /\ UNCHANGED <<queueSize, batch, accepted, executed, dropped, leaked>>
    BY <1>5 DEF Accumulate, Accumulated, Returns, GoTo
  <2> HIDE DEF s
  <2>2. Types'
    BY <1>t, <2>0, <2>1 DEF Types
  <2>3. Locals'
    BY <1>t, <2>0, <2>1 DEF Types, Locals
  <2>4. VectorsApart'
    BY <1>t, <2>1 DEF Types, VectorsApart
  <2>5. \A d \in Callers : \A p \in Spots :
            At(d, p)' = IF d # c THEN At(d, p)
                        ELSE IF p = s THEN At(c, s) \cup At(c, "streaming")
                        ELSE IF p = "streaming" THEN {}
                        ELSE At(c, p)
    BY <1>t, <2>0, <2>1 DEF Types, At, Spots
  <2>6. HeldOnce'
    BY <1>t, <2>0, <2>1, <2>5 DEF HeldOnce
  <2> QED BY <2>2, <2>3, <2>4, <2>6 DEF OwnInv
<1>6. ASSUME NEW c \in Callers, FlushBatch(c) PROVE OwnInv'
  <2> DEFINE s == strategy[c]
             S == buffer[c][s] \cup tasks[c]
  <2>0. s \in Streamed /\ pc[c] = "streamed"
    BY <1>6, <1>t DEF FlushBatch, Locals
  <2>1. /\ pc' = [pc EXCEPT ![c] = "arena"]
        /\ buffer' = [buffer EXCEPT ![c][s] = {}]
        /\ queueSize' = queueSize + Cardinality(S)
        /\ batch' = [batch EXCEPT ![c] = S]
        /\ taskCount' = [taskCount EXCEPT ![c] = Cardinality(S)]
        /\ UNCHANGED <<tasks, strategy, accepted, executed, dropped, leaked>>
    BY <1>6 DEF FlushBatch, Accumulated, ToArena, GoTo
  <2>2. S \subseteq Tasks
    BY <1>t, <2>0 DEF Types
  <2>3. S = At(c, s) \cup At(c, "streaming")
    BY <2>0 DEF At
  <2> HIDE DEF s, S
  <2>4. Cardinality(S) \in Nat /\ (Cardinality(S) = 0 => S = {})
    BY <2>2, FS_Subset, FS_CardinalityType, FS_EmptySet
  <2>5. Types' /\ Locals'
    <3>1. queueSize' \in Int
      BY <1>t, <2>1, <2>4 DEF Types
    <3>2. buffer' \in [Callers -> [Streamed -> SUBSET Tasks]]
      BY <1>t, <2>0, <2>1 DEF Types
    <3>3. batch' \in [Callers -> SUBSET Tasks] /\ taskCount' \in [Callers -> Nat]
      BY <1>t, <2>1, <2>2, <2>4 DEF Types
    <3>4. Types'
      BY <1>t, <2>1, <3>1, <3>2, <3>3 DEF Types
    <3>5. Locals'
      BY <1>t, <2>0, <2>1, <2>4 DEF Types, Locals
    <3> QED BY <3>4, <3>5
  <2>6. VectorsApart'
    BY <1>t, <2>0, <2>1 DEF Types, VectorsApart
  <2>7. \A d \in Callers : \A p \in Spots :
            At(d, p)' = IF d # c THEN At(d, p)
                        ELSE IF p = "batch" THEN S
                        ELSE IF p = "streaming" \/ p = s THEN {}
                        ELSE At(c, p)
    BY <1>t, <2>0, <2>1 DEF Types, At, Spots
  <2>8. At(c, "batch") = {}
    BY <1>t, <2>0 DEF Locals, At
  <2>9. HeldOnce'
    BY <1>t, <2>0, <2>1, <2>3, <2>7, <2>8 DEF HeldOnce
  <2> QED BY <2>5, <2>6, <2>9 DEF OwnInv
<1>7. ASSUME NEW c \in Callers, RunTask(c) PROVE OwnInv'
  <2>1. PICK item \in batch[c] :
           /\ executed' = [executed EXCEPT ![item] = @ + 1]
           /\ batch' = [batch EXCEPT ![c] = @ \ {item}]
    BY <1>7 DEF RunTask, Run
  <2>2. /\ pc[c] = "arena"
        /\ UNCHANGED <<queueSize, buffer, pc, tasks, strategy, taskCount, accepted, dropped, leaked>>
    BY <1>7 DEF RunTask
  <2>3. item \in Tasks /\ item \in At(c, "batch")
    BY <1>t, <2>1 DEF Types, At
  <2>4. Types' /\ Locals' /\ VectorsApart'
    BY <1>t, <2>1, <2>2, <2>3 DEF Types, Locals, VectorsApart
  <2>5. \A d \in Callers : \A p \in Spots :
            At(d, p)' = IF d = c /\ p = "batch" THEN At(d, p) \ {item} ELSE At(d, p)
    BY <1>t, <2>1, <2>2 DEF Types, At
  <2>6. executed[item] = 0 /\ item \in accepted
    BY <1>t, <2>3 DEF HeldOnce
  <2>7. \A t \in Tasks : executed'[t] = IF t = item THEN 1 ELSE executed[t]
    BY <1>t, <2>1, <2>3, <2>6 DEF Types
  <2>8. HeldOnce'
    <3>1. \A d \in Callers : \A p \in Spots : item \notin At(d, p)'
      BY <1>t, <2>3, <2>5 DEF HeldOnce
    <3>2. \A d \in Callers : \A p \in Spots : \A t \in At(d, p)' :
              t \in accepted' /\ executed'[t] = 0 /\ t \notin dropped'
      <4>1. \A t \in accepted : t \in Tasks
        BY <1>t DEF Types
      <4>2. \A d \in Callers : \A p \in Spots : \A t \in At(d, p)' : t \in At(d, p) /\ t # item
        BY <2>5, <3>1
      <4>3. \A d \in Callers : \A p \in Spots : \A t \in At(d, p) :
                t \in accepted /\ executed[t] = 0 /\ t \notin dropped
        BY <1>t DEF HeldOnce
      <4>4. SUFFICES ASSUME NEW d \in Callers, NEW p \in Spots, NEW t \in At(d, p)'
                     PROVE  t \in accepted' /\ executed'[t] = 0 /\ t \notin dropped'
        OBVIOUS
      <4>5. t \in accepted /\ executed[t] = 0 /\ t \notin dropped /\ t # item
        BY <4>2, <4>3
      <4>6. executed'[t] = 0
        BY <2>7, <4>1, <4>5
      <4>7. accepted' = accepted /\ dropped' = dropped
        BY <2>2
      <4> QED BY <4>5, <4>6, <4>7
    <3>3. \A d, e \in Callers : \A p, q \in Spots : \A t \in Tasks :
              t \in At(d, p)' /\ t \in At(e, q)' => d = e /\ p = q
      BY <1>t, <2>5 DEF HeldOnce
    <3>4. \A t \in accepted' :
             \/ executed'[t] > 0
             \/ t \in dropped'
             \/ \E d \in Callers : \E p \in Spots : t \in At(d, p)'
      <4>1. \A t \in accepted : t \in Tasks
        BY <1>t DEF Types
      <4>2. \A d \in Callers : \A p \in Spots : \A t \in At(d, p) : t = item \/ t \in At(d, p)'
        BY <2>5
      <4>3. \A t \in accepted :
               \/ executed[t] > 0
               \/ t \in dropped
               \/ \E d \in Callers : \E p \in Spots : t \in At(d, p)
        BY <1>t DEF HeldOnce
      <4>4. SUFFICES ASSUME NEW t \in accepted
                     PROVE  \/ executed'[t] > 0
                            \/ t \in dropped
                            \/ \E d \in Callers : \E p \in Spots : t \in At(d, p)'
        BY <2>2
      <4>5. t \in Tasks
        BY <4>1
      <4>6. CASE t = item
        BY <2>7, <4>5, <4>6
      <4>7. CASE t # item
        <5>1. executed'[t] = executed[t]
          BY <2>7, <4>5, <4>7
        <5> QED BY <4>2, <4>3, <4>7, <5>1
      <4> QED BY <4>6, <4>7
    <3>5. \A t \in Tasks : executed'[t] <= 1 /\ (t \notin accepted' => executed'[t] = 0)
      BY <1>t, <2>2, <2>6, <2>7 DEF HeldOnce
    <3> QED BY <1>t, <2>2, <3>2, <3>3, <3>4, <3>5 DEF HeldOnce
  <2> QED BY <2>4, <2>8 DEF OwnInv
<1>8. ASSUME NEW c \in Callers, TaskThrows(c) PROVE OwnInv'
  <2>1. PICK item \in batch[c] :
           /\ executed' = [executed EXCEPT ![item] = @ + 1]
           /\ dropped' = dropped \cup (batch[c] \ {item})
    BY <1>8 DEF TaskThrows, Run
  <2>2. /\ pc[c] = "arena" /\ pc' = [pc EXCEPT ![c] = "idle"]
        /\ batch' = [batch EXCEPT ![c] = {}]
        /\ tasks' = [tasks EXCEPT ![c] = {}]
        /\ strategy' = [strategy EXCEPT ![c] = "none"]
        /\ taskCount' = [taskCount EXCEPT ![c] = 0]
        /\ leaked' = leaked + taskCount[c] + SecondCount(c)
        /\ UNCHANGED <<queueSize, buffer, accepted>>
    BY <1>8 DEF TaskThrows, Returns, GoTo
  <2>3. item \in Tasks /\ item \in At(c, "batch") /\ batch[c] = At(c, "batch")
    BY <1>t, <2>1 DEF Types, At
  <2>4. SecondCount(c) \in Nat /\ taskCount[c] \in Nat
    BY <1>t DEF Types, SecondCount
  <2>5. Types'
    <3>a. executed' \in [Tasks -> Nat]
      BY <1>t, <2>1, <2>3 DEF Types
    <3>b. leaked' \in Nat
      BY <1>t, <2>2, <2>4 DEF Types
    <3>c. batch[c] \subseteq Tasks /\ dropped \subseteq Tasks
      BY <1>t DEF Types
    <3>1. executed' \in [Tasks -> Nat] /\ dropped' \subseteq Tasks /\ leaked' \in Nat
      BY <2>1, <3>a, <3>b, <3>c
    <3>2. /\ tasks' \in [Callers -> SUBSET Tasks]
          /\ batch' \in [Callers -> SUBSET Tasks]
          /\ taskCount' \in [Callers -> Nat]
          /\ strategy' \in [Callers -> Strategies \cup {"none"}]
      BY <1>t, <2>2 DEF Types
    <3> QED BY <1>t, <2>2, <3>1, <3>2 DEF Types
  <2>6. Locals' /\ VectorsApart'
    BY <1>t, <2>2 DEF Types, Locals, VectorsApart
  <2>7. \A d \in Callers : \A p \in Spots :
            At(d, p)' = IF d = c /\ p = "batch" THEN {} ELSE At(d, p)
    BY <1>t, <2>2 DEF Types, At
  <2>8. executed[item] = 0 /\ item \in accepted
    BY <1>t, <2>3 DEF HeldOnce
  <2>9. \A t \in Tasks : executed'[t] = IF t = item THEN 1 ELSE executed[t]
    BY <1>t, <2>1, <2>3, <2>8 DEF Types
  <2>10. HeldOnce'
    <3>0. \A t \in accepted : t \in Tasks
      BY <1>t DEF Types
    <3>1. \A d \in Callers : \A p \in Spots : \A t \in At(d, p)' : t \notin batch[c]
      <4> SUFFICES ASSUME NEW d \in Callers, NEW p \in Spots, NEW t \in At(d, p)', t \in batch[c]
                   PROVE  FALSE
        OBVIOUS
      <4>1. t \in At(d, p) /\ ~(d = c /\ p = "batch") /\ t \in At(c, "batch")
        BY <2>3, <2>7
      <4>2. t \in accepted
        BY <1>t, <4>1 DEF HeldOnce
      <4> QED BY <1>t, <3>0, <4>1, <4>2 DEF HeldOnce
    <3>2. \A d \in Callers : \A p \in Spots : \A t \in At(d, p)' :
              t \in accepted' /\ executed'[t] = 0 /\ t \notin dropped'
      <4>1. \A d \in Callers : \A p \in Spots : \A t \in At(d, p)' : t \in At(d, p)
        BY <2>7
      <4>2. \A d \in Callers : \A p \in Spots : \A t \in At(d, p) :
                t \in accepted /\ executed[t] = 0 /\ t \notin dropped
        BY <1>t DEF HeldOnce
      <4>3. item \in batch[c]
        BY <2>1
      <4>4. SUFFICES ASSUME NEW d \in Callers, NEW p \in Spots, NEW t \in At(d, p)'
                     PROVE  t \in accepted' /\ executed'[t] = 0 /\ t \notin dropped'
        OBVIOUS
      <4>5. t \in accepted /\ executed[t] = 0 /\ t \notin dropped /\ t \notin batch[c]
        BY <3>1, <4>1, <4>2
      <4>6. executed'[t] = 0
        BY <2>9, <3>0, <4>3, <4>5
      <4>7. accepted' = accepted /\ dropped' = dropped \cup (batch[c] \ {item})
        BY <2>1, <2>2
      <4> QED BY <4>5, <4>6, <4>7
    <3>3. \A d, e \in Callers : \A p, q \in Spots : \A t \in Tasks :
              t \in At(d, p)' /\ t \in At(e, q)' => d = e /\ p = q
      BY <1>t, <2>7 DEF HeldOnce
    <3>4. \A t \in accepted' :
             \/ executed'[t] > 0
             \/ t \in dropped'
             \/ \E d \in Callers : \E p \in Spots : t \in At(d, p)'
      BY <1>t, <2>1, <2>2, <2>3, <2>7, <2>9, <3>0 DEF HeldOnce
    <3>5. \A t \in Tasks : executed'[t] <= 1 /\ (t \notin accepted' => executed'[t] = 0)
      BY <1>t, <2>2, <2>8, <2>9 DEF HeldOnce
    <3>6. dropped' \subseteq accepted'
      <4>1. \A t \in At(c, "batch") : t \in accepted
        BY <1>t DEF HeldOnce
      <4>2. dropped \subseteq accepted
        BY <1>t DEF HeldOnce
      <4> QED BY <2>1, <2>2, <2>3, <4>1, <4>2
    <3> QED BY <3>2, <3>3, <3>4, <3>5, <3>6 DEF HeldOnce
  <2> QED BY <2>5, <2>6, <2>10 DEF OwnInv
<1>9. ASSUME NEW c \in Callers, FinishArena(c) PROVE OwnInv'
  <2>1. /\ pc[c] = "arena" /\ pc' = [pc EXCEPT ![c] = "idle"] /\ batch[c] = {}
        /\ queueSize' = queueSize - taskCount[c]
        /\ tasks' = [tasks EXCEPT ![c] = {}]
        /\ strategy' = [strategy EXCEPT ![c] = "none"]
        /\ taskCount' = [taskCount EXCEPT ![c] = 0]
        /\ leaked' = leaked + SecondCount(c)
        /\ UNCHANGED <<buffer, batch, accepted, executed, dropped>>
    BY <1>9 DEF FinishArena, Returns, GoTo
  <2>2. SecondCount(c) \in Nat /\ taskCount[c] \in Nat
    BY <1>t DEF Types, SecondCount
  <2>3. Types'
    BY <1>t, <2>1, <2>2 DEF Types
  <2>4. Locals' /\ VectorsApart'
    BY <1>t, <2>1 DEF Types, Locals, VectorsApart
  <2>5. HeldOnce'
    BY <1>t, <2>1, NothingMoves DEF Types, At
  <2> QED BY <2>3, <2>4, <2>5 DEF OwnInv
<1>10. ASSUME NEW c \in Callers, CallShutdown(c) \/ DrainEnds(c) PROVE OwnInv'
  <2>1. /\ pc[c] \in {"idle", "drain"}
        /\ \E label \in {"idle", "drain"} : pc' = [pc EXCEPT ![c] = label]
        /\ UNCHANGED <<queueSize, buffer, tasks, strategy, batch, taskCount, ghosts>>
    BY <1>10 DEF CallShutdown, DrainEnds, FlushStreamedTasks, GoTo
  <2>2. Types' /\ Locals' /\ VectorsApart'
    BY <1>t, <2>1 DEF Types, Locals, VectorsApart
  <2>3. HeldOnce'
    BY <1>t, <2>1, NothingMoves DEF Types, At
  <2> QED BY <2>2, <2>3 DEF OwnInv
<1>11. CASE UNCHANGED vars
  <2>1. Types' /\ Locals' /\ VectorsApart'
    BY <1>t, <1>11 DEF Types, Locals, VectorsApart, vars
  <2>2. HeldOnce'
    BY <1>t, <1>11, NothingMoves DEF At, vars
  <2> QED BY <2>1, <2>2 DEF OwnInv
<1> QED
  BY <1>1, <1>2, <1>3, <1>4, <1>5, <1>6, <1>7, <1>8, <1>9, <1>10, <1>11 DEF Next, CallStep

(* No task runs twice, whatever buffer and batch it went through.          *)
THEOREM TasksRunOnce == Spec => []NothingRunsTwice
<1>1. OwnInv => NothingRunsTwice
  BY DEF OwnInv, HeldOnce, NothingRunsTwice
<1> QED BY <1>1, OwnInvInit, OwnInvStep, PTL DEF Spec

-----------------------------------------------------------------------------
(* The counter.  A number of counted tasks is the cardinality of a set of  *)
(* tokens, one for each thread and each number up to its count: so the     *)
(* sum over all threads needs no induction.                                *)
Tokens(f) == {x \in Callers \X (Nat \ {0}) : x[2] <= f[x[1]]}

LEMMA NewTokens ==
    ASSUME NEW f \in [Callers -> Nat], NEW c \in Callers, NEW n \in Nat,
           f[c] = 0, IsFiniteSet(Tokens(f)), NEW g, g = [f EXCEPT ![c] = n]
    PROVE  /\ IsFiniteSet(Tokens(g))
           /\ Cardinality(Tokens(g)) = Cardinality(Tokens(f)) + n
<1> DEFINE mine == {c} \X (1 .. n)
<1>1. Tokens(g) = Tokens(f) \cup mine
  <2>1. \A x \in Callers \X (Nat \ {0}) :
            x[2] <= g[x[1]] <=> x[2] <= f[x[1]] \/ (x[1] = c /\ x[2] <= n)
    OBVIOUS
  <2>2. mine = {x \in Callers \X (Nat \ {0}) : x[1] = c /\ x[2] <= n}
    OBVIOUS
  <2> QED BY <2>1, <2>2 DEF Tokens
<1>2. Tokens(f) \cap mine = {}
  BY DEF Tokens
<1>3. IsFiniteSet(mine) /\ Cardinality(mine) = n
  <2>1. IsFiniteSet({c}) /\ Cardinality({c}) = 1
    BY FS_Singleton
  <2>2. IsFiniteSet(1 .. n) /\ Cardinality(1 .. n) = IF 1 > n THEN 0 ELSE n - 1 + 1
    <3>1. 1 \in Int /\ n \in Int
      OBVIOUS
    <3> QED BY ONLY <3>1, FS_Interval
  <2>3. Cardinality(1 .. n) = n
    BY <2>2
  <2>4. Cardinality({c} \X (1 .. n)) = Cardinality({c}) * Cardinality(1 .. n) /\ IsFiniteSet({c} \X (1 .. n))
    BY ONLY <2>1, <2>2, FS_Product
  <2> QED BY <2>1, <2>3, <2>4
<1>4. Cardinality(Tokens(f)) \in Nat
  BY FS_CardinalityType
<1>5. /\ IsFiniteSet(Tokens(f) \cup mine)
      /\ Cardinality(Tokens(f) \cup mine)
             = Cardinality(Tokens(f)) + Cardinality(mine) - Cardinality(Tokens(f) \cap mine)
  BY <1>3, FS_Union
<1>6. Cardinality(Tokens(f) \cap mine) = 0
  BY <1>2, FS_EmptySet
<1> HIDE DEF mine
<1>7. IsFiniteSet(Tokens(g))
  BY <1>1, <1>5
<1>8. Cardinality(Tokens(g)) = Cardinality(Tokens(f)) + Cardinality(mine) - 0
  BY <1>1, <1>5, <1>6
<1> QED BY <1>3, <1>4, <1>7, <1>8

LEMMA OldTokens ==
    ASSUME NEW f \in [Callers -> Nat], NEW c \in Callers, IsFiniteSet(Tokens(f)),
           NEW g, g = [f EXCEPT ![c] = 0]
    PROVE  /\ IsFiniteSet(Tokens(g))
           /\ Cardinality(Tokens(g)) = Cardinality(Tokens(f)) - f[c]
<1>1. g \in [Callers -> Nat] /\ g[c] = 0 /\ f = [g EXCEPT ![c] = f[c]] /\ f[c] \in Nat
  OBVIOUS
<1>2. IsFiniteSet(Tokens(g))
  <2>1. Tokens(g) \subseteq Tokens(f)
    BY <1>1 DEF Tokens
  <2> QED BY <2>1, FS_Subset
<1>3. Cardinality(Tokens(f)) = Cardinality(Tokens(g)) + f[c]
  <2> DEFINE n == f[c]
  <2>1. n \in Nat /\ f = [g EXCEPT ![c] = n]
    BY <1>1
  <2> HIDE DEF n
  <2>2. Cardinality(Tokens(f)) = Cardinality(Tokens(g)) + n
    BY ONLY <1>1, <1>2, <2>1, NewTokens, c \in Callers
  <2> QED BY <2>2 DEF n
<1>4. Cardinality(Tokens(g)) \in Nat
  BY <1>2, FS_CardinalityType
<1> QED BY <1>1, <1>2, <1>3, <1>4

(* What waits outside the arena.                                           *)
Waiting == {t \in Tasks : \E c \in Callers : \E p \in Streamed \cup {"streaming"} : t \in At(c, p)}

(* What streaming will have counted a second time for each thread.         *)
Second == [d \in Callers |-> SecondCount(d)]

CounterIsRight ==
    /\ IsFiniteSet(Tokens(taskCount)) /\ IsFiniteSet(Tokens(Second))
    /\ queueSize = leaked + Cardinality(Waiting)
                   + Cardinality(Tokens(taskCount)) + Cardinality(Tokens(Second))

LEMMA CountsAreNaturals ==
    ASSUME Types
    PROVE  /\ IsFiniteSet(Waiting) /\ Cardinality(Waiting) \in Nat
           /\ Second \in [Callers -> Nat]
           /\ CounterIsRight => /\ Cardinality(Tokens(taskCount)) \in Nat
                                /\ Cardinality(Tokens(Second)) \in Nat
                                /\ queueSize \in Nat
<1>1. Waiting \subseteq Tasks
  BY DEF Waiting
<1>2. IsFiniteSet(Waiting) /\ Cardinality(Waiting) \in Nat
  BY <1>1, WrapperAssumption, FS_Subset, FS_CardinalityType
<1>3. Second \in [Callers -> Nat]
  BY DEF Second, SecondCount, Types
<1>4. ASSUME CounterIsRight
      PROVE  /\ Cardinality(Tokens(taskCount)) \in Nat
             /\ Cardinality(Tokens(Second)) \in Nat
  BY <1>4, FS_CardinalityType DEF CounterIsRight
<1>5. ASSUME CounterIsRight PROVE queueSize \in Nat
  BY <1>2, <1>4, <1>5 DEF CounterIsRight, Types
<1> QED BY <1>2, <1>3, <1>4, <1>5

LEMMA CounterInit == Init => CounterIsRight
<1> SUFFICES ASSUME Init PROVE CounterIsRight
  OBVIOUS
<1>1. Waiting = {}
  BY DEF Init, Waiting, At, Streamed
<1>2. Tokens(taskCount) = {} /\ Tokens(Second) = {}
  BY DEF Init, Tokens, Second, SecondCount
<1>3. IsFiniteSet({}) /\ Cardinality({}) = 0
  BY FS_EmptySet
<1>4. queueSize = 0 /\ leaked = 0
  BY DEF Init
<1> QED BY ONLY <1>1, <1>2, <1>3, <1>4 DEF CounterIsRight

LEMMA CounterStep == OwnInv /\ OwnInv' /\ CounterIsRight /\ [Next]_vars => CounterIsRight'
<1> SUFFICES ASSUME OwnInv, OwnInv', CounterIsRight, [Next]_vars PROVE CounterIsRight'
  OBVIOUS
<1>t. Types /\ Locals /\ VectorsApart /\ HeldOnce
  BY DEF OwnInv
<1>n. /\ IsFiniteSet(Waiting) /\ Cardinality(Waiting) \in Nat
      /\ Second \in [Callers -> Nat]
      /\ Cardinality(Tokens(taskCount)) \in Nat
      /\ Cardinality(Tokens(Second)) \in Nat
      /\ leaked \in Nat /\ queueSize \in Nat
      /\ taskCount \in [Callers -> Nat]
  BY <1>t, CountsAreNaturals DEF Types
<1>w. \A S \in SUBSET Tasks :
         /\ IsFiniteSet(S) /\ Cardinality(S) \in Nat
         /\ S \cap Waiting = {} =>
                Cardinality(Waiting \cup S) = Cardinality(Waiting) + Cardinality(S)
         /\ S \subseteq Waiting =>
                Cardinality(Waiting \ S) = Cardinality(Waiting) - Cardinality(S)
  <2> SUFFICES ASSUME NEW S \in SUBSET Tasks
               PROVE  /\ IsFiniteSet(S) /\ Cardinality(S) \in Nat
                      /\ S \cap Waiting = {} =>
                             Cardinality(Waiting \cup S) = Cardinality(Waiting) + Cardinality(S)
                      /\ S \subseteq Waiting =>
                             Cardinality(Waiting \ S) = Cardinality(Waiting) - Cardinality(S)
    OBVIOUS
  <2>1. IsFiniteSet(S) /\ Cardinality(S) \in Nat
    BY WrapperAssumption, FS_Subset, FS_CardinalityType
  <2>2. Cardinality(Waiting \cup S)
           = Cardinality(Waiting) + Cardinality(S) - Cardinality(Waiting \cap S)
    BY <1>n, <2>1, FS_Union
  <2>3. Cardinality(Waiting \ S) = Cardinality(Waiting) - Cardinality(Waiting \cap S)
    BY <1>n, FS_Difference
  <2>4. S \cap Waiting = {} => Cardinality(Waiting \cap S) = 0
    BY FS_EmptySet
  <2>5. S \subseteq Waiting => Waiting \cap S = S
    OBVIOUS
  <2> QED BY <1>n, <2>1, <2>2, <2>3, <2>4, <2>5
<1>d. \A s \in Direct : s \notin Streamed
  BY DEF Direct, Streamed
<1> USE SpotsApart DEF callvars, ghosts
(* Steps that leave every number as it is.                                 *)
<1>same. ASSUME UNCHANGED <<queueSize, leaked, taskCount>>, Waiting' = Waiting, Second' = Second
         PROVE  CounterIsRight'
  BY <1>same DEF CounterIsRight
(* A set of waiting tasks goes to the arena and is counted again.          *)
<1>send. ASSUME NEW c \in Callers, taskCount[c] = 0, Second[c] = 0,
                NEW S \in SUBSET Tasks, S \subseteq Waiting, Waiting' = Waiting \ S,
                queueSize' = queueSize + Cardinality(S), leaked' = leaked,
                taskCount' = [taskCount EXCEPT ![c] = Cardinality(S)],
                Second' = [Second EXCEPT ![c] = Cardinality(S)]
         PROVE  CounterIsRight'
  <2> DEFINE n == Cardinality(S)
  <2>1. n \in Nat /\ Cardinality(Waiting') = Cardinality(Waiting) - n
    BY <1>w, <1>send
  <2>2. IsFiniteSet(Tokens(taskCount)) /\ IsFiniteSet(Tokens(Second))
    BY DEF CounterIsRight
  <2> HIDE DEF n
  <2>3. IsFiniteSet(Tokens(taskCount')) /\ Cardinality(Tokens(taskCount')) = Cardinality(Tokens(taskCount)) + n
    <3>1. taskCount' = [taskCount EXCEPT ![c] = n]
      BY <1>send DEF n
    <3>2. c \in Callers /\ taskCount \in [Callers -> Nat] /\ taskCount[c] = 0
      BY <1>n, <1>send
    <3> QED BY ONLY <2>1, <2>2, <3>1, <3>2, NewTokens
  <2>4. IsFiniteSet(Tokens(Second')) /\ Cardinality(Tokens(Second')) = Cardinality(Tokens(Second)) + n
    <3>1. Second' = [Second EXCEPT ![c] = n]
      BY <1>send DEF n
    <3>2. c \in Callers /\ Second \in [Callers -> Nat] /\ Second[c] = 0
      BY <1>n, <1>send
    <3> QED BY ONLY <2>1, <2>2, <3>1, <3>2, NewTokens
  <2>5. queueSize' = queueSize + n
    BY <1>send DEF n
  <2>6. Tokens(taskCount)' = Tokens(taskCount') /\ Tokens(Second)' = Tokens(Second')
    BY DEF Tokens
  <2>7. queueSize = leaked + Cardinality(Waiting)
                    + Cardinality(Tokens(taskCount)) + Cardinality(Tokens(Second))
    BY DEF CounterIsRight
  <2>8. queueSize' = leaked' + Cardinality(Waiting')
                     + Cardinality(Tokens(taskCount')) + Cardinality(Tokens(Second'))
    BY <1>n, <1>send, <2>1, <2>3, <2>4, <2>5, <2>7
  <2> QED BY <2>3, <2>4, <2>6, <2>8 DEF CounterIsRight
(* The call is over: its tasks are counted off, or lost to the counter.    *)
<1>over. ASSUME NEW c \in Callers, Waiting' = Waiting,
                taskCount' = [taskCount EXCEPT ![c] = 0], Second' = [Second EXCEPT ![c] = 0],
                \/ queueSize' = queueSize - taskCount[c] /\ leaked' = leaked + SecondCount(c)
                \/ queueSize' = queueSize /\ leaked' = leaked + taskCount[c] + SecondCount(c)
         PROVE  CounterIsRight'
  <2>1. Second[c] = SecondCount(c)
    BY DEF Second
  <2>2. IsFiniteSet(Tokens(taskCount)) /\ IsFiniteSet(Tokens(Second))
    BY DEF CounterIsRight
  <2>3. /\ IsFiniteSet(Tokens(taskCount'))
        /\ Cardinality(Tokens(taskCount')) = Cardinality(Tokens(taskCount)) - taskCount[c]
    BY <1>n, <1>over, <2>2, OldTokens
  <2>4. /\ IsFiniteSet(Tokens(Second'))
        /\ Cardinality(Tokens(Second')) = Cardinality(Tokens(Second)) - Second[c]
    BY <1>n, <1>over, <2>2, OldTokens
  <2>5. Tokens(taskCount)' = Tokens(taskCount') /\ Tokens(Second)' = Tokens(Second')
    BY DEF Tokens
  <2>6. queueSize = leaked + Cardinality(Waiting)
                    + Cardinality(Tokens(taskCount)) + Cardinality(Tokens(Second))
    BY DEF CounterIsRight
  <2>7. taskCount[c] \in Nat /\ Second[c] \in Nat
    BY <1>n
  <2>8. queueSize' = leaked' + Cardinality(Waiting')
                     + Cardinality(Tokens(taskCount')) + Cardinality(Tokens(Second'))
    BY <1>n, <1>over, <2>1, <2>3, <2>4, <2>6, <2>7
  <2> QED BY <2>3, <2>4, <2>5, <2>8 DEF CounterIsRight
<1>1. ASSUME NEW c \in Callers, CallTryEnqueue(c) PROVE CounterIsRight'
  <2>1. /\ pc[c] = "idle" /\ pc' = [pc EXCEPT ![c] = "tryEnqueue"]
        /\ \A d \in Callers \ {c} : tasks'[d] = tasks[d] /\ strategy'[d] = strategy[d]
        /\ UNCHANGED <<queueSize, buffer, batch, taskCount, leaked>>
    BY <1>1, <1>t DEF CallTryEnqueue, GoTo, Types
  <2>2. taskCount[c] = 0
    BY <1>t, <2>1 DEF Locals
  <2>3. \A d \in Callers : SecondCount(d)' = SecondCount(d)
    BY <2>1, <2>2 DEF SecondCount
  <2>4. \A d \in Callers : \A p \in Streamed \cup {"streaming"} : At(d, p)' = At(d, p)
    BY <1>t, <2>1 DEF At, Types
  <2>5. Waiting' = Waiting /\ Second' = Second
    BY <2>3, <2>4 DEF Waiting, Second
  <2> QED BY <2>1, <2>5, <1>same
<1>2. ASSUME NEW c \in Callers, ReadQueueSize(c) PROVE CounterIsRight'
  <2>1. /\ pc[c] = "tryEnqueue" /\ UNCHANGED <<queueSize, buffer, batch, leaked>>
        /\ \E label \in {"idle", "admitted"} : pc' = [pc EXCEPT ![c] = label]
        /\ \A d \in Callers \ {c} : tasks'[d] = tasks[d] /\ strategy'[d] = strategy[d]
        /\ taskCount' = [taskCount EXCEPT ![c] = 0] \/ taskCount' = taskCount
    BY <1>2, <1>t DEF ReadQueueSize, Returns, GoTo, Types
  <2>2. taskCount[c] = 0
    BY <1>t, <2>1 DEF Locals
  <2>3. taskCount' = taskCount
    BY <1>n, <2>1, <2>2
  <2>4. \A d \in Callers : SecondCount(d)' = SecondCount(d)
    BY <2>1, <2>2, <2>3 DEF SecondCount
  <2>5. \A d \in Callers : \A p \in Streamed \cup {"streaming"} : At(d, p)' = At(d, p)
    BY <1>t, <2>1 DEF At, Types
  <2>6. Waiting' = Waiting /\ Second' = Second
    BY <2>4, <2>5 DEF Waiting, Second
  <2> QED BY <2>1, <2>3, <2>6, <1>same
<1>3. ASSUME NEW c \in Callers, Admit(c) PROVE CounterIsRight'
  <2>1. /\ pc[c] = "admitted"
        /\ queueSize' = queueSize + Cardinality(tasks[c])
        /\ UNCHANGED <<buffer, leaked, tasks, strategy>>
    BY <1>3 DEF Admit, ToArena
  <2>2. taskCount[c] = 0 /\ tasks[c] \subseteq Tasks \ accepted
    BY <1>t, <2>1 DEF Locals, VectorsApart, Types
  <2>3. CASE strategy[c] \in Direct
    <3>1. /\ taskCount' = [taskCount EXCEPT ![c] = Cardinality(tasks[c])]
          /\ pc' = [pc EXCEPT ![c] = "arena"]
      BY <1>3, <2>3 DEF Admit, ToArena, GoTo
    <3>2. Waiting' = Waiting
      <4>1. \A d \in Callers : \A p \in Streamed \cup {"streaming"} : At(d, p)' = At(d, p)
        BY <1>t, <2>1, <3>1 DEF At, Types
      <4> QED BY <4>1 DEF Waiting
    <3>3. Second' = Second
      <4>1. \A d \in Callers : SecondCount(d)' = SecondCount(d)
        BY <1>d, <1>n, <2>1, <2>3, <3>1 DEF SecondCount
      <4> QED BY <4>1 DEF Second
    <3> DEFINE n == Cardinality(tasks[c])
    <3>4. n \in Nat
      BY <1>w, <2>2
    <3>5. queueSize' = queueSize + n /\ taskCount' = [taskCount EXCEPT ![c] = n]
      BY <2>1, <3>1
    <3> HIDE DEF n
    <3>6. IsFiniteSet(Tokens(taskCount)) /\ c \in Callers /\ taskCount \in [Callers -> Nat]
      BY <1>n DEF CounterIsRight
    <3>7. /\ IsFiniteSet(Tokens(taskCount'))
          /\ Cardinality(Tokens(taskCount')) = Cardinality(Tokens(taskCount)) + n
      BY ONLY <2>2, <3>4, <3>5, <3>6, NewTokens
    <3>8. Tokens(taskCount)' = Tokens(taskCount') /\ Tokens(Second)' = Tokens(Second)
      BY <3>3 DEF Tokens
    <3>9. leaked' = leaked
      BY <2>1
    <3> QED BY <1>n, <3>2, <3>4, <3>5, <3>7, <3>8, <3>9 DEF CounterIsRight
  <2>4. CASE strategy[c] \notin Direct
    <3>1. taskCount' = taskCount /\ pc' = [pc EXCEPT ![c] = "streamed"]
      BY <1>3, <2>4 DEF Admit, GoTo
    <3>2. Second' = Second
      BY <2>1, <3>1 DEF Second, SecondCount
    <3>3. Waiting' = Waiting \cup tasks[c]
      <4>1. \A d \in Callers : \A p \in Streamed \cup {"streaming"} :
                At(d, p)' = IF d = c /\ p = "streaming" THEN tasks[c] ELSE At(d, p)
        BY <1>t, <2>1, <3>1 DEF At, Types
      <4>2. At(c, "streaming") = {}
        BY <2>1 DEF At
      <4> QED BY <2>2, <4>1, <4>2 DEF Waiting
    <3>4. tasks[c] \cap Waiting = {}
      BY <1>t, <2>2 DEF Waiting, HeldOnce, Spots
    <3>5. Cardinality(Waiting') = Cardinality(Waiting) + Cardinality(tasks[c])
      BY <1>w, <2>2, <3>3, <3>4
    <3>6. Cardinality(tasks[c]) \in Nat
      BY <1>w, <2>2
    <3> QED BY <1>n, <2>1, <3>1, <3>2, <3>5, <3>6 DEF CounterIsRight
  <2> QED BY <2>3, <2>4
<1>4. ASSUME NEW c \in Callers, StreamLarge(c) PROVE CounterIsRight'
  <2>1. /\ pc[c] = "streamed" /\ pc' = [pc EXCEPT ![c] = "arena"]
        /\ queueSize' = queueSize + Cardinality(tasks[c])
        /\ taskCount' = [taskCount EXCEPT ![c] = Cardinality(tasks[c])]
        /\ UNCHANGED <<buffer, leaked, tasks, strategy>>
    BY <1>4 DEF StreamLarge, ToArena, GoTo
  <2>2. taskCount[c] = 0 /\ strategy[c] \in Streamed /\ tasks[c] \subseteq Tasks
    BY <1>t, <2>1 DEF Locals, Types
  <2>3. Second[c] = 0 /\ Second' = [Second EXCEPT ![c] = Cardinality(tasks[c])]
    BY <1>n, <2>1, <2>2 DEF Second, SecondCount
  <2>4. tasks[c] = At(c, "streaming")
    BY <2>1 DEF At
  <2>5. \A d \in Callers : \A p \in Streamed \cup {"streaming"} :
            At(d, p)' = IF d = c /\ p = "streaming" THEN {} ELSE At(d, p)
    BY <1>t, <2>1 DEF At, Types
  <2>6. tasks[c] \subseteq Waiting
    BY <2>2, <2>4 DEF Waiting
  <2>7. Waiting' = Waiting \ tasks[c]
    <3>1. \A t \in tasks[c] : \A d \in Callers : \A p \in Streamed \cup {"streaming"} :
              t \in At(d, p) => d = c /\ p = "streaming"
      BY <1>t, <2>2, <2>4 DEF HeldOnce, Spots
    <3> QED BY <2>4, <2>5, <3>1 DEF Waiting
  <2> QED BY <2>1, <2>2, <2>3, <2>6, <2>7, <1>send
<1>5. ASSUME NEW c \in Callers, Accumulate(c) PROVE CounterIsRight'
  <2> DEFINE s == strategy[c]
  <2>1. /\ pc[c] = "streamed" /\ pc' = [pc EXCEPT ![c] = "idle"]
        /\ buffer' = [buffer EXCEPT ![c][s] = buffer[c][s] \cup tasks[c]]
        /\ tasks' = [tasks EXCEPT ![c] = {}]
        /\ strategy' = [strategy EXCEPT ![c] = "none"]
        /\ taskCount' = [taskCount EXCEPT ![c] = 0]
        /\ UNCHANGED <<queueSize, leaked>>
    BY <1>5 DEF Accumulate, Accumulated, Returns, GoTo
  <2>2. s \in Streamed /\ taskCount[c] = 0
    BY <1>t, <2>1 DEF Locals
  <2>3. taskCount' = taskCount
    BY <1>n, <2>1, <2>2
  <2>4. \A d \in Callers : SecondCount(d)' = SecondCount(d)
    BY <1>t, <1>n, <2>1, <2>2 DEF SecondCount, Types
  <2>5. \A d \in Callers : \A p \in Streamed \cup {"streaming"} :
            At(d, p)' = IF d # c THEN At(d, p)
                        ELSE IF p = s THEN At(c, s) \cup At(c, "streaming")
                        ELSE IF p = "streaming" THEN {}
                        ELSE At(c, p)
    <3> HIDE DEF s
    <3> QED BY <1>t, <2>1, <2>2 DEF Types, At
  <2>6. Waiting' = Waiting
    <3> HIDE DEF s
    <3> QED BY <2>2, <2>5 DEF Waiting
  <2>7. Second' = Second
    BY <2>4 DEF Second
  <2> QED BY <2>1, <2>3, <2>6, <2>7, <1>same
<1>6. ASSUME NEW c \in Callers, FlushBatch(c) PROVE CounterIsRight'
  <2> DEFINE s == strategy[c]
             S == buffer[c][s] \cup tasks[c]
  <2>1. /\ pc[c] = "streamed" /\ pc' = [pc EXCEPT ![c] = "arena"]
        /\ buffer' = [buffer EXCEPT ![c][s] = {}]
        /\ queueSize' = queueSize + Cardinality(S)
        /\ taskCount' = [taskCount EXCEPT ![c] = Cardinality(S)]
        /\ UNCHANGED <<leaked, tasks, strategy>>
    BY <1>6 DEF FlushBatch, Accumulated, ToArena, GoTo
  <2>2. taskCount[c] = 0 /\ s \in Streamed
    BY <1>t, <2>1 DEF Locals
  <2>3. S \subseteq Tasks /\ S = At(c, s) \cup At(c, "streaming")
    BY <1>t, <2>1, <2>2 DEF Types, At
  <2>4. Second[c] = 0 /\ Second' = [Second EXCEPT ![c] = Cardinality(S)]
    <3> HIDE DEF S
    <3> QED BY <1>n, <2>1, <2>2 DEF Second, SecondCount
  <2> HIDE DEF s, S
  <2>5. \A d \in Callers : \A p \in Streamed \cup {"streaming"} :
            At(d, p)' = IF d = c /\ p \in {s, "streaming"} THEN {} ELSE At(d, p)
    BY <1>t, <2>1, <2>2 DEF At, Types
  <2>6. S \subseteq Waiting
    BY <2>2, <2>3 DEF Waiting
  <2>7. Waiting' = Waiting \ S
    <3>1. \A t \in S : \A d \in Callers : \A p \in Streamed \cup {"streaming"} :
              t \in At(d, p) => d = c /\ p \in {s, "streaming"}
      BY <1>t, <2>2, <2>3 DEF HeldOnce, Spots
    <3> QED BY <2>3, <2>5, <3>1 DEF Waiting
  <2> QED BY <2>1, <2>2, <2>3, <2>4, <2>6, <2>7, <1>send
<1>7. ASSUME NEW c \in Callers, RunTask(c) PROVE CounterIsRight'
  <2>1. UNCHANGED <<queueSize, buffer, pc, tasks, strategy, taskCount, leaked>>
    BY <1>7 DEF RunTask
  <2>2. Waiting' = Waiting /\ Second' = Second
    BY <2>1 DEF Waiting, At, Second, SecondCount, Streamed
  <2> QED BY <2>1, <2>2, <1>same
<1>8. ASSUME NEW c \in Callers, TaskThrows(c) \/ FinishArena(c) PROVE CounterIsRight'
  <2>1. /\ pc[c] = "arena" /\ pc' = [pc EXCEPT ![c] = "idle"]
        /\ tasks' = [tasks EXCEPT ![c] = {}]
        /\ strategy' = [strategy EXCEPT ![c] = "none"]
        /\ taskCount' = [taskCount EXCEPT ![c] = 0]
        /\ buffer' = buffer
        /\ \/ queueSize' = queueSize - taskCount[c] /\ leaked' = leaked + SecondCount(c)
           \/ queueSize' = queueSize /\ leaked' = leaked + taskCount[c] + SecondCount(c)
    BY <1>8 DEF TaskThrows, FinishArena, Returns, GoTo
  <2>2. \A d \in Callers : \A p \in Streamed \cup {"streaming"} : At(d, p)' = At(d, p)
    BY <1>t, <2>1 DEF At, Types
  <2>3. Waiting' = Waiting
    BY <2>2 DEF Waiting
  <2>4. \A d \in Callers : SecondCount(d)' = IF d = c THEN 0 ELSE SecondCount(d)
    BY <1>t, <2>1 DEF SecondCount, Types
  <2>5. Second' = [Second EXCEPT ![c] = 0]
    BY <2>4 DEF Second
  <2> QED BY <2>1, <2>3, <2>5, <1>over
<1>9. ASSUME NEW c \in Callers, CallShutdown(c) \/ DrainEnds(c) PROVE CounterIsRight'
  <2>1. /\ pc[c] \in {"idle", "drain"}
        /\ \E label \in {"idle", "drain"} : pc' = [pc EXCEPT ![c] = label]
        /\ UNCHANGED <<queueSize, buffer, tasks, strategy, taskCount, leaked>>
    BY <1>9 DEF CallShutdown, DrainEnds, FlushStreamedTasks, GoTo
  <2>2. \A d \in Callers : \A p \in Streamed \cup {"streaming"} : At(d, p)' = At(d, p)
    BY <1>t, <2>1 DEF At, Types
  <2>3. Waiting' = Waiting /\ Second' = Second
    BY <2>1, <2>2 DEF Waiting, Second, SecondCount
  <2> QED BY <2>1, <2>3, <1>same
<1>10. CASE UNCHANGED vars
  <2>1. UNCHANGED <<queueSize, buffer, pc, tasks, strategy, taskCount, leaked>>
    BY <1>10 DEF vars
  <2>2. Waiting' = Waiting /\ Second' = Second
    BY <2>1 DEF Waiting, At, Second, SecondCount, Streamed
  <2> QED BY <2>1, <2>2, <1>same
<1> QED
  BY <1>1, <1>2, <1>3, <1>4, <1>5, <1>6, <1>7, <1>8, <1>9, <1>10 DEF Next, CallStep

LEMMA CounterAlwaysRight == Spec => [](OwnInv /\ CounterIsRight)
BY OwnInvInit, OwnInvStep, CounterInit, CounterStep, PTL DEF Spec

(* queueSize_, unsigned in the code, never goes below zero.                *)
THEOREM TypeCorrect == Spec => []TypeOK
<1>1. OwnInv /\ CounterIsRight => TypeOK
  BY CountsAreNaturals DEF OwnInv, Types, TypeOK
<1> QED BY <1>1, CounterAlwaysRight, PTL

(* A drain ends only when all that was admitted has run or was cancelled.  *)
THEOREM DrainFindsAllDone == Spec => ShutdownFindsAllDone
<1> DEFINE A == \A c \in Callers : pc[c] = "drain" /\ pc'[c] = "idle" => Unfinished = {}
<1>1. OwnInv /\ CounterIsRight /\ [Next]_vars => [A]_vars
  <2> SUFFICES ASSUME OwnInv, CounterIsRight, Next, NEW c \in Callers, pc[c] = "drain", pc'[c] = "idle"
               PROVE  Unfinished = {}
    OBVIOUS
  <2>t. Types /\ Locals /\ HeldOnce
    BY DEF OwnInv
  <2>1. queueSize = 0
    <3>1. PICK d \in Callers : CallTryEnqueue(d) \/ CallShutdown(d) \/ CallStep(d)
      BY DEF Next
    <3>2. d = c
      BY <3>1, <2>t
      DEF Types, CallTryEnqueue, CallShutdown, CallStep, ReadQueueSize, Admit, StreamLarge, Accumulate,
          FlushBatch, RunTask, TaskThrows, FinishArena, DrainEnds, ToArena, Returns, GoTo
    <3> QED
      BY <3>1, <3>2, <2>t
      DEF Types, CallTryEnqueue, CallShutdown, CallStep, ReadQueueSize, Admit, StreamLarge, Accumulate,
          FlushBatch, RunTask, TaskThrows, FinishArena, DrainEnds, GoTo
  <2>2. /\ Cardinality(Waiting) \in Nat /\ IsFiniteSet(Waiting)
        /\ Cardinality(Tokens(taskCount)) \in Nat /\ Cardinality(Tokens(Second)) \in Nat
        /\ leaked \in Nat
    BY <2>t, CountsAreNaturals DEF Types
  <2>3. Cardinality(Waiting) = 0 /\ Cardinality(Tokens(taskCount)) = 0
    <3> DEFINE W == Cardinality(Waiting)
               T == Cardinality(Tokens(taskCount))
               S == Cardinality(Tokens(Second))
    <3>1. 0 = leaked + W + T + S
      BY <2>1 DEF CounterIsRight
    <3>2. leaked \in Nat /\ W \in Nat /\ T \in Nat /\ S \in Nat
      BY <2>2
    <3> HIDE DEF W, T, S
    <3>3. W = 0 /\ T = 0
      BY ONLY <3>1, <3>2
    <3> QED BY <3>3 DEF W, T
  <2>4. Waiting = {} /\ Tokens(taskCount) = {}
    BY <2>2, <2>3, FS_EmptySet DEF CounterIsRight
  <2>5. \A d \in Callers : batch[d] = {}
    <3> SUFFICES ASSUME NEW d \in Callers, taskCount[d] # 0 PROVE FALSE
      BY <2>t DEF Locals
    <3>1. taskCount[d] \in Nat \ {0}
      BY <2>t DEF Types
    <3>2. <<d, taskCount[d]>> \in Tokens(taskCount)
      BY <3>1 DEF Tokens
    <3> QED BY <2>4, <3>2
  <2>6. \A d \in Callers : \A p \in Spots : \A t \in Tasks : t \notin At(d, p)
    <3>1. \A d \in Callers : At(d, "batch") = {}
      BY <2>5 DEF At
    <3> QED BY <2>4, <3>1 DEF Waiting, Spots
  <2>7. \A t \in accepted : t \in Tasks /\ (executed[t] > 0 \/ t \in dropped)
    BY <2>t, <2>6 DEF HeldOnce, Types
  <2> QED BY <2>7 DEF Unfinished
<1> QED BY <1>1, CounterAlwaysRight, PTL DEF Spec, ShutdownFindsAllDone

-----------------------------------------------------------------------------
(* What a thread holds is part of what the counter counts, so the test of  *)
(* tryEnqueue, however stale when the vector is added, bounds it.          *)
HeldBy(c) ==
    (UNION {buffer[c][s] : s \in Streamed}) \cup batch[c]
        \cup (IF pc[c] = "streamed" THEN tasks[c] ELSE {})

BoundKept ==
    maxQueueSize # 0 =>
        \A c \in Callers :
            /\ Cardinality(HeldBy(c)) <= maxQueueSize
            /\ pc[c] = "admitted" =>
                   Cardinality(HeldBy(c)) + Cardinality(tasks[c]) <= maxQueueSize

LEMMA InHeldBy ==
    ASSUME NEW c \in Callers
    PROVE  \A t : t \in HeldBy(c) <=> \/ \E s \in Streamed : t \in buffer[c][s]
                                      \/ t \in batch[c]
                                      \/ pc[c] = "streamed" /\ t \in tasks[c]
<1>1. \A t : t \in UNION {buffer[c][s] : s \in Streamed} <=> \E s \in Streamed : t \in buffer[c][s]
  BY Zenon
<1> QED BY <1>1 DEF HeldBy

LEMMA InHeldByNext ==
    ASSUME NEW c \in Callers
    PROVE  \A t : t \in HeldBy(c)' <=> \/ \E s \in Streamed : t \in buffer'[c][s]
                                       \/ t \in batch'[c]
                                       \/ pc'[c] = "streamed" /\ t \in tasks'[c]
<1>1. \A t : t \in UNION {buffer'[c][s] : s \in Streamed} <=> \E s \in Streamed : t \in buffer'[c][s]
  BY Zenon
<1> QED BY <1>1 DEF HeldBy

LEMMA HeldByIsFinite ==
    ASSUME Types, NEW c \in Callers
    PROVE  /\ HeldBy(c) \subseteq Tasks /\ IsFiniteSet(HeldBy(c))
           /\ Cardinality(HeldBy(c)) \in Nat
           /\ tasks[c] \subseteq Tasks /\ IsFiniteSet(tasks[c])
           /\ Cardinality(tasks[c]) \in Nat
<1>1. HeldBy(c) \subseteq Tasks /\ tasks[c] \subseteq Tasks
  <2>1. tasks[c] \subseteq Tasks
    BY DEF Types
  <2>2. SUFFICES ASSUME NEW t \in HeldBy(c) PROVE t \in Tasks
    BY <2>1
  <2>3. \/ \E s \in Streamed : t \in buffer[c][s]
        \/ t \in batch[c] \/ t \in tasks[c]
    BY InHeldBy
  <2> QED BY <2>3 DEF Types
<1> QED BY <1>1, WrapperAssumption, FS_Subset, FS_CardinalityType

LEMMA BoundStep ==
    OwnInv /\ OwnInv' /\ CounterIsRight /\ BoundKept /\ [Next]_vars => BoundKept'
<1> SUFFICES ASSUME OwnInv, OwnInv', CounterIsRight, BoundKept, [Next]_vars, maxQueueSize # 0,
                    NEW c \in Callers
             PROVE  /\ Cardinality(HeldBy(c)') <= maxQueueSize
                    /\ pc'[c] = "admitted" =>
                           Cardinality(HeldBy(c)') + Cardinality(tasks'[c]) <= maxQueueSize
  BY DEF BoundKept
<1>t. Types /\ Locals /\ Types'
  BY DEF OwnInv
<1>m. maxQueueSize \in Nat
  BY WrapperAssumption
<1>b. /\ Cardinality(HeldBy(c)) <= maxQueueSize
      /\ pc[c] = "admitted" => Cardinality(HeldBy(c)) + Cardinality(tasks[c]) <= maxQueueSize
  BY DEF BoundKept
<1>h. /\ IsFiniteSet(HeldBy(c)) /\ Cardinality(HeldBy(c)) \in Nat
      /\ IsFiniteSet(tasks[c]) /\ Cardinality(tasks[c]) \in Nat
  BY <1>t, HeldByIsFinite
(* Most steps take nothing into the hands of c.                            *)
<1>less. ASSUME HeldBy(c)' \subseteq HeldBy(c), pc'[c] # "admitted" \/ (pc[c] = "admitted" /\ tasks'[c] = tasks[c])
         PROVE  /\ Cardinality(HeldBy(c)') <= maxQueueSize
                /\ pc'[c] = "admitted" =>
                       Cardinality(HeldBy(c)') + Cardinality(tasks'[c]) <= maxQueueSize
  <2>1. Cardinality(HeldBy(c)') <= Cardinality(HeldBy(c)) /\ Cardinality(HeldBy(c)') \in Nat
    BY <1>less, <1>h, FS_Subset, FS_CardinalityType
  <2> QED BY <1>less, <1>b, <1>h, <1>m, <2>1
<1>1. ASSUME NEW d \in Callers, d # c, CallTryEnqueue(d) \/ CallShutdown(d) \/ CallStep(d)
      PROVE  UNCHANGED <<buffer[c], batch[c], pc[c], tasks[c]>>
  BY <1>1, <1>t
  DEF Types, CallTryEnqueue, CallShutdown, CallStep, FlushStreamedTasks, ReadQueueSize, Admit, StreamLarge,
      Accumulate, FlushBatch, RunTask, TaskThrows, FinishArena, DrainEnds, ToArena, Returns, GoTo
<1>2. ASSUME UNCHANGED <<buffer[c], batch[c], pc[c], tasks[c]>>
      PROVE  HeldBy(c)' = HeldBy(c)
  BY <1>2 DEF HeldBy
<1>3. CASE CallTryEnqueue(c) \/ CallShutdown(c) \/ DrainEnds(c)
  <2>1. /\ UNCHANGED <<buffer, batch>>
        /\ pc[c] \in {"idle", "drain"} /\ pc'[c] \in {"tryEnqueue", "idle", "drain"}
    BY <1>3, <1>t DEF CallTryEnqueue, CallShutdown, DrainEnds, FlushStreamedTasks, GoTo, Types
  <2>2. HeldBy(c)' = HeldBy(c)
    BY <2>1 DEF HeldBy
  <2> QED BY <2>1, <2>2, <1>less
<1>4. CASE ReadQueueSize(c)
  <2>1. /\ UNCHANGED <<buffer, batch>> /\ pc[c] = "tryEnqueue" /\ pc'[c] # "streamed"
        /\ pc'[c] = "admitted" =>
               tasks' = tasks /\ ~(queueSize + Cardinality(tasks[c]) > maxQueueSize)
    BY <1>4, <1>t DEF ReadQueueSize, Returns, GoTo, Types
  <2>2. HeldBy(c)' = HeldBy(c)
    BY <2>1 DEF HeldBy
  <2>3. Cardinality(HeldBy(c)) <= Cardinality(Waiting)
    <3>1. batch[c] = {}
      BY <1>t, <2>1 DEF Locals
    <3>2. \A t \in HeldBy(c) : t \in Waiting
      BY <2>1, <3>1, <1>t, InHeldBy DEF Waiting, At, Types, Streamed
    <3> QED BY <3>2, <1>t, CountsAreNaturals, FS_Subset
  <2>4. Cardinality(Waiting) <= queueSize
    BY <1>t, CountsAreNaturals DEF CounterIsRight, Types
  <2>5. queueSize \in Nat /\ Cardinality(Waiting) \in Nat
    BY <1>t, CountsAreNaturals
  <2> QED BY <1>b, <1>h, <1>m, <2>1, <2>2, <2>3, <2>4, <2>5
<1>5. CASE Admit(c)
  <2>1. /\ pc[c] = "admitted" /\ pc'[c] # "admitted" /\ UNCHANGED <<buffer, tasks>>
        /\ batch'[c] \subseteq batch[c] \cup tasks[c]
    BY <1>5, <1>t DEF Admit, ToArena, GoTo, Types
  <2>2. HeldBy(c)' \subseteq HeldBy(c) \cup tasks[c]
    <3> SUFFICES ASSUME NEW t \in HeldBy(c)', t \notin tasks[c] PROVE t \in HeldBy(c)
      OBVIOUS
    <3>1. \/ \E s \in Streamed : t \in buffer'[c][s]
          \/ t \in batch'[c]
          \/ t \in tasks'[c]
      BY InHeldByNext
    <3>2. (\E s \in Streamed : t \in buffer[c][s]) \/ t \in batch[c]
      BY <3>1, <2>1
    <3> QED BY <3>2, InHeldBy
  <2>3. /\ IsFiniteSet(HeldBy(c) \cup tasks[c])
        /\ Cardinality(HeldBy(c) \cup tasks[c])
               = Cardinality(HeldBy(c)) + Cardinality(tasks[c]) - Cardinality(HeldBy(c) \cap tasks[c])
    BY <1>h, FS_Union
  <2>4. Cardinality(HeldBy(c) \cap tasks[c]) \in Nat
    BY <1>h, FS_Intersection, FS_CardinalityType
  <2>5. Cardinality(HeldBy(c)') <= Cardinality(HeldBy(c) \cup tasks[c])
    BY <2>2, <2>3, FS_Subset
  <2>6. Cardinality(HeldBy(c)') \in Nat
    BY <2>2, <2>3, FS_Subset, FS_CardinalityType
  <2> QED BY <1>b, <1>h, <1>m, <2>1, <2>3, <2>4, <2>5, <2>6
<1>6. CASE StreamLarge(c) \/ Accumulate(c) \/ FlushBatch(c)
  <2> DEFINE B == buffer[c][strategy[c]]
  <2>1. /\ pc[c] = "streamed" /\ pc'[c] \in {"arena", "idle"} /\ strategy[c] \in Streamed
    BY <1>6, <1>t DEF StreamLarge, Accumulate, FlushBatch, ToArena, Returns, GoTo, Types, Locals
  <2>2. \A t \in batch'[c] : t \in batch[c] \/ t \in B \/ t \in tasks[c]
    BY <1>6, <1>t DEF StreamLarge, Accumulate, FlushBatch, Accumulated, ToArena, Types
  <2>3. \A s \in Streamed : \A t \in buffer'[c][s] : t \in buffer[c][s] \/ t \in B \/ t \in tasks[c]
    <3> SUFFICES ASSUME NEW s \in Streamed, NEW t \in buffer'[c][s]
                 PROVE  t \in buffer[c][s] \/ t \in B \/ t \in tasks[c]
      OBVIOUS
    <3>t. buffer \in [Callers -> [Streamed -> SUBSET Tasks]]
      BY <1>t DEF Types
    <3>1. CASE StreamLarge(c)
      BY <3>1 DEF StreamLarge
    <3>2. ASSUME NEW V, buffer' = [buffer EXCEPT ![c][strategy[c]] = V], V \subseteq B \cup tasks[c]
          PROVE  t \in buffer[c][s] \/ t \in B \/ t \in tasks[c]
      <4>1. buffer'[c] = [buffer[c] EXCEPT ![strategy[c]] = V]
        BY <3>t, <3>2
      <4>2. s # strategy[c] => buffer'[c][s] = buffer[c][s]
        BY <4>1, <3>t
      <4>3. s = strategy[c] => buffer'[c][s] = V
        BY <4>1, <3>t
      <4> QED BY <4>2, <4>3, <3>2
    <3>3. CASE Accumulate(c)
      BY <3>2, <3>3 DEF Accumulate, Accumulated
    <3>4. CASE FlushBatch(c)
      BY <3>2, <3>4 DEF FlushBatch
    <3> QED BY <1>6, <3>1, <3>3, <3>4
  <2>4. \A t : t \in B \/ t \in tasks[c] => t \in HeldBy(c)
    BY <2>1, InHeldBy
  <2>5. HeldBy(c)' \subseteq HeldBy(c)
    <3> SUFFICES ASSUME NEW t \in HeldBy(c)' PROVE t \in HeldBy(c)
      OBVIOUS
    <3>1. (\E s \in Streamed : t \in buffer'[c][s]) \/ t \in batch'[c]
      BY <2>1, InHeldByNext
    <3>2. \/ \E s \in Streamed : t \in buffer[c][s]
          \/ t \in batch[c] \/ t \in B \/ t \in tasks[c]
      <4> HIDE DEF B
      <4> QED BY <3>1, <2>2, <2>3
    <3> QED BY <3>2, <2>4, InHeldBy
  <2> QED BY <2>1, <2>5, <1>less
<1>7. CASE RunTask(c) \/ TaskThrows(c) \/ FinishArena(c)
  <2>1. /\ pc[c] = "arena" /\ pc'[c] \in {"arena", "idle"} /\ buffer' = buffer
        /\ batch'[c] \subseteq batch[c]
    BY <1>7, <1>t DEF RunTask, TaskThrows, FinishArena, Returns, GoTo, Types
  <2>2. HeldBy(c)' \subseteq HeldBy(c)
    <3> SUFFICES ASSUME NEW t \in HeldBy(c)' PROVE t \in HeldBy(c)
      OBVIOUS
    <3>1. (\E s \in Streamed : t \in buffer[c][s]) \/ t \in batch[c]
      BY <2>1, InHeldByNext
    <3> QED BY <3>1, InHeldBy
  <2> QED BY <2>1, <2>2, <1>less
<1>8. CASE UNCHANGED <<buffer[c], batch[c], pc[c], tasks[c]>>
  BY <1>8, <1>2, <1>less
<1>9. CASE UNCHANGED vars
  BY <1>8, <1>9 DEF vars, callvars
<1> QED
  BY <1>1, <1>3, <1>4, <1>5, <1>6, <1>7, <1>8, <1>9 DEF Next, CallStep

LEMMA BoundInit == Init => BoundKept
<1> SUFFICES ASSUME Init, NEW c \in Callers, maxQueueSize # 0
             PROVE  Cardinality(HeldBy(c)) <= maxQueueSize /\ pc[c] # "admitted"
  BY DEF BoundKept
<1>1. HeldBy(c) = {} /\ pc[c] # "admitted"
  BY DEF Init, HeldBy
<1> QED BY <1>1, FS_EmptySet, WrapperAssumption

-----------------------------------------------------------------------------
(* What each thread may still add to the counter before it tests it again: *)
(* its vector, and what it holds then once more, which is at most twice    *)
(* maxQueueSize_ since it holds no more than maxQueueSize_.                *)
Reserve ==
    [c \in Callers |->
        IF pc[c] = "admitted"
          THEN Cardinality(tasks[c]) + Cardinality(HeldBy(c)) + Cardinality(tasks[c])
        ELSE IF pc[c] = "streamed" THEN Cardinality(HeldBy(c))
        ELSE 0]

Most == 2 * Cardinality(Callers) * maxQueueSize

ReserveKept ==
    maxQueueSize # 0 =>
        /\ IsFiniteSet(Tokens(Reserve))
        /\ queueSize + Cardinality(Tokens(Reserve)) <= Most

LEMMA ChangedTokens ==
    ASSUME NEW f \in [Callers -> Nat], NEW c \in Callers, NEW n \in Nat, IsFiniteSet(Tokens(f)),
           NEW g, g = [f EXCEPT ![c] = n]
    PROVE  /\ IsFiniteSet(Tokens(g))
           /\ Cardinality(Tokens(g)) = Cardinality(Tokens(f)) - f[c] + n
<1> DEFINE h == [f EXCEPT ![c] = 0]
<1>1. h = [f EXCEPT ![c] = 0]
  OBVIOUS
<1>2. h \in [Callers -> Nat] /\ h[c] = 0 /\ g = [h EXCEPT ![c] = n]
  OBVIOUS
<1> HIDE DEF h
<1>3. IsFiniteSet(Tokens(h)) /\ Cardinality(Tokens(h)) = Cardinality(Tokens(f)) - f[c]
  BY ONLY <1>1, OldTokens, f \in [Callers -> Nat], c \in Callers, IsFiniteSet(Tokens(f))
<1>4. IsFiniteSet(Tokens(h))
  BY <1>3
<1>5. IsFiniteSet(Tokens(g)) /\ Cardinality(Tokens(g)) = Cardinality(Tokens(h)) + n
  BY ONLY <1>2, <1>4, NewTokens, n \in Nat, c \in Callers
<1> QED BY <1>3, <1>5

(* At most 2 * maxQueueSize tokens for each thread but c.                  *)
LEMMA TokensOfOthers ==
    ASSUME NEW f \in [Callers -> Nat], NEW c \in Callers, f[c] = 0,
           NEW m \in Nat, \A d \in Callers : f[d] <= m
    PROVE  /\ IsFiniteSet(Tokens(f))
           /\ Cardinality(Tokens(f)) <= (Cardinality(Callers) - 1) * m
           /\ Cardinality(Callers) \in Nat
<1> DEFINE others == Callers \ {c}
<1>1. IsFiniteSet(others) /\ Cardinality(others) = Cardinality(Callers) - 1
  BY WrapperAssumption, FS_RemoveElement
<1>2. IsFiniteSet(1 .. m) /\ Cardinality(1 .. m) = m
  <2>1. IsFiniteSet(1 .. m) /\ Cardinality(1 .. m) = IF 1 > m THEN 0 ELSE m - 1 + 1
    <3>1. 1 \in Int /\ m \in Int
      OBVIOUS
    <3> QED BY ONLY <3>1, FS_Interval
  <2> QED BY <2>1
<1>3. Tokens(f) \subseteq others \X (1 .. m)
  BY DEF Tokens
<1> HIDE DEF others
<1>4. /\ IsFiniteSet(others \X (1 .. m))
      /\ Cardinality(others \X (1 .. m)) = Cardinality(others) * Cardinality(1 .. m)
  BY ONLY <1>1, <1>2, FS_Product
<1>5. IsFiniteSet(Tokens(f)) /\ Cardinality(Tokens(f)) <= Cardinality(others \X (1 .. m))
  BY ONLY <1>3, <1>4, FS_Subset
<1>6. Cardinality(others \X (1 .. m)) = (Cardinality(Callers) - 1) * m
  BY <1>1, <1>2, <1>4
<1>7. Cardinality(Callers) \in Nat
  BY WrapperAssumption, FS_CardinalityType
<1> QED BY <1>5, <1>6, <1>7

ReserveBounded ==
    maxQueueSize # 0 =>
        /\ Reserve \in [Callers -> Nat]
        /\ \A c \in Callers : Reserve[c] <= 2 * maxQueueSize

LEMMA ReserveIsBounded == Types /\ BoundKept => ReserveBounded
<1> SUFFICES ASSUME Types, BoundKept, maxQueueSize # 0
             PROVE  /\ Reserve \in [Callers -> Nat]
                    /\ \A c \in Callers : Reserve[c] <= 2 * maxQueueSize
  BY DEF ReserveBounded
<1>0. ASSUME \A c \in Callers : Reserve[c] \in Nat PROVE Reserve \in [Callers -> Nat]
  <2> DEFINE R(c) == IF pc[c] = "admitted"
                       THEN Cardinality(tasks[c]) + Cardinality(HeldBy(c)) + Cardinality(tasks[c])
                     ELSE IF pc[c] = "streamed" THEN Cardinality(HeldBy(c)) ELSE 0
  <2>1. Reserve = [c \in Callers |-> R(c)]
    BY DEF Reserve
  <2> HIDE DEF R
  <2> QED BY <1>0, <2>1
<1>1. SUFFICES ASSUME NEW c \in Callers PROVE Reserve[c] \in Nat /\ Reserve[c] <= 2 * maxQueueSize
  BY <1>0
<1> DEFINE n == Cardinality(tasks[c])
           held == Cardinality(HeldBy(c))
<1>2. n \in Nat /\ held \in Nat
  BY HeldByIsFinite
<1>3. held <= maxQueueSize /\ (pc[c] = "admitted" => held + n <= maxQueueSize)
  BY DEF BoundKept
<1>4. Reserve[c] = IF pc[c] = "admitted" THEN n + held + n ELSE IF pc[c] = "streamed" THEN held ELSE 0
  BY DEF Reserve
<1>5. maxQueueSize \in Nat
  BY WrapperAssumption
<1> HIDE DEF n, held
<1> QED BY <1>2, <1>3, <1>4, <1>5

LEMMA ReserveInit == Init => ReserveKept
<1> SUFFICES ASSUME Init PROVE ReserveKept
  OBVIOUS
<1>1. \A c \in Callers : Reserve[c] = 0
  BY DEF Init, Reserve
<1>2. Tokens(Reserve) = {}
  BY <1>1 DEF Tokens
<1>3. IsFiniteSet({}) /\ Cardinality({}) = 0
  BY FS_EmptySet
<1>4. Cardinality(Callers) \in Nat /\ maxQueueSize \in Nat
  BY WrapperAssumption, FS_CardinalityType
<1>5. Most >= 0
  BY <1>4 DEF Most
<1> QED BY <1>2, <1>3, <1>5 DEF Init, ReserveKept

LEMMA ReserveSpent ==
    ASSUME NEW q \in Nat, NEW r \in Nat, NEW o \in Nat, NEW n \in Nat, NEW T \in Nat, NEW most \in Nat,
           r + n <= q + o, q + T <= most
    PROVE  r + (T - o + n) <= most
OBVIOUS

LEMMA ReserveGranted ==
    ASSUME NEW q \in Nat, NEW T \in Nat, NEW n \in Nat, NEW N \in Nat, NEW max \in Nat,
           q + n <= 2 * max, T <= (N - 1) * (2 * max)
    PROVE  q + (T - 0 + n) <= 2 * N * max
<1> DEFINE X == (N - 1) * (2 * max)
<1>1. X + 2 * max = 2 * N * max /\ X \in Int
  OBVIOUS
<1>2. 2 * N * max \in Int
  OBVIOUS
<1> HIDE DEF X
<1>3. T <= X
  BY DEF X
<1> QED BY <1>1, <1>2, <1>3

LEMMA ReserveStep ==
    /\ OwnInv /\ OwnInv' /\ TypeOK /\ TypeOK' /\ BoundKept /\ BoundKept'
    /\ ReserveBounded /\ ReserveBounded' /\ ReserveKept /\ [Next]_vars
    => ReserveKept'
<1> SUFFICES ASSUME OwnInv, OwnInv', TypeOK, TypeOK', BoundKept, BoundKept',
                    ReserveBounded, ReserveBounded',
                    ReserveKept, [Next]_vars, maxQueueSize # 0
             PROVE  ReserveKept'
  BY DEF ReserveKept
<1>t. Types /\ Locals /\ Types' /\ Locals'
  BY DEF OwnInv
<1>m. maxQueueSize \in Nat /\ Cardinality(Callers) \in Nat
  BY WrapperAssumption, FS_CardinalityType
<1>n. queueSize \in Nat /\ queueSize' \in Nat
  BY DEF TypeOK
<1>k. /\ IsFiniteSet(Tokens(Reserve)) /\ Cardinality(Tokens(Reserve)) \in Nat
      /\ queueSize + Cardinality(Tokens(Reserve)) <= Most
  BY FS_CardinalityType DEF ReserveKept
<1>r. /\ Reserve \in [Callers -> Nat] /\ Reserve' \in [Callers -> Nat]
      /\ \A c \in Callers : Reserve[c] <= 2 * maxQueueSize
  BY DEF ReserveBounded
<1>i. Most \in Nat
  BY <1>m DEF Most
<1>own. ASSUME NEW c \in Callers
        PROVE  Reserve[c] = IF pc[c] = "admitted"
                              THEN Cardinality(tasks[c]) + Cardinality(HeldBy(c)) + Cardinality(tasks[c])
                            ELSE IF pc[c] = "streamed" THEN Cardinality(HeldBy(c)) ELSE 0
  BY DEF Reserve
<1>ownnext. ASSUME NEW c \in Callers
        PROVE  Reserve'[c] = IF pc'[c] = "admitted"
                               THEN Cardinality(tasks'[c]) + Cardinality(HeldBy(c)') + Cardinality(tasks'[c])
                             ELSE IF pc'[c] = "streamed" THEN Cardinality(HeldBy(c)') ELSE 0
  BY DEF Reserve
<1>tok. Tokens(Reserve)' = Tokens(Reserve')
  BY DEF Tokens
(* A step of c leaves the reserves of the others alone.                    *)
<1>others. ASSUME NEW c \in Callers, CallTryEnqueue(c) \/ CallShutdown(c) \/ CallStep(c)
           PROVE  Reserve' = [Reserve EXCEPT ![c] = Reserve'[c]]
  <2>1. SUFFICES ASSUME NEW d \in Callers, d # c PROVE Reserve'[d] = Reserve[d]
    BY <1>r
  <2>2. UNCHANGED <<buffer[d], batch[d], pc[d], tasks[d]>>
    BY <1>others, <2>1, <1>t
    DEF Types, CallTryEnqueue, CallShutdown, CallStep, FlushStreamedTasks, ReadQueueSize, Admit, StreamLarge,
        Accumulate, FlushBatch, RunTask, TaskThrows, FinishArena, DrainEnds, ToArena, Returns, GoTo
  <2>3. HeldBy(d)' = HeldBy(d)
    BY <2>2 DEF HeldBy
  <2> QED BY <2>2, <2>3, <1>own, <1>ownnext
(* What the counter gains comes out of the reserve of the thread.          *)
<1>spend. ASSUME NEW c \in Callers, CallTryEnqueue(c) \/ CallShutdown(c) \/ CallStep(c),
                 queueSize' + Reserve'[c] <= queueSize + Reserve[c]
          PROVE  ReserveKept'
  <2> DEFINE n == Reserve'[c]
             o == Reserve[c]
  <2>1. Reserve' = [Reserve EXCEPT ![c] = n] /\ n \in Nat /\ o \in Nat
    BY <1>spend, <1>others, <1>r
  <2>2. queueSize' + n <= queueSize + o
    BY <1>spend
  <2> HIDE DEF n
  <2>3. /\ IsFiniteSet(Tokens(Reserve'))
        /\ Cardinality(Tokens(Reserve')) = Cardinality(Tokens(Reserve)) - o + n
    <3>1. Reserve \in [Callers -> Nat] /\ IsFiniteSet(Tokens(Reserve)) /\ c \in Callers
      BY <1>r, <1>k
    <3> QED BY ONLY <2>1, <3>1, ChangedTokens
  <2>4. queueSize' + Cardinality(Tokens(Reserve')) <= Most
    BY <2>1, <2>2, <2>3, <1>n, <1>i, <1>k, ReserveSpent
  <2> QED BY <2>3, <2>4, <1>tok DEF ReserveKept, Most
<1>free. ASSUME NEW c \in Callers, CallTryEnqueue(c) \/ CallShutdown(c) \/ CallStep(c),
                pc'[c] \notin {"admitted", "streamed"}, queueSize' <= queueSize
         PROVE  ReserveKept'
  <2>1. Reserve'[c] = 0 /\ Reserve[c] \in Nat
    BY <1>free, <1>r, <1>ownnext
  <2> QED BY <2>1, <1>free, <1>n, <1>spend
<1>1. ASSUME NEW c \in Callers, CallTryEnqueue(c) \/ CallShutdown(c) \/ DrainEnds(c) PROVE ReserveKept'
  <2>1. queueSize' = queueSize /\ pc'[c] \in {"tryEnqueue", "drain", "idle"}
    BY <1>1, <1>t DEF CallTryEnqueue, CallShutdown, DrainEnds, FlushStreamedTasks, GoTo, Types
  <2> QED BY <1>1, <2>1, <1>n, <1>free DEF CallStep
<1>2. ASSUME NEW c \in Callers, RunTask(c) \/ TaskThrows(c) \/ FinishArena(c) \/ Accumulate(c) PROVE ReserveKept'
  <2>1. pc'[c] \in {"arena", "idle"} /\ queueSize' <= queueSize
    <3>1. taskCount[c] \in Nat
      BY <1>t DEF Types
    <3> QED BY <1>2, <1>t, <1>n, <3>1 DEF RunTask, TaskThrows, FinishArena, Accumulate, Returns, GoTo, Types
  <2> QED BY <1>2, <2>1, <1>free DEF CallStep
<1>3. ASSUME NEW c \in Callers, StreamLarge(c) \/ FlushBatch(c) PROVE ReserveKept'
  <2> DEFINE V == IF StreamLarge(c) THEN tasks[c] ELSE Accumulated(c)
  <2>1. /\ pc[c] = "streamed" /\ pc'[c] = "arena" /\ strategy[c] \in Streamed
        /\ queueSize' = queueSize + Cardinality(V)
    BY <1>3, <1>t DEF StreamLarge, FlushBatch, ToArena, GoTo, Types, Locals
  <2>2. V \subseteq HeldBy(c)
    <3> SUFFICES ASSUME NEW x \in V PROVE x \in HeldBy(c)
      OBVIOUS
    <3>1. x \in tasks[c] \/ x \in buffer[c][strategy[c]]
      BY DEF Accumulated
    <3> QED BY <2>1, <3>1, InHeldBy
  <2>3. Cardinality(V) <= Cardinality(HeldBy(c)) /\ Cardinality(V) \in Nat
    BY <2>2, <1>t, HeldByIsFinite, FS_Subset, FS_CardinalityType
  <2>4. Reserve[c] = Cardinality(HeldBy(c)) /\ Reserve'[c] = 0 /\ Reserve[c] \in Nat
    BY <2>1, <1>own, <1>ownnext, <1>r
  <2> HIDE DEF V
  <2>5. queueSize' + Reserve'[c] <= queueSize + Reserve[c]
    BY <2>1, <2>3, <2>4, <1>n
  <2> QED BY <1>3, <2>5, <1>spend DEF CallStep
<1>4. ASSUME NEW c \in Callers, Admit(c) PROVE ReserveKept'
  <2> DEFINE k == Cardinality(tasks[c])
             held == Cardinality(HeldBy(c))
  <2>1. /\ pc[c] = "admitted" /\ pc'[c] \in {"arena", "streamed"}
        /\ queueSize' = queueSize + k /\ UNCHANGED <<buffer, tasks>>
        /\ pc'[c] = "streamed" => batch' = batch
    BY <1>4, <1>t DEF Admit, ToArena, GoTo, Types
  <2>2. /\ k \in Nat /\ held \in Nat
        /\ IsFiniteSet(HeldBy(c)) /\ IsFiniteSet(tasks[c])
    BY <1>t, HeldByIsFinite
  <2>3. Reserve[c] = k + held + k /\ Reserve'[c] = IF pc'[c] = "streamed" THEN Cardinality(HeldBy(c)') ELSE 0
    BY <2>1, <1>own, <1>ownnext
  <2>4. ASSUME pc'[c] = "streamed"
        PROVE  Cardinality(HeldBy(c)') <= held + k /\ Cardinality(HeldBy(c)') \in Nat
    <3>1. HeldBy(c)' \subseteq HeldBy(c) \cup tasks[c]
      <4> SUFFICES ASSUME NEW x \in HeldBy(c)' PROVE x \in HeldBy(c) \/ x \in tasks[c]
        OBVIOUS
      <4>1. (\E s \in Streamed : x \in buffer'[c][s]) \/ x \in batch'[c] \/ x \in tasks'[c]
        BY InHeldByNext
      <4> QED BY <2>1, <2>4, <4>1, InHeldBy
    <3>2. /\ IsFiniteSet(HeldBy(c) \cup tasks[c])
          /\ Cardinality(HeldBy(c) \cup tasks[c]) = held + k - Cardinality(HeldBy(c) \cap tasks[c])
      BY <2>2, FS_Union
    <3>3. Cardinality(HeldBy(c) \cap tasks[c]) \in Nat
      BY <2>2, FS_Intersection, FS_CardinalityType
    <3>4. /\ Cardinality(HeldBy(c)') <= Cardinality(HeldBy(c) \cup tasks[c])
          /\ Cardinality(HeldBy(c)') \in Nat
      BY <3>1, <3>2, FS_Subset, FS_CardinalityType
    <3> HIDE DEF k, held
    <3> QED BY <2>2, <3>2, <3>3, <3>4
  <2> HIDE DEF k, held
  <2>5. queueSize' + Reserve'[c] <= queueSize + Reserve[c]
    BY <2>1, <2>2, <2>3, <2>4, <1>n
  <2> QED BY <1>4, <2>5, <1>spend DEF CallStep
<1>5. ASSUME NEW c \in Callers, ReadQueueSize(c) PROVE ReserveKept'
  <2>1. pc[c] = "tryEnqueue" /\ queueSize' = queueSize /\ UNCHANGED <<buffer, batch>>
    BY <1>5 DEF ReadQueueSize
  <2>2. CASE pc'[c] # "admitted"
    <3>1. pc'[c] = "idle"
      BY <1>5, <2>2, <1>t DEF ReadQueueSize, Returns, GoTo, Types
    <3> QED BY <1>5, <2>1, <3>1, <1>n, <1>free DEF CallStep
(* The one step that grants a reserve: what has been counted and what c    *)
(* asks for are within the maximum, and nobody else has more than twice it. *)
  <2>3. CASE pc'[c] = "admitted"
    <3> DEFINE k == Cardinality(tasks[c])
               held == Cardinality(HeldBy(c))
               n == Reserve'[c]
               N == Cardinality(Callers)
    <3>1. tasks' = tasks /\ ~(queueSize + k > maxQueueSize) /\ pc'[c] # "streamed"
      BY <1>5, <2>3, <1>t DEF ReadQueueSize, Returns, GoTo, Types
    <3>2. k \in Nat /\ held \in Nat
      BY <1>t, HeldByIsFinite
    <3>3. HeldBy(c)' = HeldBy(c)
      <4>1. pc[c] # "streamed" /\ pc'[c] # "streamed"
        BY <2>1, <2>3
      <4> QED BY <2>1, <4>1 DEF HeldBy
    <3>4. n = k + held + k /\ Reserve[c] = 0
      BY <2>1, <2>3, <3>1, <3>3, <1>own, <1>ownnext
    <3>5. held + k <= maxQueueSize
      <4>1. Cardinality(HeldBy(c)') + Cardinality(tasks'[c]) <= maxQueueSize
        BY <2>3 DEF BoundKept
      <4> QED BY <3>1, <3>3, <4>1
    <3>6. Cardinality(Tokens(Reserve)) <= (N - 1) * (2 * maxQueueSize) /\ N \in Nat
      <4>1. 2 * maxQueueSize \in Nat
        BY <1>m
      <4> QED BY <1>r, <3>4, <4>1, TokensOfOthers
    <3>7. Reserve' = [Reserve EXCEPT ![c] = n] /\ n \in Nat
      BY <1>5, <1>others, <1>r DEF CallStep
    <3> HIDE DEF k, held, n
    <3>8. queueSize' + n <= 2 * maxQueueSize
      BY <2>1, <3>1, <3>2, <3>4, <3>5, <1>m, <1>n
    <3>9. /\ IsFiniteSet(Tokens(Reserve'))
          /\ Cardinality(Tokens(Reserve')) = Cardinality(Tokens(Reserve)) - 0 + n
      <4>1. /\ Reserve \in [Callers -> Nat] /\ IsFiniteSet(Tokens(Reserve)) /\ c \in Callers
            /\ Reserve[c] = 0
        BY <1>r, <1>k, <3>4
      <4> QED BY ONLY <3>7, <4>1, ChangedTokens
    <3>10. queueSize' + Cardinality(Tokens(Reserve')) <= Most
      BY <3>6, <3>7, <3>8, <3>9, <1>k, <1>m, <1>n, ReserveGranted DEF Most
    <3> QED BY <3>9, <3>10, <1>tok DEF ReserveKept, Most
  <2> QED BY <2>2, <2>3
<1>6. CASE UNCHANGED vars
  <2>1. UNCHANGED <<queueSize, pc, tasks, buffer, batch>>
    BY <1>6 DEF vars, callvars
  <2>2. Reserve' = Reserve
    BY <2>1 DEF Reserve, HeldBy
  <2> QED BY <2>1, <2>2, <1>k, <1>tok DEF ReserveKept, Most
<1> QED
  BY <1>1, <1>2, <1>3, <1>4, <1>5, <1>6 DEF Next, CallStep

(* The counter is read, compared and raised in separate steps, streamed    *)
(* vectors are added twice and exceptions leave it high: it still never    *)
(* exceeds twice maxQueueSize_ for each thread.                            *)
THEOREM OvershootOfAllIsBounded == Spec => []OvershootIsBounded
<1>1. BoundKept /\ Types => ReserveBounded
  BY ReserveIsBounded
<1>2. OwnInv => Types
  BY DEF OwnInv
<1>3. TypeOK /\ ReserveKept => OvershootIsBounded
  <2> SUFFICES ASSUME TypeOK, ReserveKept, maxQueueSize # 0 PROVE queueSize <= Most
    BY DEF OvershootIsBounded, Most
  <2> DEFINE T == Cardinality(Tokens(Reserve))
  <2>1. queueSize \in Nat /\ T \in Nat /\ queueSize + T <= Most
    BY FS_CardinalityType DEF TypeOK, ReserveKept
  <2>2. Most \in Nat
    BY WrapperAssumption, FS_CardinalityType DEF Most
  <2> HIDE DEF T
  <2> QED BY <2>1, <2>2
<1> QED
  BY <1>1, <1>2, <1>3, BoundInit, BoundStep, ReserveInit, ReserveStep, CounterAlwaysRight, TypeCorrect, PTL
  DEF Spec
=============================================================================
