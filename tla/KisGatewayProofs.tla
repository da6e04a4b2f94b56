-------------------------- MODULE KisGatewayProofs --------------------------
(***************************************************************************)
(* Theorems about KisGateway, for every number of callers and slots, every *)
(* rate, burst and number of retries.                                      *)
(***************************************************************************)
EXTENDS KisGateway, FiniteSetTheorems, SequenceTheorems, TLAPS

LEMMA Constants ==
  /\ Grain \in Nat \ {0} /\ Capacity \in Nat /\ Slots * Grain \in Nat
  /\ Slots \in Nat \ {0} /\ Drain \in Nat \ {0}
  /\ Retries \in Nat /\ NetworkRetries \in Nat
  /\ Attempts \in Nat /\ 1 \in 1..Attempts
  <1>1. /\ Grain \in Nat \ {0} /\ Burst \in Nat \ {0} /\ Slots \in Nat \ {0}
        /\ Drain \in Nat \ {0} /\ Retries \in Nat /\ NetworkRetries \in Nat
    BY GatewayAssumption
  <1>2. ASSUME NEW a \in Nat, NEW g \in Nat
        PROVE  a * g \in Nat
    OBVIOUS
  <1>. QED
    BY <1>1, <1>2 DEF Capacity, Attempts

\* A counter below its limit may be incremented.
LEMMA CountUp ==
  ASSUME NEW lo \in Nat, NEW hi \in Nat, NEW f \in [Callers -> lo..hi],
         NEW c \in Callers, f[c] < hi
  PROVE  [f EXCEPT ![c] = @ + 1] \in [Callers -> lo..hi]
  OBVIOUS

LEMMA InitType == Init => TypeOK
  BY Constants DEF Init, TypeOK

LEMMA NextType == TypeOK /\ [Next]_vars => TypeOK'
  <1> SUFFICES ASSUME TypeOK, [Next]_vars PROVE TypeOK'
    OBVIOUS
  <1> USE Constants DEF TypeOK, Inside, bucket, retry
  <1>1. CASE Tick
    <2>1. tokens' \in 0..Capacity /\ ahead' \in Nat /\ meter' \in Nat
      BY <1>1 DEF Tick, Less
    <2>2. wait' \in [Callers -> Nat]
      BY <1>1 DEF Tick, Less
    <2>. QED
      BY <1>1, <2>1, <2>2 DEF Tick
  <1>2. CASE Admit
    BY <1>2 DEF Admit
  <1>3. ASSUME NEW c \in Callers, Enter(c) PROVE TypeOK'
    BY <1>3 DEF Enter
  <1>4. ASSUME NEW c \in Callers, TakeToken(c) \/ Reserve(c) \/ WakeUp(c)
        PROVE  TypeOK'
    <2>1. tokens' \in 0..Capacity /\ ahead' \in Nat /\ meter' \in Nat
      <3>1. CASE TakeToken(c)
        BY <3>1 DEF TakeToken
      <3>2. CASE Reserve(c)
        BY <3>2 DEF Reserve
      <3>3. CASE WakeUp(c)
        BY <3>3 DEF WakeUp
      <3>. QED
        BY <1>4, <3>1, <3>2, <3>3
    <2>2. wait' \in [Callers -> Nat]
      <3>1. ahead + Grain - tokens \in Nat \/ ~(tokens < Grain)
        OBVIOUS
      <3>2. wait' = wait \/ Reserve(c)
        BY <1>4 DEF TakeToken, WakeUp
      <3>. QED
        BY <3>1, <3>2 DEF Reserve
    <2>3. pc' \in [Callers -> Inside \cup {"idle", "queued"}]
      BY <1>4 DEF TakeToken, Reserve, WakeUp
    <2>4. UNCHANGED <<queue, retry>>
      BY <1>4 DEF TakeToken, Reserve, WakeUp
    <2>. QED
      BY <2>1, <2>2, <2>3, <2>4
  <1>5. ASSUME NEW c \in Callers, Answer(c) \/ Resend(c) PROVE TypeOK'
    <2>1. UNCHANGED <<bucket, queue, wait>>
      BY <1>5 DEF Answer, Finish, AnsweredBadly, NetworkError, Resend
    <2>2. \/ attempt' = attempt
          \/ attempt[c] < Attempts /\ attempt' = [attempt EXCEPT ![c] = @ + 1]
      <3>1. CASE AnsweredBadly(c)
        BY <3>1 DEF AnsweredBadly
      <3>2. CASE NetworkError(c)
        BY <3>2 DEF NetworkError
      <3>3. CASE Finish(c) \/ Resend(c)
        BY <3>3 DEF Finish, Resend
      <3>. QED
        BY <1>5, <3>1, <3>2, <3>3 DEF Answer
    <2>3. \/ netTries' = netTries
          \/ /\ netTries[c] < NetworkRetries
             /\ netTries' = [netTries EXCEPT ![c] = @ + 1]
      <3>1. CASE NetworkError(c)
        BY <3>1 DEF NetworkError
      <3>2. CASE Finish(c) \/ Resend(c) \/ AnsweredBadly(c)
        BY <3>2 DEF Finish, Resend, AnsweredBadly
      <3>. QED
        BY <1>5, <3>1, <3>2 DEF Answer
    <2>4. \A d \in Callers : pc'[d] = pc[d] \/ pc'[d] \in Inside \cup {"idle"}
      BY <1>5 DEF Answer, Finish, AnsweredBadly, NetworkError, Resend
    <2>5. attempt' \in [Callers -> 1..Attempts]
      <3>1. attempt \in [Callers -> 1..Attempts]
        OBVIOUS
      <3>2. ASSUME attempt[c] < Attempts
            PROVE  [attempt EXCEPT ![c] = @ + 1] \in [Callers -> 1..Attempts]
        <4>1. Attempts \in Nat /\ 1 \in Nat
          OBVIOUS
        <4>. QED
          BY <3>1, <3>2, <4>1, CountUp, Zenon
      <3>. QED
        BY <2>2, <3>1, <3>2
    <2>6. netTries' \in [Callers -> 0..NetworkRetries]
      <3>1. netTries \in [Callers -> 0..NetworkRetries]
        OBVIOUS
      <3>2. ASSUME netTries[c] < NetworkRetries
            PROVE  [netTries EXCEPT ![c] = @ + 1] \in [Callers -> 0..NetworkRetries]
        <4>1. NetworkRetries \in Nat /\ 0 \in Nat
          OBVIOUS
        <4>. QED
          BY <3>1, <3>2, <4>1, CountUp, Zenon
      <3>. QED
        BY <2>3, <3>1, <3>2
    <2>7. pc' \in [Callers -> Inside \cup {"idle", "queued"}]
      <3>1. \E f : pc' = [pc EXCEPT ![c] = f]
        BY <1>5 DEF Answer, Finish, AnsweredBadly, NetworkError, Resend
      <3>. QED
        BY <2>4, <3>1
    <2>. QED
      BY <2>1, <2>5, <2>6, <2>7
  <1>6. CASE UNCHANGED vars
    BY <1>6 DEF vars
  <1>. QED
    BY <1>1, <1>2, <1>3, <1>4, <1>5, <1>6 DEF Next

\* The token bucket holds between none and its capacity, waits and retry counts stay
\* within their bounds, for any callers, rate and burst.
THEOREM TypeCorrect == Spec => []TypeOK
  BY InitType, NextType, PTL DEF Spec

-----------------------------------------------------------------------------
(***************************************************************************)
(* The semaphore.                                                          *)
(***************************************************************************)

LEMMA FiniteCallers ==
  ASSUME NEW S \in SUBSET Callers
  PROVE  IsFiniteSet(S) /\ Cardinality(S) \in Nat
  BY FS_Subset, FS_CardinalityType, GatewayAssumption

\* Only Admit makes a caller a holder.
LEMMA HoldersStep ==
  ASSUME TypeOK, [Next]_vars, ~Admit
  PROVE  Holders' \subseteq Holders
  <1> USE DEF TypeOK, Holders, Inside
  <1>1. CASE Tick \/ UNCHANGED vars
    BY <1>1 DEF Tick, vars
  <1>2. ASSUME NEW c \in Callers,
               \/ Enter(c) \/ TakeToken(c) \/ Reserve(c) \/ WakeUp(c)
               \/ Answer(c) \/ Resend(c)
        PROVE  Holders' \subseteq Holders
    <2>1. \/ c \in Holders
          \/ pc' = [pc EXCEPT ![c] = "queued"]
      BY <1>2 DEF Enter, TakeToken, Reserve, WakeUp, Answer, Finish, AnsweredBadly,
                  NetworkError, Resend
    <2>2. \A d \in Callers : d # c => pc'[d] = pc[d]
      BY <1>2 DEF Enter, TakeToken, Reserve, WakeUp, Answer, Finish, AnsweredBadly,
                  NetworkError, Resend
    <2>. QED
      BY <2>1, <2>2
  <1>. QED
    BY <1>1, <1>2 DEF Next

\* Whoever is inside kis_call_slot holds one of its slots.
Capped == Cardinality(Holders) <= Slots

LEMMA CapStep == TypeOK /\ Capped /\ [Next]_vars => Capped'
  <1> SUFFICES ASSUME TypeOK, Capped, [Next]_vars PROVE Capped'
    OBVIOUS
  <1>1. /\ Cardinality(Holders) \in Nat /\ Cardinality(Holders') \in Nat
        /\ IsFiniteSet(Holders) /\ IsFiniteSet(Holders')
    BY FiniteCallers DEF Holders
  <1>2. CASE ~Admit
    <2>1. Cardinality(Holders') <= Cardinality(Holders)
      BY <1>1, <1>2, HoldersStep, FS_Subset
    <2>. QED
      BY <1>1, <2>1, Constants DEF Capped
  <1>3. CASE Admit
    <2>1. Holders' \subseteq Holders \cup {Head(queue)}
      BY <1>3 DEF Admit, Holders, TypeOK
    <2>2. /\ IsFiniteSet(Holders \cup {Head(queue)})
          /\ Cardinality(Holders \cup {Head(queue)}) <= Cardinality(Holders) + 1
      <3>1. /\ IsFiniteSet(Holders \cup {Head(queue)})
            /\ \/ Cardinality(Holders \cup {Head(queue)}) = Cardinality(Holders)
               \/ Cardinality(Holders \cup {Head(queue)}) = Cardinality(Holders) + 1
        BY <1>1, FS_AddElement
      <3>. QED
        BY <1>1, <3>1
    <2>3. Cardinality(Holders') <= Cardinality(Holders \cup {Head(queue)})
      BY <2>1, <2>2, FS_Subset
    <2>4. Cardinality(Holders) < Slots
      BY <1>3 DEF Admit
    <2>5. Cardinality(Holders \cup {Head(queue)}) \in Nat
      BY <2>2, FS_CardinalityType
    <2>. QED
      BY <1>1, <2>2, <2>3, <2>4, <2>5, Constants DEF Capped
  <1>. QED
    BY <1>2, <1>3

-----------------------------------------------------------------------------
\* The semaphore's queue holds each waiting caller once.
Queued ==
    /\ \A i \in 1..Len(queue) : pc[queue[i]] = "queued"
    /\ \A i, j \in 1..Len(queue) : queue[i] = queue[j] => i = j

LEMMA QueuedStep == TypeOK /\ Queued /\ [Next]_vars => Queued'
  <1> SUFFICES ASSUME TypeOK, Queued, [Next]_vars PROVE Queued'
    OBVIOUS
  <1>1. /\ queue \in Seq(Callers) /\ Len(queue) \in Nat
        /\ \A i \in 1..Len(queue) : queue[i] \in Callers /\ pc[queue[i]] = "queued"
        /\ \A i, j \in 1..Len(queue) : queue[i] = queue[j] => i = j
    BY DEF TypeOK, Queued
  <1>2. CASE Tick \/ UNCHANGED vars
    BY <1>2 DEF Tick, vars, Queued
  <1>3. CASE Admit
    <2>1. /\ Head(queue) = queue[1] /\ Len(queue) > 0
          /\ Len(queue') = Len(queue) - 1
          /\ \A i \in 1..Len(queue') : queue'[i] = queue[i + 1]
      BY <1>1, <1>3, HeadTailProperties DEF Admit
    <2>2. \A i \in 1..Len(queue') : i + 1 \in 1..Len(queue) /\ queue'[i] # queue[1]
      BY <1>1, <2>1
    <2>3. \A d \in Callers : d # queue[1] => pc'[d] = pc[d]
      BY <1>1, <1>3, <2>1 DEF Admit, TypeOK
    <2>4. \A i \in 1..Len(queue') : pc'[queue'[i]] = "queued"
      BY <1>1, <2>1, <2>2, <2>3
    <2>5. \A i, j \in 1..Len(queue') : queue'[i] = queue'[j] => i = j
      <3> SUFFICES ASSUME NEW i \in 1..Len(queue'), NEW j \in 1..Len(queue'),
                          queue[i + 1] = queue[j + 1]
                   PROVE  i = j
        BY <2>1
      <3>1. i + 1 = j + 1
        BY <1>1, <2>2
      <3>. QED
        BY <3>1
    <2>. QED
      BY <2>4, <2>5 DEF Queued
  <1>4. ASSUME NEW c \in Callers, Enter(c) PROVE Queued'
    <2>1. /\ Len(queue') = Len(queue) + 1
          /\ \A i \in 1..Len(queue) : queue'[i] = queue[i]
          /\ queue'[Len(queue) + 1] = c
      BY <1>1, <1>4, AppendProperties DEF Enter
    <2>2. /\ pc[c] = "idle" /\ pc'[c] = "queued"
          /\ \A d \in Callers : d # c => pc'[d] = pc[d]
      BY <1>4 DEF Enter, TypeOK
    <2>3. c \notin {queue[i] : i \in 1..Len(queue)}
      BY <1>1, <2>2
    <2>4. \A i \in 1..Len(queue') : i \in 1..Len(queue) \/ i = Len(queue) + 1
      BY <1>1, <2>1
    <2>. QED
      BY <1>1, <2>1, <2>2, <2>3, <2>4 DEF Queued
  <1>5. ASSUME NEW c \in Callers,
               TakeToken(c) \/ Reserve(c) \/ WakeUp(c) \/ Answer(c) \/ Resend(c)
        PROVE  Queued'
    <2>1. pc[c] # "queued" /\ UNCHANGED queue
      BY <1>5 DEF TakeToken, Reserve, WakeUp, Answer, Finish, AnsweredBadly,
                  NetworkError, Resend
    <2>2. \A d \in Callers : d # c => pc'[d] = pc[d]
      BY <1>5 DEF TakeToken, Reserve, WakeUp, Answer, Finish, AnsweredBadly,
                  NetworkError, Resend, TypeOK
    <2>. QED
      BY <1>1, <2>1, <2>2 DEF Queued
  <1>. QED
    BY <1>2, <1>3, <1>4, <1>5 DEF Next

(***************************************************************************)
(* The bucket.  A sleeper's instant is at most _next_release, and what     *)
(* lies between the two is paid for by the sleepers that come after it.    *)
(***************************************************************************)

Later(c) == {d \in Asleep : wait[d] > wait[c]}
Waiting == {d \in Asleep : wait[d] > 0}

SleepersOrdered ==
    /\ \A c \in Asleep : wait[c] <= ahead
    /\ NoStaircase

ReservationsPaid ==
    /\ \A c \in Asleep : ahead <= wait[c] + Grain * Cardinality(Later(c))
    /\ ahead <= Grain * Cardinality(Waiting)

\* Every permit was paid in tokens or in reserved time, and the bucket gains
\* both at the same rate.
Balance ==
    meter + tokens + Grain * Cardinality(Asleep) <= Capacity + Slots * Grain + ahead

BucketInv == TypeOK /\ Queued /\ Capped /\ SleepersOrdered /\ ReservationsPaid /\ Balance

LEMMA Multiplied ==
  ASSUME NEW n \in Nat
  PROVE  /\ Grain * n \in Nat
         /\ Grain * (n + 1) = Grain * n + Grain
         /\ Grain * 0 = 0
  <1>1. ASSUME NEW g \in Nat
        PROVE  g * n \in Nat /\ g * (n + 1) = g * n + g /\ g * 0 = 0
    OBVIOUS
  <1>. QED
    BY <1>1, Constants

LEMMA TimesMonotone ==
  ASSUME NEW n \in Nat, NEW m \in Nat, NEW g \in Nat, n <= m
  PROVE  g * n <= g * m
  <1>1. m - n \in Nat
    OBVIOUS
  <1>2. g * (m - n) \in Nat /\ g * n \in Nat
    BY <1>1
  <1>3. g * m = g * n + g * (m - n)
    OBVIOUS
  <1>. QED
    BY <1>2, <1>3

\* Steps that leave the bucket and its sleepers alone.
LEMMA BucketStep ==
  ASSUME TypeOK, Queued, [Next]_vars
  PROVE  \/ UNCHANGED <<bucket, wait>> /\ Asleep' = Asleep
         \/ Tick
         \/ \E c \in Callers : TakeToken(c) \/ Reserve(c) \/ WakeUp(c)
  <1> USE DEF TypeOK, Asleep, Inside
  <1>1. CASE UNCHANGED vars
    BY <1>1 DEF vars
  <1>2. CASE Admit
    <2>1. UNCHANGED <<bucket, wait>>
      BY <1>2 DEF Admit
    <2>2. Head(queue) = queue[1] /\ 1 \in 1..Len(queue)
      BY <1>2, HeadTailProperties DEF Admit
    <2>3. pc[Head(queue)] = "queued" /\ pc' = [pc EXCEPT ![Head(queue)] = "token"]
      BY <1>2, <2>2 DEF Admit, Queued
    <2>. QED
      BY <2>1, <2>3
  <1>3. ASSUME NEW c \in Callers, Enter(c) \/ Answer(c) \/ Resend(c)
        PROVE  UNCHANGED <<bucket, wait>> /\ Asleep' = Asleep
    <2>1. UNCHANGED <<bucket, wait>>
      BY <1>3 DEF Enter, Answer, Finish, AnsweredBadly, NetworkError, Resend
    <2>2. \A d \in Callers : d # c => pc'[d] = pc[d]
      BY <1>3 DEF Enter, Answer, Finish, AnsweredBadly, NetworkError, Resend
    <2>3. pc[c] # "asleep" /\ pc'[c] # "asleep"
      BY <1>3 DEF Enter, Answer, Finish, AnsweredBadly, NetworkError, Resend
    <2>. QED
      BY <2>1, <2>2, <2>3
  <1>. QED
    BY <1>1, <1>2, <1>3 DEF Next

LEMMA OrderedStep ==
  ASSUME TypeOK, Queued, SleepersOrdered, [Next]_vars
  PROVE  SleepersOrdered'
  <1> USE Constants DEF SleepersOrdered, NoStaircase
  <1>1. CASE UNCHANGED <<bucket, wait>> /\ Asleep' = Asleep
    BY <1>1 DEF bucket
  <1>2. CASE Tick
    <2>1. Asleep' = Asleep /\ ahead' = Less(ahead, 1) /\ ahead \in Nat
      BY <1>2 DEF Tick, Asleep, TypeOK
    <2>2. \A c \in Asleep : wait'[c] = Less(wait[c], 1) /\ wait[c] \in Nat
      BY <1>2 DEF Tick, Asleep, TypeOK
    <2>. QED
      BY <2>1, <2>2 DEF Less
  <1>3. ASSUME NEW c \in Callers, TakeToken(c) \/ WakeUp(c) PROVE SleepersOrdered'
    <2>1. Asleep' \subseteq Asleep /\ UNCHANGED <<ahead, wait>>
      BY <1>3 DEF TakeToken, WakeUp, Asleep, TypeOK
    <2>. QED
      BY <2>1
  <1>4. ASSUME NEW c \in Callers, Reserve(c) PROVE SleepersOrdered'
    <2>1. Asleep' = Asleep \cup {c} /\ c \notin Asleep
      BY <1>4 DEF Reserve, Asleep, TypeOK
    <2>2. /\ ahead' = ahead + Grain - tokens /\ ahead' > ahead
          /\ wait'[c] = ahead'
          /\ \A d \in Asleep : wait'[d] = wait[d]
      BY <1>4, <2>1 DEF Reserve, TypeOK, Asleep
    <2>3. \A d \in Asleep : wait[d] \in Nat /\ ahead \in Nat /\ ahead' \in Nat
      BY <1>4 DEF TypeOK, Asleep, Reserve
    <2>. QED
      BY <2>1, <2>2, <2>3
  <1>. QED
    BY BucketStep, <1>1, <1>2, <1>3, <1>4

LEMMA PaidStep ==
  ASSUME TypeOK, Queued, SleepersOrdered, ReservationsPaid, [Next]_vars
  PROVE  ReservationsPaid'
  <1> USE Constants
  <1>0. /\ TypeOK' /\ ahead \in Nat /\ ahead' \in Nat
        /\ \A c \in Asleep : wait[c] \in Nat
        /\ \A c \in Asleep' : wait'[c] \in Nat
        /\ \A c \in Asleep : wait'[c] \in Nat
    BY NextType DEF TypeOK, Asleep
  <1>1. CASE UNCHANGED <<bucket, wait>> /\ Asleep' = Asleep
    BY <1>1 DEF bucket, ReservationsPaid, Later, Waiting
  <1>2. CASE Tick
    <2>1. /\ Asleep' = Asleep /\ ahead' = Less(ahead, 1)
          /\ \A c \in Asleep : wait'[c] = Less(wait[c], 1)
      BY <1>2 DEF Tick, Asleep, TypeOK
    <2>2. ahead' <= Grain * Cardinality(Waiting')
      <3>1. CASE \E d \in Asleep : wait[d] = 1
        <4>1. PICK d \in Asleep : wait[d] = 1
          BY <3>1
        <4>2. Waiting' = Later(d)
          BY <1>0, <2>1, <4>1 DEF Waiting, Later, Less
        <4>3. ahead <= 1 + Grain * Cardinality(Later(d))
          BY <4>1 DEF ReservationsPaid
        <4>4. Cardinality(Later(d)) \in Nat
          BY FiniteCallers DEF Later, Asleep
        <4>5. Grain * Cardinality(Later(d)) \in Nat
          BY <4>4, Multiplied
        <4>. QED
          BY <1>0, <2>1, <4>2, <4>3, <4>5 DEF Less
      <3>2. CASE \A d \in Asleep : wait[d] # 1
        <4>1. Waiting' = Waiting
          BY <1>0, <2>1, <3>2 DEF Waiting, Less
        <4>2. Grain * Cardinality(Waiting) \in Nat
          BY FiniteCallers, Multiplied DEF Waiting, Asleep
        <4>. QED
          BY <1>0, <2>1, <4>1, <4>2 DEF ReservationsPaid, Less
      <3>. QED
        BY <3>1, <3>2
    <2>3. ASSUME NEW c \in Asleep
          PROVE  ahead' <= wait'[c] + Grain * Cardinality(Later(c)')
      <3>1. Grain * Cardinality(Later(c)) \in Nat
        BY FiniteCallers, Multiplied DEF Later, Asleep
      <3>2. CASE wait[c] = 0
        <4>1. wait'[c] = 0 /\ Later(c)' = Waiting'
          BY <1>0, <2>1, <3>2 DEF Waiting, Later, Less
        <4>2. Grain * Cardinality(Waiting') \in Nat
          BY <1>0, FiniteCallers, Multiplied DEF Waiting, Asleep
        <4>. QED
          BY <1>0, <2>2, <4>1, <4>2
      <3>3. CASE wait[c] # 0
        <4>1. wait'[c] = wait[c] - 1 /\ Later(c)' = Later(c)
          BY <1>0, <2>1, <3>3 DEF Later, Less
        <4>2. ahead <= wait[c] + Grain * Cardinality(Later(c))
          BY DEF ReservationsPaid
        <4>. QED
          BY <1>0, <2>1, <3>1, <3>3, <4>1, <4>2 DEF Less
      <3>. QED
        BY <3>2, <3>3
    <2>. QED
      BY <2>1, <2>2, <2>3 DEF ReservationsPaid
  <1>3. ASSUME NEW c \in Callers, TakeToken(c) \/ WakeUp(c) PROVE ReservationsPaid'
    <2>1. UNCHANGED <<ahead, wait>>
      BY <1>3 DEF TakeToken, WakeUp
    <2>2. Asleep' = Asleep \ {c} /\ (c \in Asleep => wait[c] = 0)
      BY <1>3 DEF TakeToken, WakeUp, Asleep, TypeOK
    <2>3. Waiting' = Waiting /\ \A d \in Asleep' : Later(d)' = Later(d)
      BY <1>0, <2>1, <2>2 DEF Waiting, Later
    <2>. QED
      BY <2>1, <2>2, <2>3 DEF ReservationsPaid
  <1>4. ASSUME NEW c \in Callers, Reserve(c) PROVE ReservationsPaid'
    <2>1. Asleep' = Asleep \cup {c} /\ c \notin Asleep
      BY <1>4 DEF Reserve, Asleep, TypeOK
    <2>2. /\ ahead' = ahead + Grain - tokens /\ tokens \in Nat /\ tokens < Grain
          /\ wait'[c] = ahead'
          /\ \A d \in Asleep : wait'[d] = wait[d] /\ wait[d] <= ahead
      BY <1>4, <2>1 DEF Reserve, TypeOK, Asleep, SleepersOrdered
    <2>3. Waiting' = Waiting \cup {c} /\ c \notin Waiting
      BY <1>0, <2>1, <2>2 DEF Waiting
    <2>4. Later(c)' = {}
      BY <1>0, <2>1, <2>2 DEF Later
    <2>5. ASSUME NEW d \in Asleep PROVE Later(d)' = Later(d) \cup {c} /\ c \notin Later(d)
      BY <1>0, <2>1, <2>2 DEF Later
    <2>6. ASSUME NEW S \in SUBSET Callers, c \notin S
          PROVE  /\ Grain * Cardinality(S \cup {c}) = Grain * Cardinality(S) + Grain
                 /\ Grain * Cardinality(S) \in Nat
      <3>1. Cardinality(S) \in Nat /\ Cardinality(S \cup {c}) = Cardinality(S) + 1
        BY <2>6, FiniteCallers, FS_AddElement
      <3>. QED
        BY <3>1, Multiplied
    <2>7. ahead' <= Grain * Cardinality(Waiting')
      BY <1>0, <2>2, <2>3, <2>6 DEF ReservationsPaid, Waiting, Asleep
    <2>8. ahead' <= wait'[c] + Grain * Cardinality(Later(c)')
      BY <1>0, <2>2, <2>4, FS_EmptySet, Multiplied
    <2>9. ASSUME NEW d \in Asleep
          PROVE  ahead' <= wait'[d] + Grain * Cardinality(Later(d)')
      <3>1. Later(d) \in SUBSET Callers
        BY DEF Later, Asleep
      <3>. QED
        BY <1>0, <2>2, <2>5, <2>6, <3>1 DEF ReservationsPaid
    <2>. QED
      BY <2>1, <2>7, <2>8, <2>9 DEF ReservationsPaid
  <1>. QED
    BY BucketStep, <1>1, <1>2, <1>3, <1>4

\* Sleepers hold slots, so there are at most Slots of them.
LEMMA FewSleepers ==
  ASSUME TypeOK, Capped
  PROVE  /\ Cardinality(Asleep) \in Nat
         /\ Grain * Cardinality(Asleep) \in Nat
         /\ Grain * Cardinality(Asleep) <= Slots * Grain
  <1>1. Cardinality(Asleep) \in Nat /\ Cardinality(Asleep) <= Cardinality(Holders)
    <2>1. Asleep \in SUBSET Holders /\ IsFiniteSet(Holders)
      BY FiniteCallers DEF Asleep, Holders, Inside
    <2>. QED
      BY <2>1, FS_Subset, FS_CardinalityType
  <1>2. Cardinality(Holders) \in Nat
    BY FiniteCallers DEF Holders
  <1>3. Cardinality(Asleep) <= Slots /\ Slots \in Nat
    BY <1>1, <1>2, Constants DEF Capped
  <1>4. Grain * Cardinality(Asleep) <= Grain * Slots
    BY <1>1, <1>3, TimesMonotone, Constants
  <1>5. Grain * Slots = Slots * Grain
    BY Constants
  <1>. QED
    BY <1>1, <1>4, <1>5, Multiplied

LEMMA BalanceStep ==
  ASSUME TypeOK, Queued, Capped, Balance, [Next]_vars, Drain >= 2
  PROVE  Balance'
  <1>0. /\ tokens \in 0..Capacity /\ ahead \in Nat /\ meter \in Nat
        /\ Capacity \in Nat /\ Slots * Grain \in Nat /\ Grain \in Nat /\ Drain \in Nat
        /\ Grain * Cardinality(Asleep) \in Nat
        /\ Grain * Cardinality(Asleep) <= Slots * Grain
        /\ meter + tokens + Grain * Cardinality(Asleep)
              <= Capacity + Slots * Grain + ahead
    BY Constants, FewSleepers DEF TypeOK, Balance
  <1>1. CASE UNCHANGED <<bucket, wait>> /\ Asleep' = Asleep
    BY <1>1 DEF bucket, Balance
  <1>2. CASE Tick
    <2>1. /\ Asleep' = Asleep
          /\ ahead' = Less(ahead, 1) /\ meter' = Less(meter, Drain)
          /\ tokens' \in 0..Capacity /\ tokens' <= tokens + 1
      BY <1>0, <1>2 DEF Tick, Asleep
    <2>. QED
      BY <1>0, <2>1 DEF Balance, Less
  <1>3. ASSUME NEW c \in Callers, TakeToken(c) PROVE Balance'
    <2>1. Asleep' = Asleep
      BY <1>3 DEF TakeToken, Asleep, TypeOK
    <2>. QED
      BY <1>0, <1>3, <2>1 DEF TakeToken, Balance
  <1>4. ASSUME NEW c \in Callers, NEW S \in SUBSET Callers, c \notin S
        PROVE  Grain * Cardinality(S \cup {c}) = Grain * Cardinality(S) + Grain
    <2>1. Cardinality(S) \in Nat /\ Cardinality(S \cup {c}) = Cardinality(S) + 1
      BY <1>4, FiniteCallers, FS_AddElement
    <2>. QED
      BY <2>1, Multiplied
  <1>5. ASSUME NEW c \in Callers, Reserve(c) PROVE Balance'
    <2>1. Asleep' = Asleep \cup {c} /\ c \notin Asleep /\ Asleep \in SUBSET Callers
      BY <1>5 DEF Reserve, Asleep, TypeOK
    <2>2. Grain * Cardinality(Asleep') = Grain * Cardinality(Asleep) + Grain
      BY <1>4, <2>1
    <2>. QED
      BY <1>0, <1>5, <2>2 DEF Reserve, Balance
  <1>6. ASSUME NEW c \in Callers, WakeUp(c) PROVE Balance'
    <2>1. /\ Asleep = Asleep' \cup {c} /\ c \notin Asleep' /\ Asleep' \in SUBSET Callers
      BY <1>6 DEF WakeUp, Asleep, TypeOK
    <2>2. Grain * Cardinality(Asleep) = Grain * Cardinality(Asleep') + Grain
      BY <1>4, <2>1
    <2>3. Cardinality(Asleep') \in Nat
      BY <2>1, FiniteCallers
    <2>4. Grain * Cardinality(Asleep') \in Nat
      BY <2>3, Multiplied
    <2>. QED
      BY <1>0, <1>6, <2>2, <2>4 DEF WakeUp, Balance
  <1>. QED
    BY BucketStep, <1>1, <1>2, <1>3, <1>5, <1>6

LEMMA InitBucketInv == Init => BucketInv
  <1> SUFFICES ASSUME Init PROVE BucketInv
    OBVIOUS
  <1>1. Asleep = {} /\ Holders = {} /\ Waiting = {}
    BY DEF Init, Asleep, Holders, Waiting, Inside
  <1>2. Cardinality(Asleep) = 0 /\ Cardinality(Holders) = 0 /\ Cardinality(Waiting) = 0
    BY <1>1, FS_EmptySet
  <1>3. Grain * 0 = 0
    BY Multiplied
  <1>4. Queued
    BY DEF Init, Queued
  <1>5. Balance /\ ReservationsPaid
    BY <1>1, <1>2, <1>3, Constants DEF Init, Balance, ReservationsPaid
  <1>. QED
    BY <1>1, <1>2, <1>4, <1>5, InitType, Constants
    DEF BucketInv, Capped, SleepersOrdered, NoStaircase

LEMMA NextBucketInv == Drain >= 2 /\ BucketInv /\ [Next]_vars => BucketInv'
  BY NextType, QueuedStep, CapStep, OrderedStep, PaidStep, BalanceStep DEF BucketInv

\* RL-009: no two sleeping callers are due at the same instant, so they never
\* leave the limiter in a batch (_consume pushes _next_release forward for each).
THEOREM OneByOne == Spec => []NoStaircase
  <1> DEFINE Inv == TypeOK /\ Queued /\ SleepersOrdered
  <1>1. Init => Inv
    BY InitBucketInv DEF BucketInv
  <1>2. Inv /\ [Next]_vars => Inv'
    BY NextType, QueuedStep, OrderedStep
  <1>3. Inv => NoStaircase
    BY DEF SleepersOrdered
  <1>. QED
    BY <1>1, <1>2, <1>3, PTL DEF Spec

\* Whatever the load and however late the event loop, the permits of any
\* interval stay within Burst + Slots + 2 * rate * length: crediting the bucket
\* while sleepers hold reservations at most doubles the rate.
THEOREM AtMostTwice == Drain >= 2 /\ Spec => []TwiceTheRate
  <1> SUFFICES ASSUME Drain >= 2 PROVE Spec => []TwiceTheRate
    OBVIOUS
  <1>1. BucketInv /\ [Next]_vars => BucketInv'
    BY NextBucketInv
  <1>2. BucketInv => TwiceTheRate
    <2> SUFFICES ASSUME BucketInv PROVE TwiceTheRate
      OBVIOUS
    <2>1. /\ Grain * Cardinality(Asleep) \in Nat /\ Grain * Cardinality(Waiting) \in Nat
          /\ Grain * Cardinality(Waiting) <= Grain * Cardinality(Asleep)
      <3>1. /\ Cardinality(Asleep) \in Nat /\ Cardinality(Waiting) \in Nat
            /\ Cardinality(Waiting) <= Cardinality(Asleep)
        BY FiniteCallers, FS_Subset DEF Asleep, Waiting
      <3>. QED
        BY <3>1, TimesMonotone, Constants, Multiplied
    <2>2. ahead <= Grain * Cardinality(Waiting)
      BY DEF BucketInv, ReservationsPaid
    <2>. QED
      BY <2>1, <2>2, Constants DEF BucketInv, Balance, TypeOK, TwiceTheRate
  <1>. QED
    BY <1>1, <1>2, InitBucketInv, PTL DEF Spec
=============================================================================
