------------------------- MODULE WifiManagerProofs -------------------------
(***************************************************************************)
(* Proofs about the reconnect logic, for every backoff range and every     *)
(* length of the event queue, and whether or not esp_wifi_connect() may    *)
(* fail: only that the chain of reconnects is never lost needs a connect   *)
(* that does not.  KeepsTrying is liveness and stays with TLC.             *)
(***************************************************************************)
EXTENDS WifiManager, WellFoundedInduction, TLAPS

(***************************************************************************)
(* What the token rests on: the events that lead to an attempt never meet  *)
(* in the loop, and STA_START is alone in it.                              *)
(***************************************************************************)
EventsApart ==
  /\ \A i, j \in 1 .. Len(events) :
       events[i] # "GOT_IP" /\ events[j] # "GOT_IP" => i = j
  /\ Pending("START") => Len(events) = 1 /\ ~connected

Asked == Pending("START") \/ Pending("DISCONNECTED")

\* The two halves of OneAttempt: no two tokens, and one at least.
NeverTwo ==
  /\ Asked => ~armed /\ ~firing /\ link = "idle"
  /\ armed => ~firing /\ link = "idle"
  /\ firing => link = "idle"
TokenKept == Asked \/ armed \/ firing \/ link # "idle"

WmInv == WmTypeOK /\ NeverTwo /\ EventsApart /\ FlagCatchesUp /\ BackoffSchedule

-----------------------------------------------------------------------------
\* The two forms of OneAttempt say the same.
LEMMA TokenForm ==
  ASSUME WmTypeOK
  PROVE  OneAttempt <=> NeverTwo /\ TokenKept
<1> DEFINE token == <<Pending("START") \/ Pending("DISCONNECTED"), armed, firing,
                      link # "idle">>
           Only(i) == \A j \in 1 .. 4 : token[j] <=> (j = i)
<1>1. OneAttempt <=> \E i \in 1 .. 4 : Only(i)
  BY DEF OneAttempt
<1>2. (\E i \in 1 .. 4 : Only(i)) <=> Only(1) \/ Only(2) \/ Only(3) \/ Only(4)
  <2> HIDE DEF Only
  <2>1. \A i \in 1 .. 4 : i = 1 \/ i = 2 \/ i = 3 \/ i = 4
    OBVIOUS
  <2>2. 1 \in 1 .. 4 /\ 2 \in 1 .. 4 /\ 3 \in 1 .. 4 /\ 4 \in 1 .. 4
    OBVIOUS
  <2> QED
    BY <2>1, <2>2
<1>3. /\ Only(1) <=> token[1] /\ ~token[2] /\ ~token[3] /\ ~token[4]
      /\ Only(2) <=> ~token[1] /\ token[2] /\ ~token[3] /\ ~token[4]
      /\ Only(3) <=> ~token[1] /\ ~token[2] /\ token[3] /\ ~token[4]
      /\ Only(4) <=> ~token[1] /\ ~token[2] /\ ~token[3] /\ token[4]
  OBVIOUS
<1> QED
  BY <1>1, <1>2, <1>3 DEF NeverTwo, TokenKept, Asked, WmTypeOK

\* What is pending once an event has been posted.
LEMMA PostedPending ==
  ASSUME events \in Seq(Event), NEW e \in Event, events' = Append(events, e),
         NEW f \in Event
  PROVE  Pending(f)' <=> Pending(f) \/ e = f
<1>1. Len(events') = Len(events) + 1 /\ events'[Len(events')] = e
  OBVIOUS
<1>2. \A i \in 1 .. Len(events) : events'[i] = events[i]
  OBVIOUS
<1> QED
  BY <1>1, <1>2 DEF Pending

\* What has been handled is the head, and the rest has moved up by one place.
LEMMA HandledTail ==
  ASSUME events \in Seq(Event), NEW e \in Event, Handle(e)
  PROVE  /\ events' \in Seq(Event) /\ Len(events') = Len(events) - 1
         /\ events[1] = e /\ Len(events) \in Nat \ {0}
         /\ \A i \in 1 .. Len(events') : events'[i] = events[i + 1]
         /\ \A i \in 1 .. Len(events) : i = 1 \/ i - 1 \in 1 .. Len(events')
BY DEF Handle

\* Of the events pending before, at most the handled one is gone.
LEMMA HandledPending ==
  ASSUME events \in Seq(Event), NEW e \in Event, Handle(e), NEW f \in Event
  PROVE  /\ Pending(e)
         /\ Pending(f)' => Pending(f)
         /\ e # f => (Pending(f)' <=> Pending(f))
<1>1. /\ Len(events') = Len(events) - 1 /\ Len(events) \in Nat \ {0}
      /\ events[1] = e
      /\ \A i \in 1 .. Len(events') : events'[i] = events[i + 1]
  BY HandledTail
<1>2. Pending(e)
  BY <1>1 DEF Pending
<1>3. Pending(f)' => Pending(f)
  BY <1>1 DEF Pending
<1>4. ASSUME e # f, Pending(f) PROVE Pending(f)'
  <2> PICK i \in 1 .. Len(events) : events[i] = f
    BY <1>4 DEF Pending
  <2>1. i - 1 \in 1 .. Len(events') /\ events'[i - 1] = f
    BY <1>1, <1>4
  <2> QED
    BY <2>1 DEF Pending
<1> QED
  BY <1>2, <1>3, <1>4

-----------------------------------------------------------------------------
(***************************************************************************)
(* What the recursive function of the schedule computes.  Induction is     *)
(* stated for a set, since a theorem about an operator cannot be cited.    *)
(***************************************************************************)
Below == {ss \in Nat \X Nat : ss[1] < ss[2]}

\* Of the numbers not in S, the least has no predecessor.
LEMMA SetInduction ==
  ASSUME NEW S, 0 \in S, \A n \in Nat : n \in S => n + 1 \in S
  PROVE  Nat \subseteq S
<1> DEFINE Rest == Nat \ S
<1> SUFFICES ASSUME Rest # {} PROVE FALSE
  OBVIOUS
<1>0. IsWellFoundedOn(Below, Nat)
  BY NatLessThanWellFounded DEF OpToRel, Below
<1>1. PICK n \in Rest : \A m \in Rest : ~(<<m, n>> \in Below)
  BY <1>0, WFMin
<1>2. n \in Nat /\ n # 0 /\ n - 1 \in Nat /\ n - 1 < n
  OBVIOUS
<1>3. <<n - 1, n>> \in Below
  BY <1>2 DEF Below
<1>4. n - 1 \notin Rest
  BY <1>1, <1>3
<1> QED
  BY <1>2, <1>4

\* h is the beginning of the powers of two, up to the n-th.
Doubles(h, n) == h[0] = 1 /\ \A i \in 1 .. n : h[i] = 2 * h[i - 1]

\* Each beginning can be prolonged by one more power.
LEMMA DoublesExists == \A n \in Nat : \E h \in [0 .. n -> Nat] : Doubles(h, n)
<1> DEFINE S == {n \in Nat : \E h \in [0 .. n -> Nat] : Doubles(h, n)}
<1>1. 0 \in S
  <2>1. [i \in 0 .. 0 |-> 1] \in [0 .. 0 -> Nat]
    OBVIOUS
  <2>2. Doubles([i \in 0 .. 0 |-> 1], 0)
    BY DEF Doubles
  <2> QED
    BY <2>1, <2>2
<1>2. ASSUME NEW n \in Nat, n \in S PROVE n + 1 \in S
  <2>1. PICK h \in [0 .. n -> Nat] : Doubles(h, n)
    BY <1>2
  <2> DEFINE g == [i \in 0 .. (n + 1) |-> IF i = n + 1 THEN 2 * h[n] ELSE h[i]]
  <2>2. g \in [0 .. (n + 1) -> Nat]
    OBVIOUS
  <2>3. Doubles(g, n + 1)
    <3>1. g[0] = 1
      BY <2>1 DEF Doubles
    <3>2. ASSUME NEW i \in 1 .. (n + 1) PROVE g[i] = 2 * g[i - 1]
      BY <2>1 DEF Doubles
    <3> QED
      BY <3>1, <3>2 DEF Doubles
  <2> HIDE DEF g
  <2> QED
    BY <2>2, <2>3
<1>3. Nat \subseteq S
  <2> HIDE DEF S
  <2> QED
    BY <1>1, <1>2, SetInduction
<1> QED
  BY <1>3

\* Two beginnings agree where both are defined.
LEMMA DoublesUnique ==
  ASSUME NEW n \in Nat, NEW m \in Nat, NEW h, NEW g, Doubles(h, n), Doubles(g, m)
  PROVE  \A k \in Nat : k <= n /\ k <= m => h[k] = g[k]
<1> DEFINE S == {k \in Nat : k <= n /\ k <= m => h[k] = g[k]}
<1>1. 0 \in S
  BY DEF Doubles
<1>2. ASSUME NEW k \in Nat, k \in S PROVE k + 1 \in S
  BY <1>2 DEF Doubles
<1>3. Nat \subseteq S
  <2> HIDE DEF S
  <2> QED
    BY <1>1, <1>2, SetInduction
<1> QED
  BY <1>3

\* The beginnings make up a function that satisfies the equation of Power, so
\* that Power, which is chosen to satisfy it, does.
LEMMA PowerDoubles ==
  /\ Power \in [Nat -> Nat]
  /\ Power[0] = 1
  /\ \A n \in Nat : Power[n + 1] = 2 * Power[n]
<1> DEFINE Good(n) == CHOOSE h \in [0 .. n -> Nat] : Doubles(h, n)
           F == [n \in Nat |-> Good(n)[n]]
           Eq(f) == f = [n \in Nat |-> IF n = 0 THEN 1 ELSE 2 * f[n - 1]]
<1>1. ASSUME NEW n \in Nat
      PROVE  Good(n) \in [0 .. n -> Nat] /\ Doubles(Good(n), n)
  BY DoublesExists
<1>2. F \in [Nat -> Nat]
  <2> HIDE DEF Good
  <2>1. \A n \in Nat : Good(n)[n] \in Nat
    BY <1>1
  <2> QED
    BY <2>1
<1>3. F[0] = 1
  BY <1>1 DEF Doubles
<1>4. ASSUME NEW n \in Nat PROVE F[n + 1] = 2 * F[n]
  <2> HIDE DEF Good
  <2>1. Doubles(Good(n), n) /\ Doubles(Good(n + 1), n + 1)
    BY <1>1
  <2>2. Good(n + 1)[n] = Good(n)[n]
    BY <2>1, DoublesUnique
  <2>3. Good(n + 1)[n + 1] = 2 * Good(n + 1)[n]
    BY <2>1 DEF Doubles
  <2> QED
    BY <2>2, <2>3
<1>5. Eq(F)
  <2> HIDE DEF F
  <2>1. ASSUME NEW n \in Nat PROVE F[n] = IF n = 0 THEN 1 ELSE 2 * F[n - 1]
    <3>1. CASE n = 0
      BY <1>3, <3>1
    <3>2. CASE n # 0
      <4>1. n - 1 \in Nat /\ (n - 1) + 1 = n
        BY <3>2
      <4>2. F[(n - 1) + 1] = 2 * F[n - 1]
        BY <4>1, <1>4
      <4> QED
        BY <4>1, <4>2, <3>2
    <3> QED
      BY <3>1, <3>2
  <2>2. F = [n \in Nat |-> F[n]]
    BY <1>2
  <2> QED
    BY <2>1, <2>2
<1>6. Eq(Power)
  <2> HIDE DEF F
  <2>1. Power = CHOOSE f : Eq(f)
    BY DEF Power
  <2> HIDE DEF Eq
  <2> QED
    BY <2>1, <1>5
<1>7. \A n \in Nat : Power[n] = IF n = 0 THEN 1 ELSE 2 * Power[n - 1]
  BY <1>6
<1> DEFINE S == {n \in Nat : Power[n] \in Nat}
<1>8. Nat \subseteq S
  <2>1. 0 \in S
    BY <1>7
  <2>2. ASSUME NEW n \in Nat, n \in S PROVE n + 1 \in S
    BY <1>7, <2>2
  <2> HIDE DEF S
  <2> QED
    BY <2>1, <2>2, SetInduction
<1>9. Power \in [Nat -> Nat]
  BY <1>6, <1>8
<1> QED
  BY <1>7, <1>9

\* Doubling under the cap, one failure after another, is the power of two
\* under the cap: the code's loop-free update and the schedule agree.
LEMMA ScheduleDoubles ==
  /\ Schedule(0) = BaseMs
  /\ \A n \in Nat :
       /\ Schedule(n) \in BaseMs .. MaxMs
       /\ Schedule(n + 1) = IF Schedule(n) * 2 >= MaxMs THEN MaxMs ELSE Schedule(n) * 2
<1>1. Schedule(0) = BaseMs
  BY PowerDoubles, BackoffAssumption DEF Schedule
<1>2. ASSUME NEW n \in Nat PROVE Power[n] >= 1
  <2> DEFINE S == {m \in Nat : Power[m] >= 1}
  <2>1. 0 \in S
    BY PowerDoubles
  <2>2. ASSUME NEW m \in Nat, m \in S PROVE m + 1 \in S
    BY PowerDoubles, <2>2
  <2>3. Nat \subseteq S
    <3> HIDE DEF S
    <3> QED
      BY <2>1, <2>2, SetInduction
  <2> QED
    BY <2>3
<1>3. ASSUME NEW n \in Nat
      PROVE  /\ Schedule(n) \in BaseMs .. MaxMs
             /\ Schedule(n + 1) = IF Schedule(n) * 2 >= MaxMs THEN MaxMs
                                  ELSE Schedule(n) * 2
  <2> DEFINE d == BaseMs * Power[n]
  <2>1. /\ Power[n] \in Nat /\ Power[n] >= 1 /\ Power[n + 1] = 2 * Power[n]
        /\ BaseMs \in Nat /\ MaxMs \in Nat /\ BaseMs >= 1 /\ BaseMs <= MaxMs
    BY PowerDoubles, <1>2, BackoffAssumption
  <2>2. d \in Nat /\ d >= BaseMs /\ BaseMs * Power[n + 1] = d * 2
    BY <2>1
  <2>3. Schedule(n) = IF d >= MaxMs THEN MaxMs ELSE d
    BY DEF Schedule
  <2>4. Schedule(n + 1) = IF d * 2 >= MaxMs THEN MaxMs ELSE d * 2
    BY <2>2 DEF Schedule
  <2> HIDE DEF d
  <2> QED
    BY <2>1, <2>2, <2>3, <2>4
<1> QED
  BY <1>1, <1>3

-----------------------------------------------------------------------------
\* The backoff stays in its range.
LEMMA DoubledTyped ==
  ASSUME backoff \in BaseMs .. MaxMs
  PROVE  Doubled \in BaseMs .. MaxMs
BY BackoffAssumption DEF Doubled

\* wifi_manager_init() leaves the first token, STA_START.
LEMMA WmInvInit == WmInit => WmInv
<1> SUFFICES ASSUME WmInit PROVE WmInv
  OBVIOUS
<1>1. events \in Seq(Event) /\ Len(events) = 1 /\ events[1] = "START"
  BY DEF WmInit, Event
<1>2. Pending("START") /\ ~Pending("DISCONNECTED") /\ ~Pending("GOT_IP")
  BY <1>1 DEF Pending
<1>3. WmTypeOK
  <2>1. BaseMs \in BaseMs .. MaxMs /\ 0 \in Nat
    BY BackoffAssumption
  <2>2. events \in Seq(Event)
    BY <1>1
  <2> QED
    BY <2>1, <2>2, Zenon DEF WmInit, WmTypeOK
<1>4. NeverTwo /\ EventsApart
  BY <1>1, <1>2 DEF WmInit, NeverTwo, Asked, EventsApart
<1>5. FlagCatchesUp
  BY <1>2 DEF WmInit, FlagCatchesUp, FlagAfter
<1>6. BackoffSchedule
  BY ScheduleDoubles DEF WmInit, BackoffSchedule
<1> QED
  BY <1>3, <1>4, <1>5, <1>6 DEF WmInv

\* The types do not depend on whether a connect succeeds.
LEMMA WmTypeStep == WmTypeOK /\ [WmNext]_wmVars => WmTypeOK'
<1> SUFFICES ASSUME WmTypeOK, [WmNext]_wmVars PROVE WmTypeOK'
  OBVIOUS
<1> USE DEF WmTypeOK, timerVars
<1>h. ASSUME NEW e \in Event, Handle(e) PROVE events' \in Seq(Event)
  BY <1>h, HandledTail
<1>1. CASE Associated
  BY <1>1 DEF Associated
<1>2. CASE GetsAddress
  BY <1>2 DEF GetsAddress, Event
<1>3. CASE LosesAddress
  BY <1>3 DEF LosesAddress
<1>4. CASE LinkLost
  BY <1>4 DEF LinkLost, Event
<1>5. CASE OnStart
  BY <1>5, <1>h DEF OnStart, Connect, Event
<1>6. CASE OnDisconnected
  <2>1. fails' \in Nat
    BY <1>6 DEF OnDisconnected, Disconnected, CountFailure
  <2> QED
    BY <1>6, <1>h, <2>1, DoubledTyped DEF OnDisconnected, Disconnected, Event
<1>7. CASE OnGotIp
  BY <1>7, <1>h, BackoffAssumption DEF OnGotIp, Event
<1>8. CASE TimerExpires
  BY <1>8 DEF TimerExpires
<1>9. CASE ReconnectTimerCb
  BY <1>9 DEF ReconnectTimerCb, Connect
<1>10. CASE UNCHANGED wmVars
  BY <1>10 DEF wmVars
<1> QED
  BY <1>1, <1>2, <1>3, <1>4, <1>5, <1>6, <1>7, <1>8, <1>9, <1>10 DEF WmNext, EventLoop

-----------------------------------------------------------------------------
\* A handled event leaves the flag that the rest of the events leads to as it
\* was, when the handler sets the flag to what the event says.
LEMMA HandledFlag ==
  ASSUME events \in Seq(Event), EventsApart, NEW e \in Event, Handle(e),
         connected' = IF e = "START" THEN connected ELSE e = "GOT_IP"
  PROVE  FlagAfter' <=> FlagAfter
<1>1. /\ Len(events') = Len(events) - 1 /\ Len(events) \in Nat \ {0}
      /\ events[1] = e /\ events' \in Seq(Event)
      /\ \A i \in 1 .. Len(events') : events'[i] = events[i + 1]
  BY HandledTail
<1>2. CASE Len(events) = 1
  <2>1. ~Pending("DISCONNECTED")' /\ ~Pending("GOT_IP")'
    BY <1>1, <1>2 DEF Pending
  <2>2. FlagAfter' = connected'
    BY <2>1 DEF FlagAfter
  <2>3. Pending("DISCONNECTED") <=> e = "DISCONNECTED"
    BY <1>1, <1>2, HandledPending, <2>1 DEF Event
  <2>4. Pending("GOT_IP") <=> e = "GOT_IP"
    BY <1>1, <1>2, HandledPending, <2>1 DEF Event
  <2> QED
    BY <1>1, <1>2, <2>2, <2>3, <2>4 DEF FlagAfter, Event
<1>3. CASE Len(events) > 1
  <2>1. events'[Len(events')] = events[Len(events)]
    BY <1>1, <1>3
  <2>2. ~Pending("START")
    BY <1>3 DEF EventsApart
  <2>3. events[Len(events)] \in Event /\ events[Len(events)] # "START"
    BY <1>1, <1>3, <2>2 DEF Pending
  <2>4. /\ Pending("DISCONNECTED") \/ Pending("GOT_IP")
        /\ (Pending("DISCONNECTED") \/ Pending("GOT_IP"))'
    BY <1>1, <1>3, <2>1, <2>3 DEF Pending, Event
  <2>5. FlagAfter = (events[Len(events)] = "GOT_IP")
    BY <2>4 DEF FlagAfter
  <2>6. FlagAfter' = (events'[Len(events')] = "GOT_IP")
    BY <2>4 DEF FlagAfter
  <2> QED
    BY <2>1, <2>5, <2>6
<1> QED
  BY <1>1, <1>2, <1>3

\* A handler takes the one event that asks for an attempt, or none does.
LEMMA HandledApart ==
  ASSUME events \in Seq(Event), EventsApart, NEW e \in Event, Handle(e)
  PROVE  /\ \A i, j \in 1 .. Len(events') :
              events'[i] # "GOT_IP" /\ events'[j] # "GOT_IP" => i = j
         /\ ~Pending("START")'
         /\ e # "GOT_IP" => ~Pending("DISCONNECTED")'
<1>1. /\ Len(events') = Len(events) - 1 /\ Len(events) \in Nat \ {0}
      /\ events[1] = e
      /\ \A i \in 1 .. Len(events') : events'[i] = events[i + 1]
  BY HandledTail
<1>2. ASSUME NEW i \in 1 .. Len(events'), NEW j \in 1 .. Len(events'),
             events'[i] # "GOT_IP", events'[j] # "GOT_IP"
      PROVE  i = j
  <2>1. i + 1 \in 1 .. Len(events) /\ j + 1 \in 1 .. Len(events)
    BY <1>1
  <2> QED
    BY <1>1, <1>2, <2>1 DEF EventsApart
<1>3. ~Pending("START")'
  <2> SUFFICES ASSUME Pending("START")' PROVE FALSE
    OBVIOUS
  <2>1. Pending("START")
    BY HandledPending DEF Event
  <2> QED
    BY <1>1, <2>1 DEF EventsApart, Pending
<1>4. ASSUME e # "GOT_IP" PROVE ~Pending("DISCONNECTED")'
  <2> SUFFICES ASSUME Pending("DISCONNECTED")' PROVE FALSE
    OBVIOUS
  <2>1. PICK i \in 1 .. Len(events') : events'[i] = "DISCONNECTED"
    BY DEF Pending
  <2>2. i + 1 \in 1 .. Len(events) /\ 1 \in 1 .. Len(events)
    BY <1>1
  <2>3. i + 1 = 1
    BY <1>1, <1>4, <2>1, <2>2 DEF EventsApart
  <2> QED
    BY <2>3
<1> QED
  BY <1>2, <1>3, <1>4

\* Handlers, timer and driver pass the token on, and each posted event will
\* set the flag to what the link has become.
LEMMA TokenStep ==
  WmInv /\ [WmNext]_wmVars => (NeverTwo /\ EventsApart /\ FlagCatchesUp)'
<1> SUFFICES ASSUME WmInv, [WmNext]_wmVars
             PROVE  NeverTwo' /\ EventsApart' /\ FlagCatchesUp'
  OBVIOUS
<1>0. WmTypeOK /\ NeverTwo /\ EventsApart /\ FlagCatchesUp
  BY DEF WmInv
<1>q. events \in Seq(Event)
  BY <1>0 DEF WmTypeOK
<1>s. ASSUME UNCHANGED <<events, connected>>
      PROVE  /\ Asked' = Asked /\ FlagAfter' = FlagAfter /\ EventsApart'
  BY <1>s, <1>0 DEF Asked, Pending, FlagAfter, EventsApart
<1>c. ASSUME Connect, link = "idle" PROVE link' \in {"idle", "connecting"}
  BY <1>c DEF Connect
<1>1. CASE Associated
  BY <1>0, <1>1, <1>s DEF Associated, timerVars, NeverTwo, FlagCatchesUp
<1>2. CASE GetsAddress
  <2>1. /\ (Pending("START")' <=> Pending("START"))
        /\ (Pending("DISCONNECTED")' <=> Pending("DISCONNECTED"))
        /\ Pending("GOT_IP")'
    BY <1>2, <1>q, PostedPending DEF GetsAddress, Event
  <2>2. /\ ~Asked /\ ~armed /\ ~firing
        /\ UNCHANGED <<armed, firing>> /\ link' = "up"
    BY <1>0, <1>2 DEF GetsAddress, NeverTwo, timerVars
  <2>3. NeverTwo'
    BY <2>1, <2>2 DEF NeverTwo, Asked
  <2>4. EventsApart'
    <3>1. \A i \in 1 .. Len(events') : events'[i] = "GOT_IP"
      BY <1>2, <1>q, <2>2 DEF GetsAddress, Asked, Pending, Event
    <3> QED
      BY <3>1, <2>1, <2>2 DEF EventsApart, Asked
  <2>5. events'[Len(events')] = "GOT_IP"
    BY <1>2, <1>q DEF GetsAddress
  <2> QED
    BY <2>1, <2>2, <2>3, <2>4, <2>5 DEF FlagCatchesUp, FlagAfter
<1>3. CASE LosesAddress
  BY <1>0, <1>3, <1>s DEF LosesAddress, timerVars, NeverTwo, FlagCatchesUp
<1>4. CASE LinkLost
  <2>1. (Pending("START")' <=> Pending("START")) /\ Pending("DISCONNECTED")'
    BY <1>4, <1>q, PostedPending DEF LinkLost, Event
  <2>2. /\ ~Asked /\ ~armed /\ ~firing
        /\ UNCHANGED <<armed, firing>> /\ link' = "idle"
    BY <1>0, <1>4 DEF LinkLost, NeverTwo, timerVars
  <2>3. NeverTwo'
    BY <2>1, <2>2 DEF NeverTwo, Asked
  <2>4. EventsApart'
    <3>1. \A i \in 1 .. Len(events) : events[i] = "GOT_IP" /\ events'[i] = events[i]
      BY <1>4, <1>q, <2>2 DEF LinkLost, Asked, Pending, Event
    <3>2. Len(events') = Len(events) + 1
      BY <1>4, <1>q DEF LinkLost
    <3> QED
      BY <3>1, <3>2, <2>1, <2>2, <1>q DEF EventsApart, Asked
  <2>5. events'[Len(events')] = "DISCONNECTED"
    BY <1>4, <1>q DEF LinkLost
  <2> QED
    BY <2>1, <2>2, <2>3, <2>4, <2>5 DEF FlagCatchesUp, FlagAfter
<1>5. CASE OnStart
  <2>0. Handle("START") /\ Connect /\ UNCHANGED <<connected, armed, firing>>
    BY <1>5 DEF OnStart, timerVars
  <2>1. /\ \A i, j \in 1 .. Len(events') :
             events'[i] # "GOT_IP" /\ events'[j] # "GOT_IP" => i = j
        /\ ~Pending("START")' /\ ~Pending("DISCONNECTED")'
    BY <1>0, <1>q, <2>0, HandledApart DEF Event
  <2>2. Pending("START")
    BY <1>q, <2>0, HandledPending DEF Event
  <2>3. ~armed /\ ~firing /\ link = "idle"
    BY <1>0, <2>2 DEF NeverTwo, Asked
  <2>4. link' \in {"idle", "connecting"}
    BY <1>c, <2>0, <2>3
  <2>5. FlagAfter' <=> FlagAfter
    BY <1>0, <1>q, <2>0, HandledFlag DEF Event
  <2>6. ~FlagAfter
    BY <1>0, <2>3 DEF FlagCatchesUp
  <2> QED
    BY <2>0, <2>1, <2>3, <2>4, <2>5, <2>6
       DEF NeverTwo, Asked, EventsApart, FlagCatchesUp
<1>6. CASE OnDisconnected
  <2>0. /\ Handle("DISCONNECTED") /\ connected' = FALSE
        /\ armed' = TRUE /\ UNCHANGED <<link, firing>>
    BY <1>6 DEF OnDisconnected, Disconnected
  <2>1. /\ \A i, j \in 1 .. Len(events') :
             events'[i] # "GOT_IP" /\ events'[j] # "GOT_IP" => i = j
        /\ ~Pending("START")' /\ ~Pending("DISCONNECTED")'
    BY <1>0, <1>q, <2>0, HandledApart DEF Event
  <2>2. Pending("DISCONNECTED")
    BY <1>q, <2>0, HandledPending DEF Event
  <2>3. ~armed /\ ~firing /\ link = "idle"
    BY <1>0, <2>2 DEF NeverTwo, Asked
  <2>5. FlagAfter' <=> FlagAfter
    BY <1>0, <1>q, <2>0, HandledFlag DEF Event
  <2>6. ~FlagAfter
    BY <1>0, <2>3 DEF FlagCatchesUp
  <2> QED
    BY <2>0, <2>1, <2>3, <2>5, <2>6
       DEF NeverTwo, Asked, EventsApart, FlagCatchesUp
<1>7. CASE OnGotIp
  <2>0. /\ Handle("GOT_IP") /\ connected' = TRUE
        /\ UNCHANGED <<link, armed, firing>>
    BY <1>7 DEF OnGotIp
  <2>1. /\ \A i, j \in 1 .. Len(events') :
             events'[i] # "GOT_IP" /\ events'[j] # "GOT_IP" => i = j
        /\ ~Pending("START")'
    BY <1>0, <1>q, <2>0, HandledApart DEF Event
  <2>2. Pending("DISCONNECTED")' <=> Pending("DISCONNECTED")
    BY <1>q, <2>0, HandledPending DEF Event
  <2>3. ~Pending("START")
    <3> SUFFICES ASSUME Pending("START") PROVE FALSE
      OBVIOUS
    <3>1. events[1] = "GOT_IP" /\ Len(events) = 1
      BY <1>0, <1>q, <2>0, HandledTail DEF EventsApart, Event
    <3> QED
      BY <3>1 DEF Pending
  <2>5. FlagAfter' <=> FlagAfter
    BY <1>0, <1>q, <2>0, HandledFlag DEF Event
  <2> QED
    BY <1>0, <2>0, <2>1, <2>2, <2>3, <2>5
       DEF NeverTwo, Asked, EventsApart, FlagCatchesUp
<1>8. CASE TimerExpires
  BY <1>0, <1>8, <1>s DEF TimerExpires, NeverTwo, FlagCatchesUp
<1>9. CASE ReconnectTimerCb
  <2>1. /\ firing /\ ~firing' /\ Connect /\ UNCHANGED <<events, connected, armed>>
    BY <1>9 DEF ReconnectTimerCb
  <2>2. ~Asked /\ ~armed /\ link = "idle" /\ link' \in {"idle", "connecting"}
    BY <1>0, <1>c, <2>1 DEF NeverTwo
  <2> QED
    BY <1>0, <1>s, <2>1, <2>2 DEF NeverTwo, FlagCatchesUp
<1>10. CASE UNCHANGED wmVars
  BY <1>0, <1>10, <1>s DEF wmVars, NeverTwo, FlagCatchesUp
<1> QED
  BY <1>1, <1>2, <1>3, <1>4, <1>5, <1>6, <1>7, <1>8, <1>9, <1>10 DEF WmNext, EventLoop

\* The token is not lost on the way, if the attempt is made at all.
LEMMA TokenKeptStep ==
  ~ConnectMayFail /\ WmInv /\ TokenKept /\ [WmNext]_wmVars => TokenKept'
<1> SUFFICES ASSUME ~ConnectMayFail, WmInv, TokenKept, [WmNext]_wmVars PROVE TokenKept'
  OBVIOUS
<1>0. NeverTwo /\ events \in Seq(Event)
  BY DEF WmInv, WmTypeOK
<1>c. ASSUME Connect, link = "idle" PROVE link' = "connecting"
  BY <1>c DEF Connect
<1>s. UNCHANGED events => Asked' = Asked
  BY DEF Asked, Pending
<1>1. CASE Associated \/ GetsAddress \/ LosesAddress
  BY <1>1 DEF Associated, GetsAddress, LosesAddress, TokenKept
<1>2. CASE LinkLost
  BY <1>0, <1>2, PostedPending DEF LinkLost, TokenKept, Asked, Event
<1>3. CASE OnStart
  BY <1>0, <1>3, <1>c, HandledPending DEF OnStart, NeverTwo, TokenKept, Asked, Event
<1>4. CASE OnDisconnected
  BY <1>4 DEF OnDisconnected, Disconnected, TokenKept
<1>5. CASE OnGotIp
  <2>1. Asked' <=> Asked
    BY <1>0, <1>5, HandledPending DEF OnGotIp, Asked, Event
  <2> QED
    BY <1>5, <2>1 DEF OnGotIp, TokenKept
<1>6. CASE TimerExpires
  BY <1>6 DEF TimerExpires, TokenKept
<1>7. CASE ReconnectTimerCb
  BY <1>0, <1>7, <1>c DEF ReconnectTimerCb, NeverTwo, TokenKept
<1>8. CASE UNCHANGED wmVars
  BY <1>8, <1>s DEF wmVars, TokenKept
<1> QED
  BY <1>1, <1>2, <1>3, <1>4, <1>5, <1>6, <1>7, <1>8 DEF WmNext, EventLoop

\* While the timer runs no address is on its way: the backoff is not reset
\* behind a wait that has been started with the old one.
LEMMA ArmedAlone ==
  ASSUME WmInv, armed
  PROVE  ~Pending("GOT_IP")
<1>1. ~Asked /\ link = "idle" /\ events \in Seq(Event)
  BY DEF WmInv, NeverTwo, WmTypeOK
<1>2. ~FlagAfter
  BY <1>1 DEF WmInv, FlagCatchesUp
<1> SUFFICES ASSUME Pending("GOT_IP") PROVE FALSE
  OBVIOUS
<1>3. Len(events) \in 1 .. Len(events) /\ events[Len(events)] # "GOT_IP"
  BY <1>1, <1>2 DEF FlagAfter, Pending
<1> QED
  BY <1>1, <1>3 DEF Asked, Pending, Event

LEMMA BackoffStep == WmInv /\ [WmNext]_wmVars => BackoffSchedule'
<1> SUFFICES ASSUME WmInv, [WmNext]_wmVars PROVE BackoffSchedule'
  OBVIOUS
<1>0. /\ backoff = Schedule(fails) /\ fails \in Nat /\ events \in Seq(Event)
      /\ BackoffSchedule
  BY DEF WmInv, WmTypeOK, BackoffSchedule
<1>s. ASSUME UNCHANGED <<backoff, delay, fails>>, armed' => armed
      PROVE  BackoffSchedule'
  BY <1>0, <1>s DEF BackoffSchedule, Schedule
<1>1. CASE OnDisconnected
  <2>1. delay' = backoff /\ backoff' = Doubled /\ CountFailure
    BY <1>1 DEF OnDisconnected, Disconnected
  <2>2. Schedule(fails + 1) = Doubled /\ Schedule(fails) \in BaseMs .. MaxMs
    BY <1>0, ScheduleDoubles DEF Doubled
  <2>3. CASE Schedule(fails) = MaxMs
    <3>1. fails' = fails /\ delay' = MaxMs
      BY <1>0, <2>1, <2>3 DEF CountFailure
    <3>2. backoff' = MaxMs
      BY <1>0, <2>1, <2>3, BackoffAssumption DEF Doubled
    <3> QED
      BY <3>1, <3>2, <2>3 DEF BackoffSchedule, Schedule
  <2>4. CASE Schedule(fails) # MaxMs
    <3>1. fails' = fails + 1
      BY <2>1, <2>4 DEF CountFailure
    <3>2. backoff' = Schedule(fails + 1) /\ delay' = Schedule(fails)
      BY <1>0, <2>1, <2>2
    <3>3. fails' > 0 /\ fails' - 1 = fails
      BY <1>0, <3>1
    <3> QED
      BY <3>1, <3>2, <3>3 DEF BackoffSchedule, Schedule
  <2> QED
    BY <2>3, <2>4
<1>2. CASE OnGotIp
  <2>1. ~armed'
    BY <1>0, <1>2, ArmedAlone, HandledPending DEF OnGotIp, Event
  <2>2. backoff' = BaseMs /\ fails' = 0
    BY <1>2 DEF OnGotIp
  <2> QED
    BY <2>1, <2>2, ScheduleDoubles DEF BackoffSchedule, Schedule
<1>3. CASE TimerExpires
  BY <1>s, <1>3 DEF TimerExpires
<1>4. CASE ReconnectTimerCb
  BY <1>s, <1>4 DEF ReconnectTimerCb
<1>5. CASE \/ Associated \/ GetsAddress \/ LosesAddress \/ LinkLost
           \/ OnStart \/ UNCHANGED wmVars
  BY <1>s, <1>5 DEF Associated, GetsAddress, LosesAddress, LinkLost, OnStart,
                    timerVars, wmVars
<1> QED
  BY <1>1, <1>2, <1>3, <1>4, <1>5 DEF WmNext, EventLoop

-----------------------------------------------------------------------------
\* The types hold, the backoff stays between its base and its cap
\* (wifi_manager.c:64-66), and do so whether or not a connect succeeds.
THEOREM WmTypeCorrect == WmSpec => []WmTypeOK
BY WmInvInit, WmTypeStep, PTL DEF WmInv, WmSpec

\* Every conjunct of the invariant.
LEMMA WmAlways == WmSpec => []WmInv
<1>1. WmInv /\ [WmNext]_wmVars => WmInv'
  BY WmTypeStep, TokenStep, BackoffStep DEF WmInv
<1> QED
  BY <1>1, WmInvInit, PTL DEF WmSpec

\* The driver is never asked for a second attempt while one is running or on
\* its way, whatever becomes of the first (wifi_manager.c:49, :59-61, :36).
THEOREM NeverTwoAttempts == WmSpec => []NeverTwo
BY WmAlways, PTL DEF WmInv

\* The chain of reconnects is neither lost nor doubled, if esp_wifi_connect()
\* does not fail (wifi_manager.c:49, :59-61, :36).
THEOREM OneAttemptAlways ==
  ASSUME ~ConnectMayFail
  PROVE  WmSpec => []OneAttempt
<1>1. WmInit => TokenKept
  BY DEF WmInit, TokenKept, Asked, Pending
<1>2. WmInv /\ TokenKept /\ [WmNext]_wmVars => TokenKept'
  BY TokenKeptStep
<1>3. WmInv /\ TokenKept => OneAttempt
  BY TokenForm DEF WmInv
<1> QED
  BY <1>1, <1>2, <1>3, WmAlways, PTL DEF WmSpec

\* wifi_is_connected() is right about the link once the event loop is empty.
THEOREM FlagAlwaysCatchesUp == WmSpec => []FlagCatchesUp
BY WmAlways, PTL DEF WmInv

\* Every wait is the power of two its failure is due, up to the cap, and the
\* first after an address is the base again (wifi_manager.c:60-67, :80).
THEOREM BackoffIsExponential == WmSpec => []BackoffSchedule
BY WmAlways, PTL DEF WmInv
=============================================================================
