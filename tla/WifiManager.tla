----------------------------- MODULE WifiManager -----------------------------
(***************************************************************************)
(* net/wifi_manager.c: the handlers of the Wi-Fi and IP events, the        *)
(* one-shot reconnect timer and its backoff.                               *)
(*                                                                         *)
(* The Wi-Fi driver and the IP stack are outside src/: a link that comes,  *)
(* gets or loses its address and goes, and posts what happens to the       *)
(* default event loop, which calls the handlers in order.  Handlers and    *)
(* the timer callback run in two tasks.  Delays are numbers, time is not   *)
(* counted: an armed timer fires some time.  The event group has no reader *)
(* and is left out.                                                        *)
(***************************************************************************)
EXTENDS Naturals, Sequences

CONSTANTS
  BaseMs,          \* WIFI_RECONNECT_BASE_MS
  MaxMs,           \* WIFI_RECONNECT_MAX_MS
  EventLimit,      \* bound of the model: no address is renewed behind more events
  ConnectMayFail   \* may esp_wifi_connect() return an error?  Nobody looks at it.

ASSUME BackoffAssumption == BaseMs \in Nat \ {0} /\ MaxMs \in Nat /\ BaseMs <= MaxMs
ASSUME WifiAssumption == EventLimit \in Nat /\ ConnectMayFail \in BOOLEAN

VARIABLES
  link,            \* the driver: "idle" until connect, "associated" has no address
  events,          \* posted to the event loop and not yet handled
  connected,       \* s_connected
  backoff,         \* s_backoff_ms
  armed,           \* s_reconnect_tmr is running,
  delay,           \* ... and was started with this delay
  firing,          \* reconnect_timer_cb() has been dispatched
  fails            \* history: disconnects handled since the last address, up
                   \* to the one that reaches the cap

wmVars == <<link, events, connected, backoff, armed, delay, firing, fails>>
timerVars == <<backoff, armed, delay, firing, fails>>

Event == {"START", "DISCONNECTED", "GOT_IP"}

WmTypeOK ==
  /\ link \in {"idle", "connecting", "associated", "up"}
  /\ events \in Seq(Event)
  /\ connected \in BOOLEAN
  /\ backoff \in BaseMs .. MaxMs
  /\ armed \in BOOLEAN
  /\ delay \in BaseMs .. MaxMs
  /\ firing \in BOOLEAN
  /\ fails \in Nat

\* wifi_manager_init() has come to its end: esp_wifi_start() posts STA_START.
WmInit ==
  /\ link = "idle" /\ events = <<"START">>
  /\ connected = FALSE
  /\ backoff = BaseMs /\ delay = BaseMs /\ fails = 0
  /\ armed = FALSE /\ firing = FALSE

-----------------------------------------------------------------------------
(* The driver. *)

\* esp_wifi_connect() in one of our callbacks.
Connect ==
  \E ok \in {TRUE, ~ConnectMayFail} :
    link' = IF link = "idle" /\ ok THEN "connecting" ELSE link

Associated ==
  /\ link = "connecting"
  /\ link' = "associated"
  /\ UNCHANGED <<events, connected, timerVars>>

\* The first address, or a new one without a disconnect in between.
GetsAddress ==
  /\ link \in {"associated", "up"} /\ Len(events) < EventLimit
  /\ link' = "up"
  /\ events' = Append(events, "GOT_IP")
  /\ UNCHANGED <<connected, timerVars>>

\* The lease is gone; wifi_manager.c does not ask for this event.
LosesAddress ==
  /\ link = "up"
  /\ link' = "associated"
  /\ UNCHANGED <<events, connected, timerVars>>

\* An attempt failed, or the access point is gone.
LinkLost ==
  /\ link # "idle"
  /\ link' = "idle"
  /\ events' = Append(events, "DISCONNECTED")
  /\ UNCHANGED <<connected, timerVars>>

-----------------------------------------------------------------------------
(* on_wifi_event() and on_ip_event(), in the event loop's task. *)

Handle(e) == events # <<>> /\ Head(events) = e /\ events' = Tail(events)

\* Bug: nobody starts the first attempt.
MutOnStart ==
  /\ Handle("START")
  /\ UNCHANGED <<link, connected, timerVars>>

OnStart ==
  /\ Handle("START")
  /\ Connect
  /\ UNCHANGED <<connected, timerVars>>

Doubled == IF backoff * 2 >= MaxMs THEN MaxMs ELSE backoff * 2

\* History: the wait that the n-th failure in a row, counted from 0, is due.
Power[n \in Nat] == IF n = 0 THEN 1 ELSE 2 * Power[n - 1]
Schedule(n) == LET d == BaseMs * Power[n] IN IF d >= MaxMs THEN MaxMs ELSE d
CountFailure == fails' = IF Schedule(fails) = MaxMs THEN fails ELSE fails + 1

\* The flag is set, the timer stopped and started, and the backoff updated.
Disconnected(flag, start, wait, next) ==
  /\ Handle("DISCONNECTED")
  /\ connected' = flag
  /\ armed' = start /\ delay' = wait
  /\ backoff' = next
  /\ CountFailure
  /\ UNCHANGED <<link, firing>>

\* Bugs: the cap is tested before the value is doubled; the backoff grows
\* before the timer is started with it; the flag is not cleared; no attempt
\* is made once the cap is reached.
MutDisconnectedCap ==
  Disconnected(FALSE, TRUE, backoff, IF backoff >= MaxMs THEN MaxMs ELSE backoff * 2)
MutDisconnectedOrder == Disconnected(FALSE, TRUE, Doubled, Doubled)
MutDisconnectedFlag == Disconnected(connected, TRUE, backoff, Doubled)
MutDisconnectedGivesUp == Disconnected(FALSE, backoff < MaxMs, backoff, Doubled)

OnDisconnected == Disconnected(FALSE, TRUE, backoff, Doubled)

OnGotIp ==
  /\ Handle("GOT_IP")
  /\ connected' = TRUE
  /\ backoff' = BaseMs /\ fails' = 0
  /\ UNCHANGED <<link, armed, delay, firing>>

TimerExpires ==
  /\ armed
  /\ armed' = FALSE /\ firing' = TRUE
  /\ UNCHANGED <<link, events, connected, backoff, delay, fails>>

ReconnectTimerCb ==
  /\ firing
  /\ firing' = FALSE
  /\ Connect
  /\ UNCHANGED <<events, connected, backoff, armed, delay, fails>>

-----------------------------------------------------------------------------
EventLoop == OnStart \/ OnDisconnected \/ OnGotIp

WmNext ==
  \/ Associated \/ GetsAddress \/ LosesAddress \/ LinkLost
  \/ EventLoop \/ TimerExpires \/ ReconnectTimerCb

\* The event loop and the timer task run.  Nothing is assumed of the network.
WmSpec ==
  /\ WmInit /\ [][WmNext]_wmVars
  /\ WF_wmVars(EventLoop) /\ WF_wmVars(TimerExpires) /\ WF_wmVars(ReconnectTimerCb)

-----------------------------------------------------------------------------
(* Properties *)

Pending(e) == \E i \in 1 .. Len(events) : events[i] = e

\* The chain of reconnects is one token: an event that will cause an attempt,
\* the timer, its callback, or an attempt that ends with an event.  It is never
\* lost, which would leave the node offline for the rest of the boot, and never
\* doubled, which the driver would answer with a second attempt
\* (wifi_manager.c:49, :59-61, :36).
OneAttempt ==
  LET token == <<Pending("START") \/ Pending("DISCONNECTED"), armed, firing,
                 link # "idle">>
  IN  \E i \in 1 .. 4 : \A j \in 1 .. 4 : token[j] <=> (j = i)

\* What s_connected will be once the posted events are handled.
FlagAfter ==
  IF Pending("DISCONNECTED") \/ Pending("GOT_IP")
  THEN events[Len(events)] = "GOT_IP" ELSE connected

\* wifi_is_connected() lags the link by the events in the loop and no more: an
\* order of events that leaves it TRUE over a dead link would make telemetry
\* publish instead of queuing to the card.
FlagCatchesUp ==
  /\ link \in {"idle", "connecting"} => ~FlagAfter
  /\ link = "up" => FlagAfter

\* The wait after the n-th disconnect in a row is BaseMs * 2^(n-1) up to the
\* cap, from BaseMs again after an address (wifi_manager.c:60-67, :80).
BackoffSchedule ==
  /\ backoff = Schedule(fails)
  /\ armed => \/ fails > 0 /\ delay = Schedule(fails - 1)
              \/ delay = MaxMs /\ backoff = MaxMs

\* Whatever the network does, a node that is offline tries again.
KeepsTrying == (link = "idle") ~> (link = "connecting")
=============================================================================
