--------------------------- MODULE TriggerHandlers ---------------------------
(***************************************************************************)
(* The handlers that turn the outside into trigger events, in              *)
(* domain/strategies/event_driven.py: ScheduleTriggerHandler, whose loop   *)
(* sleeps and calls back, and SSETriggerHandler, which reads a stream of   *)
(* lines and connects again when it breaks.                                *)
(***************************************************************************)
EXTENDS Integers, Sequences

CONSTANTS
    Loops,         \* bound: 1 .. the number of starts of the schedule
    MaxTicks,      \* bound: events of the schedule
    MaxRetries,    \* max_retries
    MaxLines       \* bound: lines the server sends

VARIABLES
    loops,         \* state of each schedule loop
    interval,      \* minutes between two events of the loop started last
    handle,        \* _task: the loop started last, 0 for none
    ticks,         \* _tick
    listener,      \* state of _listen
    retries,
    given,         \* the caller gave an event_source
    exhausted,     \* that source has ended
    data,          \* data_lines
    eventType,
    block,         \* history: the lines since the last blank, of this connection
    event,         \* the event handed to the callback
    lines          \* history: the number of lines sent

scheduleVars == <<loops, interval, handle, ticks>>
sseVars == <<listener, retries, given, exhausted, data, eventType, block, event, lines>>

NoEvent == [data |-> <<>>, event |-> "none"]

ScheduleIdle ==
    /\ loops = [l \in Loops |-> "none"]
    /\ interval = 0 /\ handle = 0 /\ ticks = 0

SSEStart(source) ==
    /\ listener = "idle"
    /\ retries = 0
    /\ given = source
    /\ exhausted = FALSE
    /\ data = <<>> /\ eventType = "message" /\ block = <<>>
    /\ event = NoEvent
    /\ lines = 0

SSEIdle == SSEStart(FALSE)

-----------------------------------------------------------------------------
(* The interval of "minute hour", in minutes: the hour field decides.      *)
CronInterval(minute, hour) ==
    CASE hour[1] = "every"                          -> hour[2] * 60
      [] hour[1] = "any" /\ minute[1] = "every"     -> minute[2]
      [] hour[1] = "any" /\ minute[1] = "any"       -> 1
      [] OTHER                                      -> 60

CronIsValid(minute, hour) ==
    /\ minute[1] \in {"any", "every", "zero"}
    /\ minute[1] = "every" => minute[2] \in 1 .. 59
    /\ hour[1] \in {"any", "every"}
    /\ hour[1] = "every" => hour[2] \in 1 .. 23

Fields == {<<"any">>, <<"zero">>, <<"every", 0>>, <<"every", 5>>, <<"every", 12>>,
           <<"every", 24>>, <<"every", 60>>, <<"list">>}

(* Where cron fires evenly over the day, it does so at that interval: an   *)
(* hour field beside a minute field other than 0 is where it does not.     *)
MinutesOf(field) == CASE field[1] = "any"   -> 0 .. 59
                      [] field[1] = "every" -> {m \in 0 .. 59 : m % field[2] = 0}
                      [] OTHER              -> {0}
HoursOf(field) == IF field[1] = "any" THEN 0 .. 23 ELSE {h \in 0 .. 23 : h % field[2] = 0}

CronKeepsTime ==
    \A minute, hour \in Fields :
        CronIsValid(minute, hour) =>
            LET times == {60 * h + m : h \in HoursOf(hour), m \in MinutesOf(minute)}
                Even(gap) == times = {t \in 0 .. 1439 : t % gap = 0}
            IN \A gap \in {g \in 1 .. 1440 : 1440 % g = 0} :
                  Even(gap) => CronInterval(minute, hour) = gap

Running(l) == loops[l] \in {"sleeping", "calling"}

(* start: whatever loop ran goes on, but without a handle, and the ticks   *)
(* start again.                                                            *)
StartSchedule(every) ==
    /\ handle + 1 \in Loops
    /\ interval' = every
    /\ handle' = handle + 1
    /\ loops' = [loops EXCEPT ![handle + 1] = "sleeping"]
    /\ ticks' = 0

(* start_cron: an expression it cannot read is an error, and starts nothing. *)
StartCron(minute, hour) ==
    /\ CronIsValid(minute, hour)
    /\ StartSchedule(CronInterval(minute, hour))

ScheduleFires(l) ==
    /\ loops[l] = "sleeping"
    /\ ticks < MaxTicks
    /\ ticks' = ticks + 1
    /\ loops' = [loops EXCEPT ![l] = "calling"]
    /\ UNCHANGED <<interval, handle>>

(* The callback returns, or raises and ends the loop. *)
ScheduleCalled(l) ==
    /\ loops[l] = "calling"
    /\ \E next \in {"sleeping", "over"} : loops' = [loops EXCEPT ![l] = next]
    /\ UNCHANGED <<interval, handle, ticks>>

StopSchedule ==
    /\ handle # 0
    /\ loops' = IF Running(handle) THEN [loops EXCEPT ![handle] = "over"] ELSE loops
    /\ UNCHANGED <<interval, handle, ticks>>

ScheduleNext ==
    \/ \E minute, hour \in Fields : StartCron(minute, hour)
    \/ StopSchedule
    \/ \E l \in Loops : ScheduleFires(l) \/ ScheduleCalled(l)

-----------------------------------------------------------------------------
(* The listener reads a source it was given, or connects for each try.     *)
StartListening ==
    /\ listener = "idle"
    /\ listener' = "connect"
    /\ UNCHANGED <<retries, given, exhausted, data, eventType, block, event, lines>>

(* _consume starts anew: nothing of the last connection is kept. *)
Connect ==
    /\ listener = "connect"
    /\ listener' = "reading"
    /\ data' = <<>>
    /\ eventType' = "message"
    /\ block' = <<>>
    /\ UNCHANGED <<retries, given, exhausted, event, lines>>

Break ==
    /\ retries' = retries + 1
    /\ listener' = IF retries < MaxRetries THEN "sleeping" ELSE "failed"

(* The connection is refused, ends or raises; a source that was given      *)
(* stays at its end.                                                       *)
Disconnected ==
    /\ listener \in {"connect", "reading"}
    /\ listener = "connect" => ~given
    /\ Break
    /\ exhausted' = given
    /\ UNCHANGED <<given, data, eventType, block, event, lines>>

(* A line with its field; the blank line hands the event on. *)
ReadLine ==
    /\ listener = "reading"
    /\ ~(given /\ exhausted)
    /\ lines < MaxLines
    /\ lines' = lines + 1
    /\ UNCHANGED <<retries, given, exhausted, listener, event>>
    /\ \E kind \in {"data", "event", "comment", "id"} :
          /\ block' = Append(block, [kind |-> kind, line |-> lines])
          /\ data' = IF kind = "data" THEN Append(data, lines) ELSE data
          /\ eventType' = IF kind = "event" THEN "named" ELSE eventType

\* Mutant: an event without data does not reset its type.
ReadBlankKeepsType ==
    /\ listener = "reading"
    /\ ~(given /\ exhausted)
    /\ lines < MaxLines
    /\ lines' = lines + 1
    /\ IF data = <<>>
       THEN UNCHANGED <<listener, event, eventType, data>>
       ELSE /\ event' = [data |-> data, event |-> eventType]
            /\ listener' = "calling"
            /\ UNCHANGED <<eventType, data>>
    /\ block' = IF data = <<>> THEN <<>> ELSE block
    /\ UNCHANGED <<retries, given, exhausted>>

ReadBlank ==
    /\ listener = "reading"
    /\ ~(given /\ exhausted)
    /\ lines < MaxLines
    /\ lines' = lines + 1
    /\ IF data = <<>>
       THEN /\ eventType' = "message"
            /\ block' = <<>>
            /\ UNCHANGED <<listener, event, data>>
       ELSE /\ event' = [data |-> data, event |-> eventType]
            /\ listener' = "calling"
            /\ UNCHANGED <<eventType, data, block>>
    /\ UNCHANGED <<retries, given, exhausted>>

Called ==
    /\ listener = "calling"
    /\ event' = NoEvent
    /\ data' = <<>>
    /\ eventType' = "message"
    /\ block' = <<>>
    /\ listener' = "reading"
    /\ UNCHANGED <<retries, given, exhausted, lines>>

(* The callback raises: taken for a broken connection, the event is lost. *)
CallbackFails ==
    /\ listener = "calling"
    /\ Break
    /\ event' = NoEvent
    /\ UNCHANGED <<given, exhausted, data, eventType, block, lines>>

Reconnect ==
    /\ listener = "sleeping"
    /\ listener' = "connect"
    /\ UNCHANGED <<retries, given, exhausted, data, eventType, block, event, lines>>

StopListening ==
    /\ listener \notin {"idle", "failed", "stopped"}
    /\ listener' = "stopped"
    /\ event' = NoEvent
    /\ UNCHANGED <<retries, given, exhausted, data, eventType, block, lines>>

SSENext ==
    \/ StartListening \/ Connect \/ Disconnected \/ ReadLine \/ ReadBlank
    \/ Called \/ CallbackFails \/ Reconnect \/ StopListening

-----------------------------------------------------------------------------

(***************************************************************************)
(* An event is made of the data lines between two blank lines of one       *)
(* connection, in the order they came, and named by an event line among    *)
(* them: nothing of a block that was empty, broken off or whose callback   *)
(* failed (the lines of a block are numbered as they come).                *)
(***************************************************************************)
PlacesOf(kind) == {i \in DOMAIN block : block[i].kind = kind}

EventsAreWhole ==
    listener = "calling" =>
        /\ {event.data[i] : i \in DOMAIN event.data} = {block[i].line : i \in PlacesOf("data")}
        /\ \A i, j \in DOMAIN event.data : i < j => event.data[i] < event.data[j]
        /\ event.event = "named" <=> PlacesOf("event") # {}

=============================================================================
