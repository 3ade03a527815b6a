------------------------------ MODULE EventLoop ------------------------------
(***************************************************************************)
(* The event loop: classes Event, Event::Source and Event::Manager of      *)
(* event.cpp, driven by Server::step.  One thread collects the due events  *)
(* of the highest priority, raises them one by one and sleeps in poll.     *)
(* A handler may set, disable, create and delete any event and change the  *)
(* readiness of any source, also of the events that are still to be raised *)
(* in the same round.                                                      *)
(*                                                                         *)
(* The clock is relative: time[e] is the time left until timeUs, 0 once    *)
(* that has come, and -1 if the event is disabled.  The order of the       *)
(* intrusive lists does not matter, as doEvents shuffles what it raises,   *)
(* so they are sets.                                                       *)
(***************************************************************************)
EXTENDS Integers, FiniteSetsExt

CONSTANTS
  Event,       \* all events
  Source,      \* the sources of the sockets
  NoSource,    \* "source" of an event that is always ready
  NoEvent,     \* no handler runs
  source,      \* the source an event is linked to, or NoSource
  priority,    \* the priority of an event
  MaxDelay     \* bound on the delays that handlers ask for; also stepUs

ASSUME NoneAssumption     == NoSource \notin Source /\ NoEvent \notin Event
ASSUME SourceAssumption   == source \in [Event -> Source \cup {NoSource}]
ASSUME PriorityAssumption == priority \in [Event -> Int]
ASSUME DelayAssumption    == MaxDelay \in Nat

VARIABLES
  live,         \* events that are initialised and not deleted
  sources,      \* sources that exist
  sourceReady,  \* Source::ready
  time,         \* Event::timeUs, relative to now
  ready,        \* Event::ready
  listReady,    \* the list LinkReady
  listRaise,    \* the list LinkRaise
  phase,        \* where Server::step is: "collect", "raise" or "sleep"
  handling,     \* the event whose handler runs
  wait,         \* what is left of the time to sleep
  raised        \* history: the events raised in this round

lists == <<listReady, listRaise>>
vars  == <<live, sources, sourceReady, time, ready, listReady, listRaise,
           phase, handling, wait, raised>>

\* The events of one or more sources.
eventsOf(S) == {e \in live : source[e] \in S}

\* isEnabled and getReady.
isOn(e, t, r) == t[e] >= 0 /\ r[e]

-----------------------------------------------------------------------------
(* Methods of Event and Source.                                            *)

\* updateReady, for each event of E, whose time or readiness has become t, r.
updateReadyLinkedForRaise(E, t, r) ==
  /\ listReady' = (listReady \ E) \cup {e \in E : isOn(e, t, r)}
  /\ UNCHANGED listRaise

updateReadyNeverLinked(E, t, r) ==
  /\ listReady' = {e \in listReady : e \in E => isOn(e, t, r)}
  /\ listRaise' = {e \in listRaise : e \in E => isOn(e, t, r)}

updateReady(E, t, r) ==
  /\ listReady' = (listReady \ E) \cup {e \in E : isOn(e, t, r)}
  /\ listRaise' = {e \in listRaise : e \in E => isOn(e, t, r)}

\* setTime moves an event to an earlier time only, unless it is disabled or
\* force is given.
setTime(e, t, force) ==
  LET moves == force \/ (time[e] > t /\ t >= 0) \/ time[e] < 0
      times == [time EXCEPT ![e] = t]
  IN  IF time[e] # t /\ moves
        THEN time' = times /\ updateReady({e}, times, ready)
        ELSE UNCHANGED <<time, lists>>

disable(e) == setTime(e, -1, TRUE)

\* unlink() takes the event out of all lists.
unlinkReadyOnly(e) == listReady' = listReady \ {e} /\ UNCHANGED listRaise

unlink(e) == listReady' = listReady \ {e} /\ listRaise' = listRaise \ {e}

\* Source::setReady, for all sources that now have the readiness value.
setReady(value) ==
  LET changed == {s \in Source : value[s] # sourceReady[s]}
      readies == [e \in Event |-> IF e \in eventsOf(changed)
                                    THEN value[source[e]] ELSE ready[e]]
  IN  /\ sourceReady' = value
      /\ ready' = readies
      /\ updateReady(eventsOf(changed), time, readies)

-----------------------------------------------------------------------------
(* Manager::doEvents and Server::step.                                     *)

Due(e) == e \in live /\ ready[e] /\ time[e] = 0

\* The events that a round raises, out of those that are due.
topLowestFirst(due) ==
  {e \in due : \A f \in due : priority[f] >= priority[e]}

top(due) == {e \in due : \A f \in due : priority[f] <= priority[e]}

Collect ==
  /\ phase = "collect"
  /\ listRaise' = top({e \in listReady : time[e] = 0})
  /\ raised' = {}
  /\ phase' = "raise"
  /\ UNCHANGED <<live, sources, sourceReady, time, ready, listReady,
                 handling, wait>>

\* Event::raise disables the event before it calls the handler.
disabledByRaiseLate(e) == UNCHANGED <<time, lists>>

disabledByRaise(e) == disable(e)

Raise(e) ==
  /\ phase = "raise"
  /\ handling = NoEvent
  /\ e \in listRaise
  /\ disabledByRaise(e)
  /\ handling' = e
  /\ raised' = raised \cup {e}
  /\ UNCHANGED <<live, sources, sourceReady, ready, phase, wait>>

Return ==
  /\ handling # NoEvent
  /\ handling' = NoEvent
  /\ UNCHANGED <<live, sources, sourceReady, time, ready, lists, phase,
                 wait, raised>>

\* The time until the next event, at most stepUs.
nextTimeOfRaised(list) == MaxDelay

nextTime(list) == Min({MaxDelay} \cup {time[e] : e \in list})

\* All events of the round have been raised.
Sleep ==
  /\ phase = "raise"
  /\ handling = NoEvent
  /\ listRaise = {}
  /\ phase' = "sleep"
  /\ wait' = nextTime(listReady)
  /\ UNCHANGED <<live, sources, sourceReady, time, ready, lists, handling,
                 raised>>

\* poll returns, at its timeout or before, and has set the sources.
Wake ==
  /\ phase = "sleep"
  /\ \E value \in [Source -> BOOLEAN] :
       /\ \A s \in Source \ sources : value[s] = sourceReady[s]
       /\ setReady(value)
  /\ phase' = "collect"
  /\ wait' = 0
  /\ UNCHANGED <<live, sources, time, handling, raised>>

\* Time passes, in handlers and in poll.
Tick ==
  /\ wait > 0 \/ \E e \in Event : time[e] > 0
  /\ time' = [e \in Event |-> IF time[e] > 0 THEN time[e] - 1 ELSE time[e]]
  /\ wait' = IF wait > 0 THEN wait - 1 ELSE 0
  /\ UNCHANGED <<live, sources, sourceReady, ready, lists, phase, handling,
                 raised>>

-----------------------------------------------------------------------------
(* What a handler does.                                                    *)

InHandler == handling # NoEvent /\ UNCHANGED <<phase, handling, wait, raised>>

SetTime(e, t) ==
  /\ InHandler
  /\ e \in live
  /\ setTime(e, t, FALSE)
  /\ UNCHANGED <<live, sources, sourceReady, ready>>

Disable(e) ==
  /\ InHandler
  /\ e \in live
  /\ disable(e)
  /\ UNCHANGED <<live, sources, sourceReady, ready>>

\* A read or write that would block, a socket that closes.
SetReady(s) ==
  /\ InHandler
  /\ s \in sources
  /\ setReady([sourceReady EXCEPT ![s] = ~@])
  /\ UNCHANGED <<live, sources, time>>

\* ~Event, by way of unlink().
Delete(e) ==
  /\ InHandler
  /\ e \in live
  /\ live' = live \ {e}
  /\ unlink(e)
  /\ time' = [time EXCEPT ![e] = -1]
  /\ ready' = [ready EXCEPT ![e] = FALSE]
  /\ UNCHANGED <<sources, sourceReady>>

\* Event::init.  A new event is disabled.
Create(e) ==
  /\ InHandler
  /\ e \notin live
  /\ source[e] \in sources \cup {NoSource}
  /\ live' = live \cup {e}
  /\ ready' = [ready EXCEPT ![e] = IF source[e] = NoSource
                                     THEN TRUE ELSE sourceReady[source[e]]]
  /\ updateReady({e}, time, ready')
  /\ UNCHANGED <<sources, sourceReady, time>>

\* ~Source: its events are never ready again.
DeleteSource(s) ==
  /\ InHandler
  /\ s \in sources
  /\ setReady([sourceReady EXCEPT ![s] = FALSE])
  /\ sources' = sources \ {s}
  /\ UNCHANGED <<live, time>>

\* The constructors of the listeners enable their events at once.
Init ==
  /\ live = Event
  /\ sources = Source
  /\ sourceReady = [s \in Source |-> FALSE]
  /\ time = [e \in Event |-> 0]
  /\ ready = [e \in Event |-> source[e] = NoSource]
  /\ listReady = {e \in Event : source[e] = NoSource}
  /\ listRaise = {}
  /\ phase = "collect"
  /\ handling = NoEvent
  /\ wait = 0
  /\ raised = {}

Next ==
  \/ Collect \/ Return \/ Sleep \/ Wake \/ Tick
  \/ \E e \in Event :
       \/ Raise(e) \/ Disable(e) \/ Delete(e) \/ Create(e)
       \/ \E t \in 0 .. MaxDelay : SetTime(e, t)
  \/ \E s \in Source : SetReady(s) \/ DeleteSource(s)

Spec == Init /\ [][Next]_vars

\* The loop never stops, and handlers return.
Fairness ==
  /\ WF_vars(Collect) /\ WF_vars(\E e \in Event : Raise(e))
  /\ WF_vars(Return) /\ WF_vars(Sleep) /\ WF_vars(Wake)

LiveSpec == Spec /\ Fairness

-----------------------------------------------------------------------------
(* Properties.                                                             *)

\* Times, lists and the state of the loop stay in their ranges; in particular
\* no list holds a deleted event.
TypeOK ==
  /\ live \subseteq Event /\ sources \subseteq Source
  /\ sourceReady \in [Source -> BOOLEAN]
  /\ time \in [Event -> -1 .. MaxDelay]
  /\ ready \in [Event -> BOOLEAN]
  /\ listReady \subseteq live /\ listRaise \subseteq live
  /\ phase \in {"collect", "raise", "sleep"}
  /\ handling \in Event \cup {NoEvent}
  /\ wait \in 0 .. MaxDelay
  /\ raised \subseteq Event

\* The assertion in doEvents: whatever the handlers of this round have done, an
\* event that is still to be raised is ready and enabled.
RaisedAreReady == \A e \in listRaise : isOn(e, time, ready)

\* The list that doEvents goes through holds exactly the events that are ready
\* and enabled: updateReady forgets none and leaves none behind.
ListIsExact == listReady = {e \in live : isOn(e, time, ready)}

\* An event is raised at most once in a round, even if its handler or another
\* one enables it again at once: a busy socket does not keep a round going.
OncePerRound == listRaise \cap raised = {}

\* The loop does not sleep while something is due: the events that a round
\* passed over for their priority, and those that its handlers have enabled,
\* count for the time that doEvents returns.
NoSleepWhileDue == phase = "sleep" /\ wait > 0 => ~\E e \in Event : Due(e)

\* A round begins with nothing due that has a higher priority than e.
FreeFor(e) ==
  Collect /\ \A f \in Event : Due(f) => priority[f] <= priority[e]

\* An event that is due is raised, unless a handler disables or deletes it or
\* its source is not ready any more, provided that doEvents finds infinitely
\* often nothing due with a higher priority.  For the events of the highest
\* priority that is no condition; the others starve without it.
DueIsRaised ==
  \A e \in Event :
    []<><<FreeFor(e)>>_vars => (Due(e) ~> (handling = e \/ ~Due(e)))

=============================================================================
