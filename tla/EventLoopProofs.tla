-------------------------- MODULE EventLoopProofs --------------------------
(***************************************************************************)
(* The safety properties of the event loop, for any events, sources,       *)
(* priorities and delays.                                                  *)
(***************************************************************************)
EXTENDS EventLoop, WellFoundedInduction, TLAPS

\* The types without the lists.
Types ==
  /\ live \subseteq Event /\ sources \subseteq Source
  /\ sourceReady \in [Source -> BOOLEAN]
  /\ time \in [Event -> -1 .. MaxDelay]
  /\ ready \in [Event -> BOOLEAN]
  /\ phase \in {"collect", "raise", "sleep"}
  /\ handling \in Event \cup {NoEvent}
  /\ wait \in 0 .. MaxDelay
  /\ raised \subseteq Event

\* The events to raise are in the list of ready events, which is exact.
Lists == ListIsExact /\ listRaise \subseteq listReady

\* Handlers run, and events wait to be raised, in a round only.
InRound == phase # "raise" => handling = NoEvent /\ listRaise = {}

\* The loop sleeps no longer than until the next event.
WaitsForNext == phase = "sleep" => \A e \in listReady : wait <= time[e]

Inv == Types /\ Lists /\ InRound /\ OncePerRound /\ WaitsForNext

-----------------------------------------------------------------------------
(* Lemmas.                                                                 *)

\* The least element that doEvents looks for exists.
LEMMA LeastTime ==
  ASSUME NEW S \in SUBSET Nat, S # {}
  PROVE  Min(S) \in S /\ \A y \in S : Min(S) <= y
<1>1. PICK x \in S : \A y \in S : ~(<<y, x>> \in OpToRel(<, Nat))
  BY NatLessThanWellFounded, WFMin
<1>2. \A y \in S : x <= y
  <2>. SUFFICES ASSUME NEW y \in S, y < x PROVE FALSE
    OBVIOUS
  <2>1. <<y, x>> \in Nat \X Nat /\ <<y, x>>[1] < <<y, x>>[2]
    OBVIOUS
  <2>2. <<y, x>> \in OpToRel(<, Nat)
    BY <2>1, Zenon DEF OpToRel
  <2>. QED
    BY <1>1, <2>2
<1>. QED
  BY <1>2 DEF Min

\* updateReady keeps the lists right when only events of E have changed, and
\* links nothing for raising.
LEMMA UpdateReadyKeeps ==
  ASSUME Lists, NEW L, NEW E, NEW t, NEW r,
         E \subseteq L, L \ E = live \ E,
         \A e \in live \ E : isOn(e, t, r) <=> isOn(e, time, ready),
         updateReady(E, t, r)
  PROVE  /\ listReady' = {e \in L : isOn(e, t, r)}
         /\ listRaise' \subseteq listReady' /\ listRaise' \subseteq listRaise
BY DEF Lists, ListIsExact, updateReady

\* The invariant survives a step that leaves the phase alone and relinks.
LEMMA RelinkKeeps ==
  ASSUME Inv, Types', ListIsExact',
         listRaise' \subseteq listReady', listRaise' \subseteq listRaise,
         phase = "raise", UNCHANGED <<phase, raised>>
  PROVE  Inv'
BY DEF Inv, Lists, InRound, OncePerRound, WaitsForNext

\* setTime, as it changes the event or returns, with any argument.
LEMMA SetTimeKeeps ==
  ASSUME Inv, NEW e \in live, NEW t \in -1 .. MaxDelay,
         \/ UNCHANGED <<time, lists>>
         \/ /\ time' = [time EXCEPT ![e] = t]
            /\ updateReady({e}, [time EXCEPT ![e] = t], ready),
         UNCHANGED <<live, ready>>
  PROVE  /\ time' \in [Event -> -1 .. MaxDelay]
         /\ ListIsExact' /\ listRaise' \subseteq listReady'
         /\ listRaise' \subseteq listRaise
<1>. DEFINE times == [time EXCEPT ![e] = t]
<1>1. CASE UNCHANGED <<time, lists>>
  BY <1>1 DEF Inv, Types, Lists, ListIsExact, lists, isOn
<1>2. CASE time' = times /\ updateReady({e}, times, ready)
  <2>1. times \in [Event -> -1 .. MaxDelay]
    BY DEF Inv, Types
  <2>2. \A f \in live \ {e} : isOn(f, times, ready) <=> isOn(f, time, ready)
    BY DEF Inv, Types, isOn
  <2>. HIDE DEF times
  <2>3. /\ listReady' = {f \in live : isOn(f, times, ready)}
        /\ listRaise' \subseteq listReady' /\ listRaise' \subseteq listRaise
    BY <1>2, <2>2, UpdateReadyKeeps DEF Inv
  <2>. QED
    BY <1>2, <2>1, <2>3 DEF ListIsExact, isOn
<1>. QED
  BY <1>1, <1>2

\* Source::setReady.
LEMMA SetReadyKeeps ==
  ASSUME Inv, NEW value \in [Source -> BOOLEAN], setReady(value),
         UNCHANGED <<live, time>>
  PROVE  /\ sourceReady' \in [Source -> BOOLEAN] /\ ready' \in [Event -> BOOLEAN]
         /\ ListIsExact' /\ listRaise' \subseteq listReady'
         /\ listRaise' \subseteq listRaise
<1>. DEFINE changed == {s \in Source : value[s] # sourceReady[s]}
            E == eventsOf(changed)
            readies == [e \in Event |-> IF e \in E THEN value[source[e]] ELSE ready[e]]
<1>1. sourceReady' = value /\ ready' = readies /\ updateReady(E, time, readies)
  BY DEF setReady
<1>2. E \subseteq live /\ \A e \in E : source[e] \in Source
  BY DEF eventsOf
<1>3. readies \in [Event -> BOOLEAN]
  BY <1>2 DEF Inv, Types
<1>4. \A e \in live \ E : isOn(e, time, readies) <=> isOn(e, time, ready)
  BY DEF Inv, Types, isOn
<1>. HIDE DEF E, readies
<1>5. /\ listReady' = {e \in live : isOn(e, time, readies)}
      /\ listRaise' \subseteq listReady' /\ listRaise' \subseteq listRaise
  BY <1>1, <1>2, <1>4, UpdateReadyKeeps DEF Inv
<1>. QED
  BY <1>1, <1>3, <1>5 DEF ListIsExact, isOn

-----------------------------------------------------------------------------
(* The inductive invariant.                                                *)

\* It holds when the listeners have been created.
LEMMA InitInv == Init => Inv
<1>. SUFFICES ASSUME Init PROVE Inv
  OBVIOUS
<1>1. /\ ready \in [Event -> BOOLEAN]
      /\ \A e \in Event : ready[e] <=> source[e] = NoSource
  BY Zenon DEF Init
<1>2. time = [e \in Event |-> 0]
  BY DEF Init
<1>3. Types
  BY <1>1, <1>2, DelayAssumption DEF Init, Types
<1>4. \A e \in Event : time[e] >= 0
  BY <1>2
<1>5. \A e \in Event : isOn(e, time, ready) <=> source[e] = NoSource
  BY <1>1, <1>4, Zenon DEF isOn
<1>6. ListIsExact
  BY <1>5, Zenon DEF Init, ListIsExact
<1>. QED
  BY <1>3, <1>6 DEF Init, Inv, Lists, InRound, OncePerRound, WaitsForNext

\* Every step of the loop and everything a handler may do keeps it.
LEMMA NextInv == Inv /\ [Next]_vars => Inv'
<1>. SUFFICES ASSUME Inv, [Next]_vars PROVE Inv'
  OBVIOUS
<1>. USE DelayAssumption
<1>1. CASE Collect
  <2>1. listRaise' \subseteq listReady'
    BY <1>1 DEF Collect, top
  <2>2. Types'
    BY <1>1 DEF Collect, Inv, Types
  <2>3. ListIsExact'
    BY <1>1 DEF Collect, Inv, Lists, ListIsExact, isOn
  <2>. QED
    BY <1>1, <2>1, <2>2, <2>3 DEF Collect, Inv, Lists, InRound, OncePerRound, WaitsForNext
<1>2. CASE Return
  <2>1. Types' /\ ListIsExact' /\ listRaise' \subseteq listReady'
    BY <1>2 DEF Return, Inv, Types, Lists, ListIsExact, isOn, lists
  <2>. QED
    BY <1>2, <2>1 DEF Return, Inv, Lists, InRound, OncePerRound, WaitsForNext, lists
<1>3. CASE Sleep
  <2>. DEFINE S == {MaxDelay} \cup {time[e] : e \in listReady}
  <2>1. S \in SUBSET (0 .. MaxDelay) /\ S # {}
    BY DEF Inv, Types, Lists, ListIsExact, isOn
  <2>2. wait' = Min(S)
    BY <1>3 DEF Sleep, nextTime
  <2>3. \A e \in listReady : time[e] \in S
    OBVIOUS
  <2>. HIDE DEF S
  <2>4. Min(S) \in S /\ \A y \in S : Min(S) <= y
    BY <2>1, LeastTime
  <2>5. wait' \in 0 .. MaxDelay /\ \A e \in listReady : wait' <= time[e]
    BY <2>1, <2>2, <2>3, <2>4
  <2>6. Types' /\ ListIsExact' /\ listRaise' \subseteq listReady'
    BY <1>3, <2>5 DEF Sleep, Inv, Types, Lists, ListIsExact, isOn, lists
  <2>. QED
    BY <1>3, <2>5, <2>6 DEF Sleep, Inv, Lists, InRound, OncePerRound, WaitsForNext, lists
<1>4. CASE Wake
  <2>1. PICK value \in [Source -> BOOLEAN] : setReady(value)
    BY <1>4 DEF Wake
  <2>2. /\ sourceReady' \in [Source -> BOOLEAN] /\ ready' \in [Event -> BOOLEAN]
        /\ ListIsExact' /\ listRaise' \subseteq listReady'
        /\ listRaise' \subseteq listRaise
    BY <1>4, <2>1, SetReadyKeeps DEF Wake
  <2>. QED
    BY <1>4, <2>2 DEF Wake, Inv, Types, Lists, InRound, OncePerRound, WaitsForNext
<1>5. CASE Tick
  <2>1. /\ time' \in [Event -> -1 .. MaxDelay] /\ wait' \in 0 .. MaxDelay
        /\ \A e \in Event : time'[e] >= 0 <=> time[e] >= 0
        /\ \A e \in Event : wait <= time[e] => wait' <= time'[e]
    BY <1>5 DEF Tick, Inv, Types
  <2>2. Types'
    BY <1>5, <2>1 DEF Tick, Inv, Types
  <2>3. ListIsExact'
    BY <1>5, <2>1 DEF Tick, Inv, Types, Lists, ListIsExact, isOn, lists
  <2>4. listReady \subseteq Event
    BY DEF Inv, Types, Lists, ListIsExact
  <2>. QED
    BY <1>5, <2>1, <2>2, <2>3, <2>4
       DEF Tick, Inv, Lists, InRound, OncePerRound, WaitsForNext, lists
<1>6. ASSUME NEW e \in Event, Raise(e) PROVE Inv'
  <2>1. e \in live /\ time[e] # -1
    BY <1>6 DEF Raise, Inv, Types, Lists, ListIsExact, isOn
  <2>. DEFINE off == -1
  <2>6. off \in -1 .. MaxDelay
    OBVIOUS
  <2>2. \/ UNCHANGED <<time, lists>>
        \/ /\ time' = [time EXCEPT ![e] = off]
           /\ updateReady({e}, [time EXCEPT ![e] = off], ready)
    BY <1>6 DEF Raise, disabledByRaise, disable, setTime
  <2>4. time' = [time EXCEPT ![e] = off]
    BY <1>6, <2>1 DEF Raise, disabledByRaise, disable, setTime
  <2>7. ~(off >= 0)
    OBVIOUS
  <2>. HIDE DEF off
  <2>3. /\ time' \in [Event -> -1 .. MaxDelay]
        /\ ListIsExact' /\ listRaise' \subseteq listReady'
        /\ listRaise' \subseteq listRaise
    BY <1>6, <2>6, <2>1, <2>2, SetTimeKeeps DEF Raise
  <2>5. e \notin listRaise'
    BY <2>3, <2>4, <2>7 DEF Inv, Types, ListIsExact, isOn
  <2>. QED
    BY <1>6, <2>3, <2>5 DEF Raise, Inv, Types, Lists, InRound, OncePerRound, WaitsForNext
<1>7. ASSUME NEW e \in Event, Disable(e) PROVE Inv'
  <2>. DEFINE off == -1
  <2>6. off \in -1 .. MaxDelay
    OBVIOUS
  <2>2. \/ UNCHANGED <<time, lists>>
        \/ /\ time' = [time EXCEPT ![e] = off]
           /\ updateReady({e}, [time EXCEPT ![e] = off], ready)
    BY <1>7 DEF Disable, disable, setTime
  <2>. HIDE DEF off
  <2>1. /\ time' \in [Event -> -1 .. MaxDelay]
        /\ ListIsExact' /\ listRaise' \subseteq listReady'
        /\ listRaise' \subseteq listRaise
    BY <1>7, <2>6, <2>2, SetTimeKeeps DEF Disable
  <2>. QED
    BY <1>7, <2>1, RelinkKeeps DEF Disable, InHandler, Inv, Types, InRound
<1>8. ASSUME NEW e \in Event, NEW t \in 0 .. MaxDelay, SetTime(e, t) PROVE Inv'
  <2>6. t \in -1 .. MaxDelay
    OBVIOUS
  <2>2. \/ UNCHANGED <<time, lists>>
        \/ /\ time' = [time EXCEPT ![e] = t]
           /\ updateReady({e}, [time EXCEPT ![e] = t], ready)
    BY <1>8 DEF SetTime, setTime
  <2>1. /\ time' \in [Event -> -1 .. MaxDelay]
        /\ ListIsExact' /\ listRaise' \subseteq listReady'
        /\ listRaise' \subseteq listRaise
    BY <1>8, <2>2, <2>6, SetTimeKeeps DEF SetTime
  <2>. QED
    BY <1>8, <2>1, RelinkKeeps DEF SetTime, InHandler, Inv, Types, InRound
<1>9. ASSUME NEW e \in Event, Delete(e) PROVE Inv'
  <2>1. Types'
    BY <1>9 DEF Delete, InHandler, Inv, Types
  <2>2. ListIsExact'
    BY <1>9 DEF Delete, unlink, Inv, Types, Lists, ListIsExact, isOn
  <2>3. listRaise' \subseteq listReady' /\ listRaise' \subseteq listRaise
    BY <1>9 DEF Delete, unlink, Inv, Lists
  <2>. QED
    BY <1>9, <2>1, <2>2, <2>3, RelinkKeeps DEF Delete, InHandler, Inv, InRound
<1>10. ASSUME NEW e \in Event, Create(e) PROVE Inv'
  <2>1. ready' \in [Event -> BOOLEAN] /\ \A f \in Event \ {e} : ready'[f] = ready[f]
    BY <1>10, SourceAssumption DEF Create, Inv, Types
  <2>2. \A f \in live \ {e} : isOn(f, time, ready') <=> isOn(f, time, ready)
    BY <2>1 DEF Inv, Types, isOn
  <2>3. live' = live \cup {e} /\ updateReady({e}, time, ready') /\ time' = time
    BY <1>10 DEF Create
  <2>4. /\ listReady' = {f \in live \cup {e} : isOn(f, time, ready')}
        /\ listRaise' \subseteq listReady' /\ listRaise' \subseteq listRaise
    BY <2>2, <2>3, UpdateReadyKeeps DEF Inv
  <2>5. ListIsExact'
    BY <2>3, <2>4 DEF ListIsExact, isOn
  <2>. QED
    BY <1>10, <2>1, <2>4, <2>5, RelinkKeeps DEF Create, InHandler, Inv, Types, InRound
<1>11. ASSUME NEW s \in Source, SetReady(s) \/ DeleteSource(s) PROVE Inv'
  <2>1. PICK value \in [Source -> BOOLEAN] : setReady(value)
    BY <1>11 DEF SetReady, DeleteSource, Inv, Types
  <2>2. /\ InHandler /\ UNCHANGED <<live, time>> /\ sources' \subseteq sources
    BY <1>11 DEF SetReady, DeleteSource
  <2>3. /\ sourceReady' \in [Source -> BOOLEAN] /\ ready' \in [Event -> BOOLEAN]
        /\ ListIsExact' /\ listRaise' \subseteq listReady'
        /\ listRaise' \subseteq listRaise
    BY <2>1, <2>2, SetReadyKeeps
  <2>. QED
    BY <2>2, <2>3, RelinkKeeps DEF InHandler, Inv, Types, InRound
<1>12. CASE UNCHANGED vars
  <2>1. Types' /\ ListIsExact' /\ listRaise' \subseteq listReady'
    BY <1>12 DEF vars, Inv, Types, Lists, ListIsExact, isOn
  <2>. QED
    BY <1>12, <2>1 DEF vars, Inv, Lists, InRound, OncePerRound, WaitsForNext
<1>. QED
  BY <1>1, <1>2, <1>3, <1>4, <1>5, <1>6, <1>7, <1>8, <1>9, <1>10, <1>11, <1>12 DEF Next

\* The inductive invariant holds always.
THEOREM LoopInv == Spec => []Inv
BY InitInv, NextInv, PTL DEF Spec

-----------------------------------------------------------------------------
(* The theorems.                                                           *)

\* No list of the loop ever holds a deleted event.
THEOREM LoopTypes == Spec => []TypeOK
<1>1. Inv => TypeOK
  BY DEF Inv, Types, Lists, ListIsExact, TypeOK
<1>. QED
  BY <1>1, LoopInv, PTL

\* The assertion of doEvents never fails.
THEOREM AssertionHolds == Spec => []RaisedAreReady
<1>1. Inv => RaisedAreReady
  BY DEF Inv, Lists, ListIsExact, RaisedAreReady
<1>. QED
  BY <1>1, LoopInv, PTL

\* updateReady keeps the list of ready events exact.
THEOREM ListStaysExact == Spec => []ListIsExact
<1>1. Inv => ListIsExact
  BY DEF Inv, Lists
<1>. QED
  BY <1>1, LoopInv, PTL

\* No event is raised twice in a round.
THEOREM RaisedOnce == Spec => []OncePerRound
<1>1. Inv => OncePerRound
  BY DEF Inv
<1>. QED
  BY <1>1, LoopInv, PTL

\* The loop never sleeps while an event is due.
THEOREM NeverSleepsWhileDue == Spec => []NoSleepWhileDue
<1>1. Inv => NoSleepWhileDue
  BY DEF Inv, Types, Lists, ListIsExact, WaitsForNext, NoSleepWhileDue, Due, isOn
<1>. QED
  BY <1>1, LoopInv, PTL

=============================================================================
