-------------------------------- MODULE Timer --------------------------------
(***************************************************************************)
(* The timing wheel of skynet_timer.c: lists of nodes for the near future, *)
(* and levels of ever coarser lists that are spread over the finer ones    *)
(* when the time comes to them.  A section under the timer's lock is one   *)
(* step.  The timer thread reads the clock and owes the wheel one          *)
(* timer_update per tick that passed; workers add events meanwhile.        *)
(***************************************************************************)
EXTENDS Integers, Sequences, FiniteSets

CONSTANTS Near,      \* TIME_NEAR: lists of the near future
          Level,     \* TIME_LEVEL: lists of a level, and one
          Levels,    \* levels: 4 in the code
          Period,    \* what _gettime wraps at: (0xffffff+1)*100
          Delay,     \* the delays services ask for, none negative
          Mask,      \* mask: the ticks a list of each level spans
          MaxEvent,  \* bound: events in a behaviour
          MaxTime    \* bound: ticks in a behaviour; the wheel does not wrap

ASSUME TimerAssumption ==
    /\ Near \in Nat \ {0} /\ Level \in Nat \ {0, 1} /\ Levels \in Nat \ {0}
    /\ Period \in Nat \ {0} /\ MaxEvent \in Nat /\ MaxTime \in Nat
    /\ Delay \subseteq Nat
    /\ Mask \in [0..Levels -> Nat] /\ Mask[0] = Near
    /\ \A i \in 0..Levels-1: Mask[i+1] = Mask[i] * Level
    /\ MaxTime < Mask[Levels]

VARIABLES
    time,     \* T->time
    wheel,    \* T->near as <<0, i>>, and T->t[i-1][j-1] as <<i, j>>
    asked,    \* how many events were added; a node is its event's number
    fired,    \* the events pushed to their services, in order
    current,  \* T->current, the clock when it was last read
    owed,     \* calls of timer_update still to make for it
    clock,    \* the real time, in ticks
    start,    \* the real time at skynet_timer_init
    polled    \* the real time at the last reading

vars == <<time, wheel, asked, fired, current, owed, clock, start, polled>>

Places == ({0} \X (0..Near-1)) \cup ((1..Levels) \X (1..Level-1))

(* skynet_timer_init, at any phase of the clock. *)
Init ==
    /\ time = 0 /\ asked = 0 /\ fired = <<>> /\ owed = 0
    /\ wheel = [p \in Places |-> <<>>]
    /\ clock \in 0..Period-1
    /\ start = clock /\ polled = clock /\ current = clock

-----------------------------------------------------------------------------
(* add_node: where a node goes that expires at e, when the time is now. *)
Place(e, now) ==
    IF e \div Near = now \div Near
    THEN <<0, e % Near>>
    ELSE LET i == CHOOSE i \in 0..Levels-1:
                     /\ e \div Mask[i+1] = now \div Mask[i+1] \/ i = Levels-1
                     /\ \A j \in 0..i-1: e \div Mask[j+1] # now \div Mask[j+1]
         IN <<i+1, (e \div Mask[i]) % Level>>

(* skynet_timeout: by a worker, for the service it runs. *)
Timeout ==
    /\ asked < MaxEvent
    /\ asked' = asked + 1
    /\ \E d \in Delay:
       /\ time + d <= MaxTime
       /\ IF d = 0
          THEN /\ fired' = Append(fired, asked + 1)
               /\ UNCHANGED wheel
          ELSE /\ wheel' = [wheel EXCEPT ![Place(time + d, time)] =
                              Append(@, [id |-> asked + 1, expire |-> time + d])]
               /\ UNCHANGED fired
    /\ UNCHANGED <<time, current, owed, clock, start, polled>>

(* The nodes of list at the positions at, in their order. *)
Sublist(list, at) ==
    [k \in 1..Cardinality(at) |->
       list[CHOOSE i \in at: Cardinality({j \in at : j <= i}) = k]]

Idx(now, i) == (now \div Mask[i]) % Level

(* The list that timer_shift spreads when the time becomes now. *)
Coarse(now) ==
    LET i == CHOOSE i \in 0..Levels-1:
               Idx(now, i) # 0 /\ \A j \in 0..i-1: Idx(now, j) = 0
    IN  <<i+1, Idx(now, i)>>

ShiftedNever(w, now) == w

(* timer_shift, the cascade: the lists w after time has become now. *)
Shifted(w, now) ==
    IF now % Near # 0
    THEN w
    ELSE LET from == Coarse(now) IN
         [p \in Places |->
            (IF p = from THEN <<>> ELSE w[p])
            \o Sublist(w[from], {k \in DOMAIN w[from] :
                                  Place(w[from][k].expire, now) = p})]

Ids(list) == [i \in DOMAIN list |-> list[i].id]

(* timer_update: execute what is due now, shift, execute what is due next. *)
TimerUpdate ==
    /\ owed > 0
    /\ owed' = owed - 1
    /\ time' = time + 1
    /\ LET before == <<0, time % Near>>
           lists  == Shifted([wheel EXCEPT ![before] = <<>>], time + 1)
           after  == <<0, (time + 1) % Near>>
       IN /\ fired' = fired \o Ids(wheel[before]) \o Ids(lists[after])
          /\ wheel' = [lists EXCEPT ![after] = <<>>]
    /\ UNCHANGED <<asked, current, clock, start, polled>>

(* _gettime *)
Now == clock % Period

ElapsedShort(ct) == IF ct >= current THEN ct - current ELSE Period - 1 - current + ct

(* The ticks since the last reading, when the clock reads ct. *)
Elapsed(ct) == IF ct >= current THEN ct - current ELSE Period - current + ct

(* skynet_updatetime up to the loop: read the clock, compute the ticks. *)
UpdateTime ==
    /\ owed = 0
    /\ Now # current
    /\ current' = Now
    /\ owed' = Elapsed(Now)
    /\ polled' = clock
    /\ UNCHANGED <<time, wheel, asked, fired, clock, start>>

(* Time passes; the timer thread is never held up for a whole Period. *)
Clock ==
    /\ clock + 1 - polled < Period
    /\ time + owed + (clock + 1 - polled) <= MaxTime
    /\ clock' = clock + 1
    /\ UNCHANGED <<time, wheel, asked, fired, current, owed, start, polled>>

Next == Timeout \/ TimerUpdate \/ UpdateTime \/ Clock

Spec == Init /\ [][Next]_vars

(* Time goes on and the timer thread keeps running. *)
FairSpec == Spec /\ WF_vars(Clock) /\ WF_vars(UpdateTime) /\ WF_vars(TimerUpdate)

-----------------------------------------------------------------------------
Node == [id: 1..MaxEvent, expire: 0..MaxTime]

TypeOK ==
    /\ time \in 0..MaxTime
    /\ wheel \in [Places -> Seq(Node)]
    /\ asked \in 0..MaxEvent
    /\ fired \in Seq(1..MaxEvent)
    /\ current \in 0..Period-1
    /\ owed \in 0..Period
    /\ clock \in Nat /\ start \in Nat /\ polled \in Nat

(* The wheel has made one tick for each that passed on the clock up to the *)
(* last reading, also when the reading wrapped around (skynet_updatetime). *)
TicksMatchClock ==
    /\ TypeOK
    /\ current = polled % Period
    /\ time + owed = polled - start
    /\ owed < Period

(* The wheel is an exact timer: every event fires once, at the tick of its *)
(* deadline, and events of one tick in the order they were added, whatever *)
(* levels they came down from.                                             *)
Nodes == UNION {{wheel[p][i] : i \in DOMAIN wheel[p]} : p \in Places}

Abstract == INSTANCE AbstractTimer WITH now <- time, pending <- Nodes
ExactTimer == Abstract!Spec

(* Every event that was added fires.                                       *)
EventuallyFires ==
    \A id \in 1..MaxEvent:
       (asked >= id) ~> \E i \in DOMAIN fired: fired[i] = id
=============================================================================
