---------------------------- MODULE SocketServer ----------------------------
(***************************************************************************)
(* The socket server: services on any thread reserve a slot of the socket  *)
(* table and write requests into a pipe; one socket thread reads the pipe  *)
(* and the events of the poll set, owns the slots in use, sends what is    *)
(* buffered and tells the services what happened (socket_server.c,         *)
(* socket_epoll.h, skynet_socket.c).                                       *)
(*                                                                         *)
(* A request, or an event, is handled in one step: only the socket thread  *)
(* touches a slot once it is reserved.  An id stands for its descriptor    *)
(* and its connection.  A package is Length units long; a list of write    *)
(* buffers is the sequence of the units that are left, so that its head    *)
(* has been sent in part when fewer than Length units of it are there.     *)
(* Which service owns a socket and how much is read at a time are left out.*)
(***************************************************************************)
EXTENDS Integers, Sequences, FiniteSets, SequencesExt

CONSTANTS MaxSocket,  \* slots of the table
          Length,     \* units of a package
          MaxEvent,   \* MAX_EVENT
          None,
          MaxId,      \* bound: ids issued
          MaxPipe,    \* bound: requests in the pipe
          MaxAsk      \* bound: requests to start, to close and to send

ASSUME SocketAssumption ==
    /\ MaxSocket \in Nat \ {0} /\ Length \in Nat \ {0} /\ MaxEvent \in Nat \ {0}
    /\ MaxId \in Nat /\ MaxPipe \in Nat /\ MaxAsk \in Nat
    /\ None \notin Nat

Slot    == 0..MaxSocket-1
Id      == 1..MaxId
Package == [n : 1..MaxAsk, low : BOOLEAN]
Type    == {"INVALID", "RESERVE", "PLISTEN", "LISTEN", "CONNECTING",
            "CONNECTED", "HALFCLOSE", "PACCEPT", "BIND"}

VARIABLES
    slot,       \* the array of struct socket, with what the kernel knows of
                \* each: whether it is in the poll set, whether the write event
                \* is on, and what was written to its connection; and, as
                \* history, whether a package was queued before it was connected
    alloc_id,
    pipe,       \* the requests that the socket thread has not read
    pc,         \* "ctrl": checkctrl is set; "first", "event": at the next
                \* event; "exit": the socket thread ended; "released"
    ev,         \* the events that have not been handled
    open,       \* the ids whose descriptor the server opened and has not closed
    lost,       \* those of them that were given up when sp_add failed
    told,       \* the last message about an id: "none", "live" or "end"
    asked

vars == <<slot, alloc_id, pipe, pc, ev, open, lost, told, asked>>

(* socket_server_create *)
Init ==
    /\ slot = [s \in Slot |->
                 [type |-> "INVALID", id |-> 0, high |-> <<>>, low |-> <<>>,
                  wb_size |-> 0, polled |-> FALSE, armed |-> FALSE, wire |-> <<>>,
                  early |-> FALSE]]
    /\ alloc_id = 0 /\ pipe = <<>>
    /\ pc = "ctrl" /\ ev = <<>>
    /\ open = {} /\ lost = {} /\ told = [i \in Id |-> "none"]
    /\ asked = 0

At(i) == i % MaxSocket

(* No request and no event is under way for slot s.  With a table of 65536 *)
(* slots, which are reserved in turn, a slot is only reserved again long   *)
(* after its last use, unless the table is nearly full: what happens then  *)
(* is left out here, and described in the README.                          *)
Quiet(s) ==
    /\ \A k \in DOMAIN pipe: pipe[k].cmd = "X" \/ At(pipe[k].id) # s
    /\ \A k \in DOMAIN ev: ev[k].slot # s

(* Id i is of the last user of a slot that is reserved again. *)
Outdated(i) == slot[At(i)].type = "RESERVE" /\ slot[At(i)].id = i

(* reserve_id: the slots are tried in turn. *)
Candidates ==
    {i \in alloc_id+1..alloc_id+MaxSocket :
        slot[At(i)].type = "INVALID" /\ Quiet(At(i))}
Reserves(i) ==
    /\ i \in Candidates /\ \A j \in Candidates: i <= j
    /\ alloc_id' = i

-----------------------------------------------------------------------------
(* The services.                                                           *)

(* The last service is gone: the timer thread asks the socket thread to    *)
(* end, and nobody asks for anything else.                                 *)
Ending == pc \in {"exit", "released"} \/ \E k \in DOMAIN pipe: pipe[k].cmd = "X"

Request(cmd, i, p) ==
    /\ ~Ending
    /\ Len(pipe) < MaxPipe
    /\ pipe' = Append(pipe, [cmd |-> cmd, id |-> i, pkg |-> p])

(* socket_server_connect, socket_server_bind, whose descriptor belongs to  *)
(* the caller, and socket_server_listen, after do_listen has opened one.   *)
Create ==
    /\ \E i \in Id, cmd \in {"O", "B", "L"}:
       /\ Request(cmd, i, None)
       /\ Reserves(i)
       /\ slot' = [slot EXCEPT ![At(i)].type = "RESERVE"]
       /\ open' = IF cmd = "L" THEN open \cup {i} ELSE open
    /\ UNCHANGED <<pc, ev, lost, told, asked>>

(* socket_server_start and socket_server_close, for any id issued so far *)
Ask ==
    /\ asked < MaxAsk /\ asked' = asked + 1
    /\ \E i \in Id, cmd \in {"S", "K"}:
         Request(cmd, i, None) /\ i <= alloc_id /\ ~Outdated(i)
    /\ UNCHANGED <<slot, alloc_id, pc, ev, open, lost, told>>

(* socket_server_send and socket_server_send_lowpriority: a look at the    *)
(* slot, and the request.  Nobody sends on a listening socket.             *)
Send ==
    /\ asked < MaxAsk /\ asked' = asked + 1
    /\ \E i \in Id, low \in BOOLEAN:
       LET r == slot[At(i)] IN
       /\ Request("D", i, [n |-> asked', low |-> low])
       /\ r.id = i /\ r.type \notin {"INVALID", "PLISTEN", "LISTEN"} /\ ~Outdated(i)
    /\ UNCHANGED <<slot, alloc_id, pc, ev, open, lost, told>>

(* socket_server_exit *)
Exit ==
    /\ Request("X", None, None)
    /\ UNCHANGED <<slot, alloc_id, pc, ev, open, lost, told, asked>>

-----------------------------------------------------------------------------
(* The lists of write buffers of a slot that holds r.                      *)

Empty(r) == r.high = <<>> /\ r.low = <<>>
Pending(r) == r.high \o r.low
Units(p, k) == [u \in 1..k |-> p]
Drop(list, k) == SubSeq(list, k + 1, Len(list))

ToHighUnlessLow(r, p) == ~p.low

(* The list for what is left of package p: a package that starts on an     *)
(* empty socket goes to the high list whatever its priority.               *)
ToHigh(r, p) == ~p.low \/ Empty(r)

(* append_sendbuffer, append_sendbuffer_low *)
Appended(r, p, k) ==
    [r EXCEPT !.wb_size = @ + k,
              !.early = @ \/ r.type = "CONNECTING",
              !.high = IF ToHigh(r, p) THEN @ \o Units(p, k) ELSE @,
              !.low  = IF ToHigh(r, p) THEN @ ELSE @ \o Units(p, k)]

(* list_uncomplete: the head of the list has been sent in part. *)
HeadLeft(list) == Cardinality({k \in DOMAIN list : list[k] = list[1]})
Uncomplete(list) == list # <<>> /\ HeadLeft(list) < Length

RaiseNever(r) == r

(* raise_uncomplete, when the high list is empty *)
Raise(r) ==
    IF Uncomplete(r.low)
    THEN [r EXCEPT !.high = SubSeq(r.low, 1, HeadLeft(r.low)),
                   !.low  = Drop(r.low, HeadLeft(r.low))]
    ELSE r

DoneWithHigh(r, k) == k = Len(r.high)

(* Step 4 of send_buffer: the low list was empty, the high list is now. *)
Done(r, k) == r.low = <<>> /\ k = Len(r.high)

(* send_buffer when the connection takes k units: those of the high list   *)
(* first, then those of the low list.                                      *)
AfterSend(r, k) ==
    LET h    == Len(r.high)
        left == [r EXCEPT !.wb_size = @ - k,
                          !.wire = @ \o SubSeq(Pending(r), 1, k),
                          !.high = Drop(@, k),
                          !.low  = IF k > h THEN Drop(@, k - h) ELSE @]
    IN IF k < h THEN left
       ELSE IF Done(r, k) THEN [left EXCEPT !.armed = FALSE]
       ELSE Raise(left)

-----------------------------------------------------------------------------
(* What the handlers share.                                                *)

Tell(i, what) == told' = [told EXCEPT ![i] = what]

InUse(r) == r.type \notin {"INVALID", "RESERVE"}

MatchesSlot(i) == slot[At(i)].type # "INVALID"

(* The slot still belongs to the id of the request. *)
Matches(i) == slot[At(i)].type # "INVALID" /\ slot[At(i)].id = i

(* new_fd; polled says whether the descriptor is added to the poll set. *)
NewFd(i, type, polled, armed) ==
    slot' = [slot EXCEPT ![At(i)] =
               [@ EXCEPT !.id = i, !.type = type, !.wb_size = 0,
                         !.polled = polled, !.armed = armed, !.early = FALSE]]

UnreserveNot(i) == UNCHANGED slot

(* The creation of a socket failed: its slot is free again. *)
Unreserve(i) == slot' = [slot EXCEPT ![At(i)].type = "INVALID"]

(* What force_close makes of a slot that holds r. *)
Closed(r) ==
    [r EXCEPT !.type = "INVALID", !.high = <<>>, !.low = <<>>,
              !.polled = IF r.type \in {"PACCEPT", "PLISTEN"} THEN @ ELSE FALSE,
              !.armed = FALSE, !.wire = <<>>, !.early = FALSE]

(* force_close of slot s, with the message that its owner gets *)
ForceClose(s) ==
    /\ slot' = [slot EXCEPT ![s] = Closed(@)]
    /\ open' = IF slot[s].type = "BIND" THEN open ELSE open \ {slot[s].id}
    /\ Tell(slot[s].id, "end")

(* A write fails: the socket is closed. *)
SendFails(s) == ~Empty(slot[s]) /\ ForceClose(s)

-----------------------------------------------------------------------------
(* ctrl_cmd: the requests.                                                 *)

(* open_socket: it fails, or connects at once, or will be connected later. *)
OpenSocket(i) ==
    \/ /\ Unreserve(i) /\ Tell(i, "end")
       /\ UNCHANGED open
    \/ /\ NewFd(i, "CONNECTED", TRUE, FALSE) /\ Tell(i, "live")
       /\ open' = open \cup {i}
    \/ /\ NewFd(i, "CONNECTING", TRUE, TRUE)
       /\ open' = open \cup {i}
       /\ UNCHANGED told

ListenSocket(i) == NewFd(i, "PLISTEN", FALSE, FALSE) /\ UNCHANGED <<open, told>>

BindSocket(i) ==
    /\ \/ NewFd(i, "BIND", TRUE, FALSE) /\ Tell(i, "live")
       \/ Unreserve(i) /\ Tell(i, "end")
    /\ UNCHANGED open

(* start_socket; when sp_add fails the slot is free again and its          *)
(* descriptor stays open.                                                  *)
StartSocket(i) ==
    LET type == slot[At(i)].type IN
    /\ \/ ~Matches(i) /\ Tell(i, "end") /\ UNCHANGED <<slot, lost>>
       \/ /\ Matches(i) /\ type \in {"PACCEPT", "PLISTEN"}
          /\ Unreserve(i) /\ Tell(i, "end")
          /\ lost' = lost \cup {i}
       \/ /\ Matches(i) /\ type \in {"PACCEPT", "PLISTEN"}
          /\ slot' = [slot EXCEPT ![At(i)] =
                        [@ EXCEPT !.type = IF type = "PACCEPT" THEN "CONNECTED" ELSE "LISTEN",
                                  !.polled = TRUE, !.armed = FALSE]]
          /\ Tell(i, "live") /\ UNCHANGED lost
       \/ /\ Matches(i) /\ type = "CONNECTED" /\ Tell(i, "live")
          /\ UNCHANGED <<slot, lost>>
       \/ /\ Matches(i) /\ type \notin {"PACCEPT", "PLISTEN", "CONNECTED"}
          /\ UNCHANGED <<slot, lost, told>>
    /\ UNCHANGED open

(* close_socket: at once when nothing is left to send, else when nothing   *)
(* will be.                                                                *)
CloseSocket(i) ==
    LET s == At(i)
        r == slot[s] IN
    \/ ~Matches(i) /\ Tell(i, "end") /\ UNCHANGED <<slot, open>>
    \/ Matches(i) /\ ForceClose(s)
    \/ /\ Matches(i)
       /\ \E k \in 0..Len(Pending(r)):
            LET left == AfterSend(r, k) IN
            /\ ~Empty(left)
            /\ slot' = [slot EXCEPT ![s] = [left EXCEPT !.type = "HALFCLOSE"]]
       /\ UNCHANGED <<open, told>>

(* send_socket: dropped, appended to the buffers, or written at once as    *)
(* far as the connection takes it; a write that fails closes the socket.   *)
SendSocket(i, p) ==
    LET s == At(i)
        r == slot[s]
        drops == ~Matches(i) \/ r.type \in {"HALFCLOSE", "PACCEPT"}
    IN \/ drops /\ UNCHANGED <<slot, open, told>>
       \/ /\ ~drops /\ ~Empty(r)
          /\ slot' = [slot EXCEPT ![s] = Appended(r, p, Length)]
          /\ UNCHANGED <<open, told>>
       \/ ~drops /\ Empty(r) /\ ForceClose(s)
       \/ /\ ~drops /\ Empty(r)
          /\ \E k \in 0..Length:
             LET wrote == [r EXCEPT !.wire = @ \o Units(p, k)] IN
             slot' = [slot EXCEPT ![s] =
                        IF k = Length THEN wrote
                        ELSE [Appended(wrote, p, Length - k) EXCEPT !.armed = TRUE]]
          /\ UNCHANGED <<open, told>>

CtrlCmd ==
    /\ pc = "ctrl" /\ pipe # <<>>
    /\ pipe' = Tail(pipe)
    /\ LET q == Head(pipe) IN
       \/ q.cmd = "O" /\ OpenSocket(q.id) /\ UNCHANGED <<pc, ev, lost>>
       \/ q.cmd = "L" /\ ListenSocket(q.id) /\ UNCHANGED <<pc, ev, lost>>
       \/ q.cmd = "B" /\ BindSocket(q.id) /\ UNCHANGED <<pc, ev, lost>>
       \/ q.cmd = "S" /\ StartSocket(q.id) /\ UNCHANGED <<pc, ev>>
       \/ q.cmd = "K" /\ CloseSocket(q.id) /\ UNCHANGED <<pc, ev, lost>>
       \/ q.cmd = "D" /\ SendSocket(q.id, q.pkg) /\ UNCHANGED <<pc, ev, lost>>
       \/ /\ q.cmd = "X"
          /\ pc' = "exit" /\ ev' = <<>>
          /\ UNCHANGED <<slot, open, lost, told>>
    /\ UNCHANGED <<alloc_id, asked>>

NoCmd ==
    /\ pc = "ctrl" /\ pipe = <<>>
    /\ pc' = "event"
    /\ UNCHANGED <<slot, alloc_id, pipe, ev, open, lost, told, asked>>

-----------------------------------------------------------------------------
(* The events of the poll set.                                             *)

(* report_connect *)
ReportConnect(s) ==
    \/ ForceClose(s)
    \/ /\ slot' = [slot EXCEPT ![s] = [@ EXCEPT !.type = "CONNECTED", !.armed = FALSE]]
       /\ Tell(slot[s].id, "live")
       /\ UNCHANGED open

(* report_accept: the new socket waits for socket_server_start.            *)
ReportAccept(s) ==
    \/ \E i \in Id:
         /\ Reserves(i)
         /\ NewFd(i, "PACCEPT", FALSE, FALSE)
         /\ open' = open \cup {i}
         /\ told' = [told EXCEPT ![slot[s].id] = "live", ![i] = "live"]
    \/ UNCHANGED <<slot, alloc_id, open, told>>

(* send_buffer, for a connection that takes anything, or nothing by now.   *)
SendBuffer(s) ==
    LET r == slot[s] IN
    \/ SendFails(s)
    \/ /\ Done(r, Len(r.high)) /\ r.type = "HALFCLOSE"
       /\ ForceClose(s)
    \/ \E k \in 0..Len(Pending(r)):
         /\ ~(Done(r, k) /\ r.type = "HALFCLOSE")
         /\ slot' = [slot EXCEPT ![s] = AfterSend(r, k)]
         /\ UNCHANGED <<open, told>>

(* forward_message: the peer has closed, or the read fails or is           *)
(* interrupted, or there is data, which a half-closed socket discards.     *)
ForwardMessage(s) ==
    \/ ForceClose(s)
    \/ UNCHANGED <<slot, open, told>>
    \/ /\ slot[s].type # "HALFCLOSE"
       /\ Tell(slot[s].id, "live")
       /\ UNCHANGED <<slot, open>>

(* One event, as socket_server_poll dispatches it. *)
Dispatch(e) ==
    LET type == IF e.slot = None THEN "INVALID" ELSE slot[e.slot].type IN
    \/ type = "INVALID" /\ UNCHANGED <<slot, alloc_id, open, told>>
    \/ type = "LISTEN" /\ ReportAccept(e.slot)
    \/ type = "CONNECTING" /\ ReportConnect(e.slot) /\ UNCHANGED alloc_id
    \/ /\ type \notin {"INVALID", "LISTEN", "CONNECTING"}
       /\ IF e.write THEN SendBuffer(e.slot) ELSE ForwardMessage(e.slot)
       /\ UNCHANGED alloc_id

(* After sp_wait the first event is handled, then the requests, then the   *)
(* other events.                                                           *)
Event ==
    /\ pc \in {"first", "event"} /\ ev # <<>>
    /\ Dispatch(Head(ev))
    /\ ev' = Tail(ev)
    /\ pc' = IF pc = "first" THEN "ctrl" ELSE "event"
    /\ UNCHANGED <<pipe, lost, asked>>

(* sp_wait: any of the sockets in the poll set may be ready, for writing   *)
(* only if that is asked for, and the pipe when there is a request; some   *)
(* of them are reported, in any order.                                     *)
Ready == {e \in [slot : Slot, write : BOOLEAN] :
             slot[e.slot].polled /\ (e.write => slot[e.slot].armed)}
         \cup {e \in [slot : {None}, write : {FALSE}] : pipe # <<>>}
OnePerSlot == {R \in SUBSET Ready : \A e, f \in R: e.slot = f.slot => e = f}
Wait ==
    /\ pc = "event" /\ ev = <<>>
    /\ \E R \in OnePerSlot:
         R # {} /\ Cardinality(R) <= MaxEvent /\ ev' \in SetToSeqs(R)
    /\ pc' = "first"
    /\ UNCHANGED <<slot, alloc_id, pipe, open, lost, told, asked>>

-----------------------------------------------------------------------------
(* Slots whose descriptor socket_server_release does not close. *)
KeepsOpen(s) == slot[s].type \in {"INVALID", "RESERVE", "BIND"}

(* socket_server_release, after the socket thread has ended. *)
Release ==
    /\ pc = "exit"
    /\ pc' = "released"
    /\ slot' = [s \in Slot |-> IF slot[s].type = "RESERVE" THEN slot[s] ELSE Closed(slot[s])]
    /\ open' = open \ {slot[s].id : s \in {t \in Slot : ~KeepsOpen(t)}}
    /\ UNCHANGED <<alloc_id, pipe, ev, lost, told, asked>>

-----------------------------------------------------------------------------
Next ==
    \/ Create \/ Ask \/ Send \/ Exit
    \/ CtrlCmd \/ NoCmd \/ Event \/ Wait
    \/ Release

Spec == Init /\ [][Next]_vars

-----------------------------------------------------------------------------
TypeOK ==
    /\ slot \in [Slot -> [type : Type, id : 0..MaxId, high : Seq(Package),
                          low : Seq(Package), wb_size : Nat, polled : BOOLEAN,
                          armed : BOOLEAN, wire : Seq(Package), early : BOOLEAN]]
    /\ alloc_id \in 0..MaxId
    /\ pipe \in Seq([cmd : {"O", "L", "B", "S", "K", "D", "X"}, id : Id \cup {None},
                     pkg : Package \cup {None}])
    /\ pc \in {"ctrl", "first", "event", "exit", "released"}
    /\ ev \in Seq([slot : Slot \cup {None}, write : BOOLEAN])
    /\ open \subseteq Id /\ lost \subseteq Id /\ told \in [Id -> {"none", "live", "end"}]
    /\ asked \in 0..MaxAsk

(* Nothing leaks, whatever fails: a reserved slot has exactly one request  *)
(* that will use it or free it, and nobody else's request finds it; the    *)
(* descriptors that the server opened are those of the slots in use, of    *)
(* the listen requests on their way and of the sockets that could not be   *)
(* started; a bound one stays with its caller; the poll set holds the      *)
(* sockets that were started.  socket_server_release leaves none but those *)
(* of failed starts.                                                       *)
Creations(s) == {k \in DOMAIN pipe : pipe[k].cmd \in {"O", "L", "B"} /\ At(pipe[k].id) = s}
IdsOf(types) == {slot[s].id : s \in {t \in Slot : slot[t].type \in types}}
Accounted ==
    /\ TypeOK
    /\ \A s \in Slot: Cardinality(Creations(s)) = IF slot[s].type = "RESERVE" THEN 1 ELSE 0
    /\ LET certain == IdsOf(Type \ {"INVALID", "RESERVE", "BIND", "HALFCLOSE"})
                      \cup {pipe[k].id : k \in {j \in DOMAIN pipe : pipe[j].cmd = "L"}}
       IN certain \subseteq open /\ open \subseteq certain \cup IdsOf({"HALFCLOSE"}) \cup lost
    /\ \A s \in Slot:
         slot[s].polled <=> InUse(slot[s]) /\ slot[s].type \notin {"PLISTEN", "PACCEPT"}
    /\ pc = "released" => open = lost

(* A socket with something left to write waits for the write event, unless *)
(* a package was queued before it was connected: then report_connect turns *)
(* the event off, and not before.                                          *)
WriteArmed ==
    \A s \in Slot:
       ~Empty(slot[s]) =>
         /\ slot[s].polled
         /\ slot[s].armed \/ (slot[s].early /\ slot[s].type # "CONNECTING")

(* As the comment on send_buffer has it, the event is turned off when both *)
(* lists are empty, whenever the packages were sent.                       *)
OffWhenEmpty == \A s \in Slot: InUse(slot[s]) /\ ~Empty(slot[s]) => slot[s].armed

(* Packages arrive whole and once, and those of one priority in the order  *)
(* in which they were sent, although each may be written in pieces and one *)
(* of high priority overtakes those of low priority: what was written and  *)
(* what is left, in the order of the lists, is a row of whole packages.    *)
(* wb_size counts what is left.                                            *)
Block(k) == (k - 1) \div Length
Intact ==
    \A s \in Slot:
       LET r == slot[s]
           u == r.wire \o Pending(r)
       IN InUse(r) =>
            /\ Len(u) % Length = 0
            /\ \A k \in DOMAIN u: \A j \in 1..k-1:
                 /\ Block(j) = Block(k) <=> u[j] = u[k]
                 /\ u[j].low = u[k].low => u[j].n <= u[k].n
            /\ r.wb_size = Len(Pending(r))

(* The assertions: a slot gets its descriptor reserved and with empty      *)
(* lists, is never closed or used while it is reserved, nobody's package   *)
(* reaches a listening socket, and the head of the low list has not been   *)
(* sent in part.                                                           *)
Assertions ==
    /\ \A s \in Slot: ~InUse(slot[s]) => Empty(slot[s])
    /\ \A s \in Slot: ~Uncomplete(slot[s].low)
    /\ pipe # <<>> =>
         LET q == Head(pipe)
             r == slot[At(q.id)]
         IN /\ q.cmd \in {"O", "L", "B"} => r.type = "RESERVE"
            /\ q.cmd \in {"K", "D"} /\ Matches(q.id) => r.type # "RESERVE"
            /\ q.cmd = "D" /\ Matches(q.id) => r.type \notin {"PLISTEN", "LISTEN"}
    /\ ev # <<>> /\ Head(ev).slot # None => slot[Head(ev).slot].type # "RESERVE"

(* Once a service was told that a socket is closed, or has failed, it is   *)
(* told nothing else about that id: not even by a request for the id that  *)
(* finds its slot in use again, nor by an event that was under way.        *)
NothingAfterEnd ==
    [][\A i \in Id: told[i] = "end" => told'[i] = "end"]_vars
=============================================================================
