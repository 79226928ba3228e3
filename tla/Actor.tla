------------------------------- MODULE Actor -------------------------------
(***************************************************************************)
(* What the message core of skynet promises to a service, without threads, *)
(* global queue, reference counts or release flags.                        *)
(*                                                                         *)
(* A service has a mailbox and handles one message at a time, in the order *)
(* of the mailbox.  A service that handles a message may lock its mailbox  *)
(* on a session: from then on nothing is handled until a message of that   *)
(* session arrives, and that message goes to the front of the mailbox.     *)
(* Messages are lost in two ways only: a service without a callback drops  *)
(* what it is given, and a closed service loses the rest of its mailbox.   *)
(*                                                                         *)
(* Dispatch is shown to implement this specification (Dispatch!Actors).    *)
(***************************************************************************)
EXTENDS Naturals, Sequences

CONSTANTS Ctx,      \* the services
          Message,  \* what a mailbox holds: records with a field session
          Session   \* the session numbers; 0 stands for "not locked"

VARIABLES
    stage,    \* stage[c]: "unborn", "open" or "closed"
    mailbox,  \* mailbox[c]: the messages not yet handled, oldest first
    busy,     \* busy[c]: code of service c is running
    lock      \* lock[c]: the session c waits for, 0 when it is not locked

vars == <<stage, mailbox, busy, lock>>

Init ==
    /\ stage \in [Ctx -> {"unborn", "open"}]
    /\ mailbox = [c \in Ctx |-> <<>>]
    /\ busy = [c \in Ctx |-> FALSE]
    /\ lock = [c \in Ctx |-> 0]

(* A service comes to life with its initialisation code running. *)
Start(c) ==
    /\ stage[c] = "unborn"
    /\ stage' = [stage EXCEPT ![c] = "open"]
    /\ busy' = [busy EXCEPT ![c] = TRUE]
    /\ UNCHANGED <<mailbox, lock>>

(* A message arrives: at the front if the service waits for its session. *)
Deliver(c, m) ==
    /\ stage[c] = "open"
    /\ IF lock[c] # 0 /\ m.session = lock[c]
       THEN /\ mailbox' = [mailbox EXCEPT ![c] = <<m>> \o @]
            /\ lock' = [lock EXCEPT ![c] = 0]
       ELSE /\ mailbox' = [mailbox EXCEPT ![c] = Append(@, m)]
            /\ UNCHANGED lock
    /\ UNCHANGED <<stage, busy>>

(* The service starts on the oldest message, or drops it. *)
Take(c) ==
    /\ stage[c] = "open" /\ ~busy[c] /\ lock[c] = 0 /\ mailbox[c] # <<>>
    /\ mailbox' = [mailbox EXCEPT ![c] = Tail(@)]
    /\ busy' \in {busy, [busy EXCEPT ![c] = TRUE]}
    /\ UNCHANGED <<stage, lock>>

Finish(c) ==
    /\ busy[c]
    /\ busy' = [busy EXCEPT ![c] = FALSE]
    /\ UNCHANGED <<stage, mailbox, lock>>

Lock(c) ==
    /\ busy[c] /\ lock[c] = 0
    /\ \E s \in Session \ {0}: lock' = [lock EXCEPT ![c] = s]
    /\ UNCHANGED <<stage, mailbox, busy>>

Unlock(c) ==
    /\ busy[c]
    /\ lock' = [lock EXCEPT ![c] = 0]
    /\ UNCHANGED <<stage, mailbox, busy>>

(* A service never closes while its code runs. *)
Close(c) ==
    /\ stage[c] = "open" /\ ~busy[c]
    /\ stage' = [stage EXCEPT ![c] = "closed"]
    /\ UNCHANGED <<mailbox, busy, lock>>

Discard(c) ==
    /\ stage[c] = "closed"
    /\ mailbox' = [mailbox EXCEPT ![c] = <<>>]
    /\ UNCHANGED <<stage, busy, lock>>

Next ==
    \E c \in Ctx:
        \/ Start(c) \/ Take(c) \/ Finish(c)
        \/ Lock(c) \/ Unlock(c) \/ Close(c) \/ Discard(c)
        \/ \E m \in Message: Deliver(c, m)

Spec == Init /\ [][Next]_vars
=============================================================================
