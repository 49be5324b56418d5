--------------------------- MODULE AtomicEndpoint ---------------------------
(***************************************************************************)
(* What a message protocol object promises to the two ends of a            *)
(* connection: messages leave it whole, one at a time, and arrive one at a *)
(* time in the order of the stream; when a send fails, at most a part of   *)
(* that one message is left behind the whole ones (cut), and the object is *)
(* dead.  How a message is put together or taken apart is not visible.     *)
(***************************************************************************)
EXTENDS Integers, Sequences

CONSTANT Message  \* the documents a message can become

VARIABLES
    outbox,  \* the whole messages sent
    cut,     \* whether a part of one more follows them
    inbox,   \* the places in the inbound stream of the messages received
    dead     \* whether the object refuses all further use

epvars == <<outbox, cut, inbox, dead>>

Init == outbox = <<>> /\ cut = FALSE /\ inbox = <<>> /\ dead = FALSE

Extends(t, s) == Len(t) = Len(s) + 1 /\ \A i \in 1 .. Len(s) : t[i] = s[i]

Send ==
    /\ ~dead
    /\ Extends(outbox', outbox)
    /\ outbox'[Len(outbox')] \in Message
    /\ UNCHANGED <<cut, inbox, dead>>

Receive ==
    /\ ~dead
    /\ Extends(inbox', inbox)
    /\ inbox'[Len(inbox')] \in Nat \ {0}
    /\ inbox # <<>> => inbox'[Len(inbox')] > inbox[Len(inbox)]
    /\ UNCHANGED <<outbox, cut, dead>>

Die ==
    /\ ~dead
    /\ dead' = TRUE
    /\ cut' \in BOOLEAN
    /\ UNCHANGED <<outbox, inbox>>

Next == Send \/ Receive \/ Die

Spec == Init /\ [][Next]_epvars
=============================================================================
