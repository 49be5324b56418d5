--------------------------- MODULE CallAndAnswer ---------------------------
(***************************************************************************)
(* What a client may rely on when it calls a service over a connection:    *)
(* calls run on the server one at a time, in the order they were made and  *)
(* at most once each; a call returns what its own run answered, which is   *)
(* what the service answers in the state the runs before it have left, or  *)
(* an error; a oneway call returns before anything is known of it.         *)
(* Documents and protocol objects are not visible.                         *)
(***************************************************************************)
EXTENDS Integers, Sequences

CONSTANTS
    Serve(_, _),   \* answer and new state of the service for a call in a state
    InitialState,  \* the state of the service
    IsOneway(_),   \* whether a call is oneway
    NoAnswer,      \* what a oneway call returns
    Error          \* an exception of the protocol or the transport

VARIABLES
    made,      \* the calls made, in order
    state,     \* the state of the service
    ran,       \* the runs, in order: the place of the call in made, the answer
    returned   \* what the calls have returned so far, in order

cavars == <<made, state, ran, returned>>

Init == made = <<>> /\ state = InitialState /\ ran = <<>> /\ returned = <<>>

Extends(t, s) == Len(t) = Len(s) + 1 /\ \A i \in 1 .. Len(s) : t[i] = s[i]

Invoke ==
    /\ Len(returned) = Len(made)
    /\ Extends(made', made)
    /\ UNCHANGED <<state, ran, returned>>

Run(n) ==
    /\ Extends(ran', ran)
    /\ \A i \in 1 .. Len(ran) : ran[i].call < n
    /\ LET served == Serve(made[n], state)
       IN  /\ state' = served.state
           /\ ran'[Len(ran')] = [call |-> n, answer |-> served.answer]
    /\ UNCHANGED <<made, returned>>

(* What the open call may return.                                          *)
MayReturn(r) ==
    LET n == Len(made)
    IN  \/ r = Error
        \/ IsOneway(made[n]) /\ r = NoAnswer
        \/ ~IsOneway(made[n]) /\ \E i \in 1 .. Len(ran) : ran[i] = [call |-> n, answer |-> r]

Return ==
    /\ Len(returned) < Len(made)
    /\ Extends(returned', returned)
    /\ MayReturn(returned'[Len(made)])
    /\ UNCHANGED <<made, state, ran>>

Next == Invoke \/ Return \/ \E n \in 1 .. Len(made) : Run(n)

Spec == Init /\ [][Next]_cavars
=============================================================================
