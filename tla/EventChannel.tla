---------------------------- MODULE EventChannel ----------------------------
(***************************************************************************)
(* What a session's event channel promises (spec sections 3 and 5): a     *)
(* per-session FIFO of notifications that keeps at most Capacity pending  *)
(* events, drops the oldest one when a new event arrives while it is      *)
(* full, is drained from the front, and is emptied only when the slot    *)
(* changes hands: its session is destroyed or a new one created in it.  *)
(* The ring buffer of openvpn_client_api.c is shown to implement this    *)
(* specification by ClientRegistry's refinement mapping.                 *)
(***************************************************************************)
EXTENDS Naturals, Sequences

CONSTANTS
    Slots,      \* the session slots, each with its own channel
    Capacity,   \* how many pending events a channel retains
    Events,     \* the events a producer may post
    MaxBurst,   \* the most events one producer step posts
    Owners,     \* the sessions a slot may be given to
    Vacant      \* the owner of a free slot

ASSUME Capacity \in Nat \ {0}
ASSUME MaxBurst \in Nat \ {0}
ASSUME Vacant \notin Owners

VARIABLES
    chan,   \* chan[s]: the pending events of slot s, oldest first
    owner   \* owner[s]: the session slot s belongs to

Init ==
    /\ chan = [s \in Slots |-> <<>>]
    /\ owner = [s \in Slots |-> Vacant]

Least(a, b) == IF a <= b THEN a ELSE b

\* A producer appends n events to channel s.  Of the old events only the
\* newest ones that still fit stay, in their order, ahead of the newest of
\* the posted ones (of which at most Capacity survive).
Post(s, n) ==
    LET old   == chan[s]
        new   == chan'[s]
        fresh == Least(n, Capacity)
        kept  == Least(Len(old), Capacity - fresh)
    IN  /\ DOMAIN chan' = Slots
        /\ \A t \in Slots \ {s} : chan'[t] = chan[t]
        /\ Len(new) = kept + fresh
        /\ \A i \in 1..kept : new[i] = old[Len(old) - kept + i]
        /\ \A i \in (kept + 1)..(kept + fresh) : new[i] \in Events
        /\ UNCHANGED owner

\* A consumer takes the oldest pending event.
Take(s) ==
    /\ chan[s] /= <<>>
    /\ chan' = [chan EXCEPT ![s] = Tail(@)]
    /\ UNCHANGED owner

\* The slot changes hands: every pending event is discarded.
Reassign(s, o) ==
    /\ o /= owner[s]
    /\ owner' = [owner EXCEPT ![s] = o]
    /\ chan' = [chan EXCEPT ![s] = <<>>]

Next ==
    \E s \in Slots :
        \/ \E n \in 1..MaxBurst : Post(s, n)
        \/ Take(s)
        \/ \E o \in Owners \cup {Vacant} : Reassign(s, o)

Spec == Init /\ [][Next]_<<chan, owner>>
=============================================================================
