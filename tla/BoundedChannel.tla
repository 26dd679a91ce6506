--------------------------- MODULE BoundedChannel ---------------------------
(***************************************************************************)
(* What the bounded buffer promises to its users, with no semaphore, lock  *)
(* or wait queue in sight: a channel of bounded capacity on which a        *)
(* process asks to put or to get, puts and gets are atomic and in order,   *)
(* and everyone who asks is served as long as the channel keeps moving.    *)
(***************************************************************************)
EXTENDS Naturals, Sequences

CONSTANTS Producers, Consumers, Capacity

VARIABLES
    chan,       \* what was put and not yet got; an item is its producer
    asking      \* processes that have asked and not been served

chanVars == <<chan, asking>>

ChanInit == chan = <<>> /\ asking = {}

Ask(p) == p \notin asking /\ asking' = asking \cup {p} /\ UNCHANGED chan

Put(p) ==
    /\ p \in asking /\ Len(chan) < Capacity
    /\ chan' = Append(chan, p)
    /\ asking' = asking \ {p}

Get(c) ==
    /\ c \in asking /\ chan # <<>>
    /\ chan' = Tail(chan)
    /\ asking' = asking \ {c}

ChanNext ==
    \/ \E p \in Producers \cup Consumers : Ask(p)
    \/ \E p \in Producers : Put(p)
    \/ \E c \in Consumers : Get(c)

ChanSpec ==
    /\ ChanInit /\ [][ChanNext]_chanVars
    /\ \A p \in Producers : SF_chanVars(Put(p))
    /\ \A c \in Consumers : SF_chanVars(Get(c))

=============================================================================
