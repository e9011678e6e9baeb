------------------------------ MODULE ByteStream ------------------------------
(***************************************************************************)
(* What the ring buffer between the reader and the decoder promises: a     *)
(* bounded first-in first-out stream of bytes.  Of what the producer       *)
(* offers, a prefix is taken, as long as possible, and the producer learns *)
(* how long.  The consumer borrows a prefix of the bytes not read yet; what*)
(* it sees through the borrowed view does not change until it gives the    *)
(* view back, whatever the producer writes meanwhile.                      *)
(***************************************************************************)
EXTENDS Integers, Sequences

CONSTANT Capacity     \* the size of the ring buffer in bytes

VARIABLES offered,    \* what write() was called with, <<>> between calls
          accepted,   \* how many bytes the last write() took
          unread,     \* the bytes taken and not given back, oldest first
          lent        \* the bytes the consumer sees through its view

streamVars == <<offered, accepted, unread, lent>>

Init == offered = <<>> /\ accepted = 0 /\ unread = <<>> /\ lent = <<>>

Offer ==
  /\ offered = <<>>
  /\ offered' # <<>>
  /\ UNCHANGED <<accepted, unread, lent>>

(* As many of the offered bytes are taken as fit, and at least one.        *)
Take ==
  /\ offered # <<>>
  /\ \E n \in 1..Len(offered) :
       /\ n = Len(offered) \/ Len(unread) + n = Capacity
       /\ Len(unread) + n <= Capacity
       /\ unread' = unread \o SubSeq(offered, 1, n)
       /\ accepted' = n
  /\ offered' = <<>>
  /\ UNCHANGED lent

(* The producer is told that nothing was taken.                            *)
Decline ==
  /\ offered # <<>>
  /\ offered' = <<>>
  /\ accepted' = 0
  /\ UNCHANGED <<unread, lent>>

(* The consumer borrows at least one of the oldest bytes.                  *)
Borrow ==
  /\ lent = <<>>
  /\ \E n \in 1..Len(unread) : lent' = SubSeq(unread, 1, n)
  /\ UNCHANGED <<offered, accepted, unread>>

(* It gives them back, and those and no others are gone.                   *)
GiveBack ==
  /\ lent # <<>>
  /\ unread' = SubSeq(unread, Len(lent) + 1, Len(unread))
  /\ lent' = <<>>
  /\ UNCHANGED <<offered, accepted>>

(* The owner empties the stream while neither side uses it.                *)
Empty ==
  /\ offered = <<>> /\ lent = <<>>
  /\ unread' = <<>>
  /\ UNCHANGED <<offered, accepted, lent>>

Next == Offer \/ Take \/ Decline \/ Borrow \/ GiveBack \/ Empty

Spec == Init /\ [][Next]_streamVars
=============================================================================
