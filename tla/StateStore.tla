----------------------------- MODULE StateStore -----------------------------
(***************************************************************************)
(* What the state file is meant to be: one value that is changed by one    *)
(* operation at a time, each applied to the result of the one before.  The *)
(* one thing that may go wrong is that an operation starts over from the   *)
(* default state, when it cannot read the file.                            *)
(***************************************************************************)
EXTENDS Integers

CONSTANTS Entry, Default

VARIABLES
  content,  (* the state                                                   *)
  reliable  (* whether every operation had the lock; if not, all bets are off *)

Entries(s) == s.queued \cup s.pids

Submitted(s) ==
  {[s EXCEPT !.queued = @ \cup {e}, !.next = e.jid + 1] :
     e \in {x \in Entry \ Entries(s) : x.jid >= s.next}}
Dispatched(s) ==
  {[s EXCEPT !.queued = @ \ {e}, !.pids = @ \cup {e}] : e \in s.queued}
Freed(s) == {s} \cup {[s EXCEPT !.pids = @ \ {e}] : e \in s.pids}
Reserved(s) == {[s EXCEPT !.reserved = TRUE]}

Init == content = Default /\ reliable = TRUE

Apply ==
  content' \in Submitted(content) \cup Dispatched(content)
                 \cup Freed(content) \cup Reserved(content)

(* Only the operations that take an unreadable state for an empty one.     *)
StartOver == content' \in Submitted(Default) \cup Freed(Default)

(* An operation goes in without the lock.                                  *)
LockFails == reliable' = FALSE /\ (reliable => UNCHANGED content)

Next == ((Apply \/ StartOver) /\ UNCHANGED reliable) \/ LockFails

Spec == Init /\ [][Next]_<<content, reliable>>
=============================================================================
