------------------------------ MODULE Mailbox ------------------------------
(***************************************************************************)
(* What the email queue promises to the people at its two ends, whatever   *)
(* its workers, its reaper and the buttons of the delivery log do: a copy  *)
(* goes out only to somebody who is owed one, "sent" is written only of a  *)
(* copy that a relay has accepted, and a message whose story was over is   *)
(* taken up again only when somebody asks or a copy of it is still owed.   *)
(***************************************************************************)
EXTENDS Integers

CONSTANTS Message, Sender

VARIABLES log,    \* what the delivery log says: none, open, sent, failed or cancelled
          owed,   \* copies somebody asked for, less those that were accepted
          hand    \* the copies a relay accepted from a sender that has yet to record them

mailvars == << log, owed, hand >>

Init ==
  /\ log = [m \in Message |-> "none"]
  /\ owed = [m \in Message |-> 0]
  /\ hand = {}

\* Somebody wants a message sent, and a first copy of it.
Ask(m) ==
  /\ log[m] = "none"
  /\ log' = [log EXCEPT ![m] = "open"]
  /\ owed' = [owed EXCEPT ![m] = 1]
  /\ UNCHANGED hand

\* Somebody wants one more.
AskAgain(m) ==
  /\ log[m] # "none"
  /\ log' = [log EXCEPT ![m] = "open"]
  /\ owed' = [owed EXCEPT ![m] = @ + 1]
  /\ UNCHANGED hand

\* A relay accepts a copy that is owed.
Deliver(s, m) ==
  /\ owed[m] > 0
  /\ << s, m >> \notin hand
  /\ owed' = [owed EXCEPT ![m] = @ - 1]
  /\ hand' = hand \cup {<< s, m >>}
  /\ UNCHANGED log

Record(s, m) ==
  /\ << s, m >> \in hand
  /\ log' = [log EXCEPT ![m] = "sent"]
  /\ hand' = hand \ {<< s, m >>}
  /\ UNCHANGED owed

\* The relay's answer is lost: the sender counts the copy as not sent.
Doubt(s, m) ==
  /\ << s, m >> \in hand
  /\ owed' = [owed EXCEPT ![m] = @ + 1]
  /\ hand' = hand \ {<< s, m >>}
  /\ UNCHANGED log

\* The sender is lost, or what it would have written: nothing is owed for that.
Forget(s, m) ==
  /\ << s, m >> \in hand
  /\ hand' = hand \ {<< s, m >>}
  /\ UNCHANGED << log, owed >>

\* A sender puts back a message that the log had called over in the meantime.
Resume(m) ==
  /\ log[m] # "none"
  /\ owed[m] > 0
  /\ log' = [log EXCEPT ![m] = "open"]
  /\ UNCHANGED << owed, hand >>

GiveUp(dropped, why) ==
  /\ \A m \in dropped : log[m] # "none"
  /\ log' = [m \in Message |-> IF m \in dropped THEN why ELSE log[m]]
  /\ UNCHANGED << owed, hand >>

Next ==
  \/ \E m \in Message : Ask(m) \/ AskAgain(m) \/ Resume(m)
  \/ \E s \in Sender, m \in Message : Deliver(s, m) \/ Record(s, m) \/ Doubt(s, m) \/ Forget(s, m)
  \/ \E dropped \in SUBSET Message, why \in {"failed", "cancelled"} : GiveUp(dropped, why)

Spec == Init /\ [][Next]_mailvars
=============================================================================
