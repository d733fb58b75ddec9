-------------------------- MODULE EmailQueueProofs --------------------------
(***************************************************************************)
(* What holds of the email queue for every number of messages, servers,    *)
(* workers and requests: its type invariant, that no copy is sent that     *)
(* nobody asked for, that two workers meet on one message only after Retry *)
(* and that max_attempts bounds the tries; that it is a mailbox; and which *)
(* step makes the log call a message cancelled that went out.              *)
(***************************************************************************)
EXTENDS EmailQueue, FiniteSetTheorems, TLAPS

\* The steps of one worker, its faults included.
WorkerAction(w) == WorkerStep(w) \/ Beat(w) \/ Fault(w) \/ Restart(w)

\* The steps of everything else.
OtherAction ==
  \/ \E m \in Message : Enqueue(m) \/ ComesDue(m) \/ Lapse(m)
  \/ \E o \in Operator : Request(o)
  \/ \E s \in Server : SwitchServer(s) \/ DeleteServer(s)
  \/ UNCHANGED vars

LEMMA StepKinds == [Next]_vars <=> (\E w \in Worker : WorkerAction(w)) \/ OtherAction
  BY DEF Next, WorkerAction, OtherAction

-----------------------------------------------------------------------------
(* The inductive invariant.                                                *)

\* Where the queue's promises come from.  What the recipient is still owed covers
\* the queued row, if it is queued, and every worker that may yet send or put
\* the message back; a crash or a reaper only ever takes from the left side.
Engaged == Sending \cup {"locked"}
Unspent(m) ==
  {w \in Worker : /\ holds[w] = m
                  /\ \/ pc[w] \in {"read", "send"}
                     \/ pc[w] = "close" /\ verdict[w] = "queued"}
Waiting(m) == IF status[m] = "queued" THEN 1 ELSE 0
Covered == \A m \in Message : Waiting(m) + Cardinality(Unspent(m)) <= owed[m]

NewAreUntouched ==
  /\ \A m \in Message :
       status[m] = "none" => owed[m] = 0 /\ attempt[m] = 0 /\ m \notin retried
  /\ \A w \in Worker : \A m \in stale[w] : status[m] # "none"
  /\ \A o \in Operator :
       asks[o] # "none" => about[o] \in Message /\ status[about[o]] # "none"
EngagedHold ==
  \A w \in Worker :
    /\ pc[w] \in Engaged => holds[w] \in Message /\ status[holds[w]] # "none"
    /\ pc[w] = "close" => verdict[w] # "none"
LocksAreQueued == \A w \in Worker : pc[w] = "locked" => status[holds[w]] = "queued"
OneLock ==
  \A v, w \in Worker :
    v # w /\ pc[v] = "locked" /\ pc[w] = "locked" => holds[v] # holds[w]
QueuedAreFree ==
  \A w \in Worker :
    pc[w] \in Sending /\ status[holds[w]] = "queued" => holds[w] \in retried

\* While nobody has pressed Retry a worker knows how often its message was
\* tried, and only one with attempts left is queued or about to be.
AttemptsKnown ==
  \A w \in Worker :
    pc[w] \in Sending /\ holds[w] \notin retried =>
      /\ attempt[holds[w]] >= 1
      /\ pc[w] \in {"send", "taken"} => seen[w] = attempt[holds[w]]
      /\ pc[w] = "close" /\ verdict[w] = "queued" => attempt[holds[w]] < MaxAttempts
AttemptsLeft ==
  \A m \in Message :
    status[m] = "queued" /\ m \notin retried => attempt[m] < MaxAttempts

\* The queue's books: every copy that may still be sent is owed to somebody,
\* whoever holds, has selected or is asked about a message (queue.py and
\* queries.py, whose writers never look at the row they write).
Accounted ==
  /\ Covered /\ NewAreUntouched /\ EngagedHold /\ LocksAreQueued
  /\ OneLock /\ QueuedAreFree /\ AttemptsKnown /\ AttemptsLeft

-----------------------------------------------------------------------------
(* Types.                                                                  *)

LEMMA InitType == Init => TypeOK
  BY EmailAssumption DEF Init, TypeOK, Status, Terminal, Stage, Sending

LEMMA WorkerType ==
  ASSUME TypeOK, EngagedHold, NEW w \in Worker, WorkerAction(w)
  PROVE  TypeOK'
<1> USE DEF TypeOK, Status, Terminal, Stage, Sending, row, desk, history
<1>1. CASE ReapSelect(w)   BY <1>1 DEF ReapSelect, StaleEmails
<1>2. CASE ReapWrite(w)    BY <1>2 DEF ReapWrite, Reap
<1>3. CASE ClaimSelect(w)  BY <1>3 DEF ClaimSelect, Claimable
<1>4. CASE ClaimNothing(w) BY <1>4 DEF ClaimNothing
<1>5. CASE ClaimCommit(w)  BY <1>5 DEF ClaimCommit, EngagedHold, Engaged
<1>6. CASE Prepare(w)      BY <1>6 DEF Prepare, EngagedHold, Engaged
<1>7. CASE Accept(w)       BY <1>7 DEF Accept, EngagedHold, Engaged
<1>8. CASE Refuse(w)       BY <1>8 DEF Refuse, Outcome
<1>9. CASE Answer(w)       BY <1>9 DEF Answer
<1>10. CASE AnswerLost(w)  BY <1>10 DEF AnswerLost, Outcome, EngagedHold, Engaged
<1>11. CASE Close(w)       BY <1>11 DEF Close, Requeue, Done, EngagedHold, Engaged
<1>12. CASE Beat(w)        BY <1>12 DEF Beat, task
<1>13. CASE Crash(w)       BY <1>13 DEF Crash, Faulty
<1>14. CASE DrainFaults(w) BY <1>14 DEF DrainFaults, Faulty
<1>15. CASE PrepareFaults(w) BY <1>15 DEF PrepareFaults, Faulty
<1>16. CASE CloseFaults(w) BY <1>16 DEF CloseFaults, Done, Faulty
<1>17. CASE BeatFaults(w)  BY <1>17 DEF BeatFaults, Faulty
<1>18. CASE Restart(w)     BY <1>18 DEF Restart
<1> QED
  BY <1>1, <1>2, <1>3, <1>4, <1>5, <1>6, <1>7, <1>8, <1>9, <1>10, <1>11, <1>12,
     <1>13, <1>14, <1>15, <1>16, <1>17, <1>18 DEF WorkerAction, WorkerStep, Fault

LEMMA OtherType ==
  ASSUME TypeOK, NewAreUntouched, OtherAction
  PROVE  TypeOK'
<1> USE DEF TypeOK, Status, Terminal, Stage, Sending, row, task, desk, history
<1>1. ASSUME NEW m \in Message, Enqueue(m) PROVE TypeOK'   BY <1>1 DEF Enqueue
<1>2. ASSUME NEW m \in Message, ComesDue(m) PROVE TypeOK'  BY <1>2 DEF ComesDue
<1>3. ASSUME NEW m \in Message, Lapse(m) PROVE TypeOK'     BY <1>3 DEF Lapse
<1>4. ASSUME NEW o \in Operator, NEW m \in Message, RetryReads(o, m) PROVE TypeOK'
  BY <1>4 DEF RetryReads, Takes, Requested
<1>5. ASSUME NEW o \in Operator, RetryWrites(o) PROVE TypeOK'
  BY <1>5 DEF RetryWrites, Takes, NewAreUntouched
<1>6. ASSUME NEW o \in Operator, NEW m \in Message, CancelReads(o, m) PROVE TypeOK'
  BY <1>6 DEF CancelReads, Takes, Requested
<1>7. ASSUME NEW o \in Operator, CancelWrites(o) PROVE TypeOK'
  BY <1>7 DEF CancelWrites, Takes
<1>8. ASSUME NEW s \in Server, SwitchServer(s) PROVE TypeOK'
  BY <1>8 DEF SwitchServer, Requested
<1>9. ASSUME NEW s \in Server, DeleteServer(s) PROVE TypeOK'
  BY <1>9 DEF DeleteServer, Requested
<1>10. CASE UNCHANGED vars BY <1>10 DEF vars
<1> QED
  BY <1>1, <1>2, <1>3, <1>4, <1>5, <1>6, <1>7, <1>8, <1>9, <1>10 DEF OtherAction, Request
-----------------------------------------------------------------------------
(* Who holds which message, and how often it was tried.                    *)

Held ==
  /\ NewAreUntouched /\ EngagedHold /\ LocksAreQueued /\ OneLock
  /\ QueuedAreFree /\ AttemptsKnown /\ AttemptsLeft /\ SoleSender /\ TriesBounded

LEMMA InitHeld == Init => Held
  BY EmailAssumption
     DEF Init, Held, NewAreUntouched, EngagedHold, LocksAreQueued, OneLock, QueuedAreFree,
         AttemptsKnown, AttemptsLeft, SoleSender, TriesBounded, Engaged, Sending

LEMMA ReapTouches ==
  ASSUME NEW w \in Worker, ReapWrite(w)
  PROVE  \A m \in Message : status'[m] = status[m] \/ (status'[m] = "failed" /\ m \in stale[w])
  BY DEF ReapWrite, Reap

LEMMA WorkerHeld ==
  ASSUME TypeOK, TypeOK', Held, NEW w \in Worker, WorkerAction(w)
  PROVE  Held'
<1> USE DEF TypeOK, Held, NewAreUntouched, EngagedHold, LocksAreQueued, OneLock, QueuedAreFree,
            AttemptsKnown, AttemptsLeft, SoleSender, TriesBounded, Engaged, Sending, row, desk, history
<1>1. CASE ReapSelect(w) BY <1>1 DEF ReapSelect, StaleEmails
<1>2. CASE ReapWrite(w)
  <2> USE <1>2 DEF ReapWrite, Reap
  <2>1. \A m \in Message : status'[m] = status[m] \/ (status'[m] = "failed" /\ m \in stale[w])
    BY <1>2, ReapTouches
  <2>2. NewAreUntouched'
    <3>1. \A m \in Message : status'[m] = "none" <=> status[m] = "none" BY <2>1
    <3>2. \A v \in Worker : stale'[v] \subseteq stale[v] OBVIOUS
    <3>3. UNCHANGED <<owed, attempt, retried, asks, about>> OBVIOUS
    <3> QED BY <3>1, <3>2, <3>3
  <2>6. AttemptsLeft' /\ TriesBounded' BY <2>1
  <2>3. \A v \in Worker : pc'[v] \in Engaged => pc'[v] = pc[v]
    OBVIOUS
  <2>4. EngagedHold' /\ LocksAreQueued' /\ OneLock' /\ SoleSender'
    BY <2>1, <2>3 DEF Locked
  <2>5. QueuedAreFree' /\ AttemptsKnown'
    BY <2>1, <2>3
  <2> QED BY <2>2, <2>4, <2>5, <2>6
<1>3. CASE ClaimSelect(w) BY <1>3 DEF ClaimSelect, Claimable, Locked
<1>4. CASE ClaimNothing(w) BY <1>4 DEF ClaimNothing
<1>5. CASE ClaimCommit(w) BY <1>5, EmailAssumption DEF ClaimCommit, EmailAssumption
<1>6. CASE Prepare(w) BY <1>6 DEF Prepare
<1>7. CASE Accept(w) BY <1>7 DEF Accept
<1>8. CASE Refuse(w) BY <1>8 DEF Refuse, Outcome, ShouldRetry
<1>9. CASE Answer(w) BY <1>9 DEF Answer
<1>10. CASE AnswerLost(w) BY <1>10 DEF AnswerLost, Outcome, ShouldRetry
<1>11. CASE Close(w)
  <2> USE <1>11 DEF Close, Done
  <2>1. /\ holds[w] \in Message
        /\ status' = [status EXCEPT ![holds[w]] = verdict[w]]
        /\ attempt' = attempt /\ verdict[w] # "none"
    BY DEF Requeue
  <2>2. \A v \in Worker : pc'[v] \in Engaged =>
          v # w /\ pc'[v] = pc[v] /\ holds'[v] = holds[v] /\ seen'[v] = seen[v]
            /\ verdict'[v] = verdict[v]
    OBVIOUS
  <2>3. NewAreUntouched' /\ EngagedHold' BY <2>1, <2>2
  <2>4. LocksAreQueued' /\ OneLock' /\ SoleSender' BY <2>1, <2>2 DEF Locked
  <2>5. QueuedAreFree' BY <2>1, <2>2
  <2>6. AttemptsKnown' BY <2>1, <2>2
  <2>7. AttemptsLeft' /\ TriesBounded' BY <2>1, <2>2
  <2> QED BY <2>3, <2>4, <2>5, <2>6, <2>7
<1>12. CASE Beat(w) BY <1>12 DEF Beat, task
<1>13. CASE Crash(w) BY <1>13 DEF Crash, Faulty
<1>14. CASE DrainFaults(w) BY <1>14 DEF DrainFaults, Faulty
<1>15. CASE PrepareFaults(w) BY <1>15 DEF PrepareFaults, Faulty
<1>16. CASE CloseFaults(w) BY <1>16 DEF CloseFaults, Done, Faulty
<1>17. CASE BeatFaults(w) BY <1>17 DEF BeatFaults, Faulty
<1>18. CASE Restart(w) BY <1>18 DEF Restart
<1> QED
  BY <1>1, <1>2, <1>3, <1>4, <1>5, <1>6, <1>7, <1>8, <1>9, <1>10, <1>11, <1>12,
     <1>13, <1>14, <1>15, <1>16, <1>17, <1>18 DEF WorkerAction, WorkerStep, Fault

LEMMA OtherHeld ==
  ASSUME TypeOK, TypeOK', Held, OtherAction
  PROVE  Held'
<1> USE DEF TypeOK, Held, NewAreUntouched, EngagedHold, LocksAreQueued, OneLock, QueuedAreFree,
            AttemptsKnown, AttemptsLeft, SoleSender, TriesBounded, Engaged, Sending, row, task, desk, history
<1>1. ASSUME NEW m \in Message, Enqueue(m) PROVE Held'
  BY <1>1, EmailAssumption DEF Enqueue
<1>2. ASSUME NEW m \in Message, ComesDue(m) PROVE Held'  BY <1>2 DEF ComesDue
<1>3. ASSUME NEW m \in Message, Lapse(m) PROVE Held'     BY <1>3 DEF Lapse
<1>4. ASSUME NEW o \in Operator, NEW m \in Message, RetryReads(o, m) PROVE Held'
  BY <1>4 DEF RetryReads, Takes, Requested, Terminal
<1>5. ASSUME NEW o \in Operator, RetryWrites(o) PROVE Held'
  BY <1>5 DEF RetryWrites, Takes, Locked
<1>6. ASSUME NEW o \in Operator, NEW m \in Message, CancelReads(o, m) PROVE Held'
  BY <1>6 DEF CancelReads, Takes, Requested
<1>7. ASSUME NEW o \in Operator, CancelWrites(o) PROVE Held'
  BY <1>7 DEF CancelWrites, Takes, Locked
<1>8. ASSUME NEW s \in Server, SwitchServer(s) PROVE Held'
  BY <1>8 DEF SwitchServer, Requested
<1>9. ASSUME NEW s \in Server, DeleteServer(s) PROVE Held'
  BY <1>9 DEF DeleteServer, Requested
<1>10. CASE UNCHANGED vars BY <1>10 DEF vars
<1> QED
  BY <1>1, <1>2, <1>3, <1>4, <1>5, <1>6, <1>7, <1>8, <1>9, <1>10 DEF OtherAction, Request
-----------------------------------------------------------------------------
(* What the recipient is owed covers what may still be sent.               *)

LEMMA Fewer ==
  ASSUME NEW S, IsFiniteSet(S), NEW T, T \subseteq S
  PROVE  Cardinality(T) \in Nat /\ Cardinality(S) \in Nat /\ Cardinality(T) <= Cardinality(S)
  BY FS_Subset, FS_CardinalityType

LEMMA OneMore ==
  ASSUME NEW S, IsFiniteSet(S), NEW x, NEW T, T \subseteq S \cup {x}
  PROVE  Cardinality(T) <= Cardinality(S) + 1
<1>1. Cardinality(S) \in Nat BY FS_CardinalityType
<1>2. /\ IsFiniteSet(S \cup {x})
      /\ Cardinality(S \cup {x}) = IF x \in S THEN Cardinality(S) ELSE Cardinality(S) + 1
  BY FS_AddElement
<1>3. Cardinality(T) \in Nat /\ Cardinality(T) <= Cardinality(S \cup {x})
  BY <1>2, Fewer
<1> QED BY <1>1, <1>2, <1>3

LEMMA OneLess ==
  ASSUME NEW S, IsFiniteSet(S), NEW x \in S, NEW T, T \subseteq S \ {x}
  PROVE  Cardinality(T) + 1 <= Cardinality(S)
<1>1. IsFiniteSet(S \ {x}) /\ Cardinality(S \ {x}) = Cardinality(S) - 1
  BY FS_RemoveElement
<1> QED BY <1>1, Fewer, FS_CardinalityType

LEMMA UnspentFinite ==
  ASSUME NEW m
  PROVE  /\ IsFiniteSet(Unspent(m)) /\ Cardinality(Unspent(m)) \in Nat
         /\ IsFiniteSet(Unspent(m)') /\ Cardinality(Unspent(m)') \in Nat
<1>1. Unspent(m) \subseteq Worker /\ Unspent(m)' \subseteq Worker BY DEF Unspent
<1> QED BY <1>1, EmailAssumption, FS_Subset, FS_CardinalityType DEF EmailAssumption

\* What a step does to one message's account: nobody new may send it, one
\* worker more, or one worker less.
Settled(m) ==
  /\ Unspent(m)' \subseteq Unspent(m)
  /\ Waiting(m)' - Waiting(m) <= owed'[m] - owed[m]
Granted(m) == \E w \in Worker :
  /\ Unspent(m)' \subseteq Unspent(m) \cup {w}
  /\ Waiting(m)' - Waiting(m) + 1 <= owed'[m] - owed[m]
Spent(m) == \E w \in Unspent(m) :
  /\ Unspent(m)' \subseteq Unspent(m) \ {w}
  /\ Waiting(m)' - Waiting(m) - 1 <= owed'[m] - owed[m]
Balances == \A m \in Message : Settled(m) \/ Granted(m) \/ Spent(m)

LEMMA BalancedIsCovered ==
  ASSUME TypeOK, TypeOK', Covered, Balances
  PROVE  Covered'
<1> SUFFICES ASSUME NEW m \in Message
             PROVE  Waiting(m)' + Cardinality(Unspent(m)') <= owed'[m]
  BY DEF Covered
<1>1. /\ owed[m] \in Int /\ owed'[m] \in Int
  BY DEF TypeOK
<1>6. Waiting(m) \in {0, 1} /\ Waiting(m)' \in {0, 1} BY DEF Waiting
<1>2. Waiting(m) + Cardinality(Unspent(m)) <= owed[m] BY DEF Covered
<1>3. CASE Settled(m)
  <2>1. Cardinality(Unspent(m)') <= Cardinality(Unspent(m))
    BY <1>3, UnspentFinite, Fewer DEF Settled
  <2> QED BY <1>1, <1>2, <1>3, <1>6, <2>1, UnspentFinite DEF Settled
<1>4. CASE Granted(m)
  <2>1. Cardinality(Unspent(m)') <= Cardinality(Unspent(m)) + 1
    BY <1>4, UnspentFinite, OneMore DEF Granted
  <2> QED BY <1>1, <1>2, <1>4, <1>6, <2>1, UnspentFinite DEF Granted
<1>5. CASE Spent(m)
  <2>1. Cardinality(Unspent(m)') + 1 <= Cardinality(Unspent(m))
    BY <1>5, UnspentFinite, OneLess DEF Spent
  <2> QED BY <1>1, <1>2, <1>5, <1>6, <2>1, UnspentFinite DEF Spent
<1> QED BY <1>3, <1>4, <1>5 DEF Balances

LEMMA InitCovered == Init => Covered
<1> SUFFICES ASSUME Init, NEW m \in Message
             PROVE  Waiting(m) + Cardinality(Unspent(m)) <= owed[m]
  BY DEF Covered
<1>1. Unspent(m) = {} BY DEF Init, Unspent
<1>2. Waiting(m) = 0 /\ owed[m] = 0 BY DEF Init, Waiting
<1> QED BY <1>1, <1>2, FS_EmptySet

\* A step that neither queues a message nor engages a worker.
LEMMA IdleBalances ==
  ASSUME TypeOK, owed' = owed,
         \A m \in Message : status'[m] = "queued" => status[m] = "queued",
         \A m \in Message : Unspent(m)' \subseteq Unspent(m)
  PROVE  Balances
  BY DEF Balances, Settled, Waiting, TypeOK

LEMMA WorkerBalances ==
  ASSUME TypeOK, TypeOK', Held, NEW w \in Worker, WorkerAction(w)
  PROVE  Balances
<1> USE DEF Sending, row, desk, history
<1>1. CASE ReapSelect(w) \/ ClaimSelect(w) \/ ClaimNothing(w) \/ Prepare(w) \/ Refuse(w)
           \/ Answer(w) \/ Beat(w) \/ Fault(w) \/ Restart(w)
  <2> USE DEF TypeOK, ReapSelect, ClaimSelect, ClaimNothing, Prepare, Refuse, Answer, Beat, task,
              Fault, Crash, DrainFaults, PrepareFaults, CloseFaults, Done, BeatFaults, Restart
  <2>1. owed' = owed /\ status' = status BY <1>1
  <2>2. \A m \in Message : Unspent(m)' \subseteq Unspent(m) BY <1>1 DEF Unspent
  <2> QED BY <2>1, <2>2, IdleBalances
<1>2. CASE ReapWrite(w)
  <2>1. owed' = owed /\ \A m \in Message : status'[m] = "queued" => status[m] = "queued"
    BY <1>2, ReapTouches DEF ReapWrite, Reap
  <2>2. \A m \in Message : Unspent(m)' \subseteq Unspent(m)
    BY <1>2 DEF ReapWrite, Reap, Unspent, TypeOK
  <2> QED BY <2>1, <2>2, IdleBalances
<1>3. CASE ClaimCommit(w)
  <2> SUFFICES ASSUME NEW m \in Message PROVE Settled(m) \/ Granted(m) BY DEF Balances
  <2>1. /\ owed'[m] = owed[m] /\ owed[m] \in Int
        /\ Unspent(m)' \subseteq Unspent(m) \cup {w}
    BY <1>3 DEF ClaimCommit, Unspent, TypeOK
  <2>2. CASE m = holds[w]
    <3>1. Waiting(m) = 1 /\ Waiting(m)' = 0
      BY <1>3, <2>2 DEF ClaimCommit, Waiting, Held, LocksAreQueued, TypeOK
    <3> QED BY <2>1, <3>1 DEF Granted
  <2>3. CASE m # holds[w]
    <3>1. Waiting(m)' = Waiting(m) /\ Waiting(m) \in {0, 1}
      BY <1>3, <2>3 DEF ClaimCommit, Waiting, TypeOK
    <3>2. Unspent(m)' \subseteq Unspent(m)
      BY <1>3, <2>3 DEF ClaimCommit, Unspent, TypeOK
    <3> QED BY <2>1, <3>1, <3>2 DEF Settled
  <2> QED BY <2>2, <2>3
<1>4. CASE Accept(w)
  <2> SUFFICES ASSUME NEW m \in Message PROVE Settled(m) \/ Spent(m) BY DEF Balances
  <2>1. Waiting(m)' = Waiting(m) /\ Waiting(m) \in {0, 1} /\ owed[m] \in Int
    BY <1>4 DEF Accept, Waiting, TypeOK
  <2>2. CASE m = holds[w]
    <3>1. w \in Unspent(m) /\ Unspent(m)' \subseteq Unspent(m) \ {w} /\ owed'[m] = owed[m] - 1
      BY <1>4, <2>2 DEF Accept, Unspent, TypeOK
    <3> QED BY <2>1, <3>1 DEF Spent
  <2>3. CASE m # holds[w]
    <3>1. Unspent(m)' \subseteq Unspent(m) /\ owed'[m] = owed[m]
      BY <1>4, <2>3 DEF Accept, Unspent, TypeOK
    <3> QED BY <2>1, <3>1 DEF Settled
  <2> QED BY <2>2, <2>3
<1>5. CASE AnswerLost(w)
  <2> SUFFICES ASSUME NEW m \in Message PROVE Settled(m) \/ Granted(m) BY DEF Balances
  <2>1. Waiting(m)' = Waiting(m) /\ Waiting(m) \in {0, 1} /\ owed[m] \in Int
    BY <1>5 DEF AnswerLost, Waiting, TypeOK
  <2>2. CASE m = holds[w]
    <3>1. Unspent(m)' \subseteq Unspent(m) \cup {w} /\ owed'[m] = owed[m] + 1
      BY <1>5, <2>2 DEF AnswerLost, Unspent, TypeOK
    <3> QED BY <2>1, <3>1 DEF Granted
  <2>3. CASE m # holds[w]
    <3>1. Unspent(m)' \subseteq Unspent(m) /\ owed'[m] = owed[m]
      BY <1>5, <2>3 DEF AnswerLost, Unspent, TypeOK
    <3> QED BY <2>1, <3>1 DEF Settled
  <2> QED BY <2>2, <2>3
<1>6. CASE Close(w)
  <2> SUFFICES ASSUME NEW m \in Message PROVE Settled(m) \/ Spent(m) BY DEF Balances
  <2>1. owed'[m] = owed[m] /\ owed[m] \in Int
    BY <1>6 DEF Close, TypeOK
  <2>2. Unspent(m)' \subseteq Unspent(m) \ {w}
    BY <1>6 DEF Close, Done, Unspent, TypeOK
  <2>3. CASE m = holds[w] /\ verdict[w] = "queued"
    <3>1. w \in Unspent(m) BY <1>6, <2>3 DEF Close, Unspent
    <3>2. Waiting(m) \in {0, 1} /\ Waiting(m)' \in {0, 1} BY DEF Waiting
    <3> QED BY <2>1, <2>2, <3>1, <3>2 DEF Spent
  <2>4. CASE m # holds[w] \/ verdict[w] # "queued"
    <3>1. Waiting(m) \in {0, 1} /\ Waiting(m)' \in {0, 1} BY DEF Waiting
    <3>2. Waiting(m)' <= Waiting(m)
      BY <1>6, <2>4 DEF Close, Waiting, TypeOK
    <3> QED BY <2>1, <2>2, <3>1, <3>2 DEF Settled
  <2> QED BY <2>3, <2>4
<1> QED BY <1>1, <1>2, <1>3, <1>4, <1>5, <1>6 DEF WorkerAction, WorkerStep

LEMMA OtherBalances ==
  ASSUME TypeOK, TypeOK', Held, OtherAction
  PROVE  Balances
<1> USE DEF row, task, desk, history
<1>1. ASSUME NEW m \in Message, Enqueue(m) PROVE Balances
  <2> SUFFICES ASSUME NEW n \in Message PROVE Settled(n) BY DEF Balances
  <2>1. Unspent(n)' \subseteq Unspent(n) BY <1>1 DEF Enqueue, Unspent
  <2>2. Waiting(n) \in {0, 1} /\ Waiting(n)' \in {0, 1} BY DEF Waiting
  <2>3. CASE n = m
    <3>1. owed[n] = 0 /\ owed'[n] = 1
      BY <1>1, <2>3 DEF Enqueue, Held, NewAreUntouched, TypeOK
    <3>2. Waiting(n) = 0 BY <1>1, <2>3 DEF Enqueue, Waiting
    <3> QED BY <2>1, <2>2, <3>1, <3>2 DEF Settled
  <2>4. CASE n # m
    <3>1. owed'[n] = owed[n] /\ owed[n] \in Int BY <1>1, <2>4 DEF Enqueue, TypeOK
    <3>2. Waiting(n)' = Waiting(n) BY <1>1, <2>4 DEF Enqueue, Waiting, TypeOK
    <3> QED BY <2>1, <2>2, <3>1, <3>2 DEF Settled
  <2> QED BY <2>3, <2>4
<1>2. ASSUME NEW o \in Operator, RetryWrites(o) PROVE Balances
  <2> DEFINE m == about[o]
  <2> SUFFICES ASSUME NEW n \in Message PROVE Settled(n) BY DEF Balances
  <2>1. Unspent(n)' \subseteq Unspent(n) BY <1>2 DEF RetryWrites, Unspent
  <2>2. Waiting(n) \in {0, 1} /\ Waiting(n)' \in {0, 1} BY DEF Waiting
  <2>3. CASE n = m
    <3>1. owed[n] \in Int BY DEF TypeOK
    <3>2. owed'[n] = owed[n] + 1 BY <1>2, <2>3 DEF RetryWrites, TypeOK
    <3> QED BY <2>1, <2>2, <3>1, <3>2 DEF Settled
  <2>4. CASE n # m
    <3>1. owed'[n] = owed[n] /\ owed[n] \in Int BY <1>2, <2>4 DEF RetryWrites, TypeOK
    <3>2. Waiting(n)' = Waiting(n) BY <1>2, <2>4 DEF RetryWrites, Waiting, TypeOK
    <3> QED BY <2>1, <2>2, <3>1, <3>2 DEF Settled
  <2> QED BY <2>3, <2>4
<1>3. ASSUME \/ \E m \in Message : ComesDue(m) \/ Lapse(m)
             \/ \E o \in Operator : \/ \E m \in Message : RetryReads(o, m) \/ CancelReads(o, m)
                                    \/ CancelWrites(o)
             \/ \E s \in Server : SwitchServer(s) \/ DeleteServer(s)
             \/ UNCHANGED vars
      PROVE  Balances
  <2> USE <1>3 DEF ComesDue, Lapse, RetryReads, CancelReads, CancelWrites, SwitchServer,
                   DeleteServer, vars
  <2>1. owed' = owed OBVIOUS
  <2>2. \A n \in Message : status'[n] = "queued" => status[n] = "queued"
    <3>1. status' = status \/ \E n \in Message \cup {NoMessage} :
                                status' = [status EXCEPT ![n] = "cancelled"]
      BY DEF TypeOK
    <3> QED BY <3>1 DEF TypeOK
  <2>3. \A n \in Message : Unspent(n)' \subseteq Unspent(n) BY DEF Unspent
  <2> QED BY <2>1, <2>2, <2>3, IdleBalances
<1> QED BY <1>1, <1>2, <1>3 DEF OtherAction, Request

-----------------------------------------------------------------------------

IInv == TypeOK /\ Accounted /\ SoleSender /\ TriesBounded

LEMMA NextIInv == IInv /\ [Next]_vars => IInv'
<1> SUFFICES ASSUME IInv, [Next]_vars PROVE IInv' OBVIOUS
<1>1. TypeOK /\ Held /\ Covered BY DEF IInv, Accounted, Held
<1>2. TypeOK' BY <1>1, StepKinds, WorkerType, OtherType DEF Held
<1>3. Held' BY <1>1, <1>2, StepKinds, WorkerHeld, OtherHeld
<1>4. Balances BY <1>1, <1>2, StepKinds, WorkerBalances, OtherBalances
<1>5. Covered' BY <1>1, <1>2, <1>4, BalancedIsCovered
<1> QED BY <1>2, <1>3, <1>5 DEF IInv, Accounted, Held

LEMMA AlwaysIInv == Spec => []IInv
<1>1. Init => IInv
  BY InitType, InitHeld, InitCovered DEF IInv, Accounted, Held
<1> QED BY <1>1, NextIInv, PTL DEF Spec

\* Every variable keeps its type.
THEOREM TypeCorrect == Spec => []TypeOK
<1>1. IInv => TypeOK BY DEF IInv
<1> QED BY <1>1, AlwaysIInv, PTL

\* The books balance in every reachable state.
THEOREM BooksBalance == Spec => []Accounted
<1>1. IInv => Accounted BY DEF IInv
<1> QED BY <1>1, AlwaysIInv, PTL

\* No copy is sent that nobody asked for, however many workers crash, stall or
\* come back late.
THEOREM OneCopyPerAsking == Spec => []NoUnaskedCopy
<1>1. IInv => NoUnaskedCopy
  <2> SUFFICES ASSUME IInv, NEW m \in Message PROVE owed[m] >= 0 BY DEF NoUnaskedCopy
  <2>1. Waiting(m) + Cardinality(Unspent(m)) <= owed[m] BY DEF IInv, Accounted, Covered
  <2>2. Waiting(m) \in {0, 1} BY DEF Waiting
  <2>3. owed[m] \in Int BY DEF IInv, TypeOK
  <2> QED BY <2>1, <2>2, <2>3, UnspentFinite
<1> QED BY <1>1, AlwaysIInv, PTL

\* Two workers are on one message only after Retry.
THEOREM AloneUntilRetry == Spec => []SoleSender
<1>1. IInv => SoleSender BY DEF IInv
<1> QED BY <1>1, AlwaysIInv, PTL

\* Without Retry max_attempts bounds the tries of a message.
THEOREM TriesStayBounded == Spec => []TriesBounded
<1>1. IInv => TriesBounded BY DEF IInv
<1> QED BY <1>1, AlwaysIInv, PTL

-----------------------------------------------------------------------------
(* The queue implements the mailbox.                                       *)

\* The mailbox's log and hand, read off the queue.
Log  == [m \in Message |-> LogOf(status[m])]
Hand == {p \in Worker \X Message : InHand(p[1], p[2])}

\* A step of one worker moves no other's copies, so its own say what changes.
OthersStay(w) ==
  \A v \in Worker \ {w} : pc'[v] = pc[v] /\ holds'[v] = holds[v] /\ verdict'[v] = verdict[v]

LEMMA HandStays ==
  ASSUME NEW w \in Worker, OthersStay(w),
         \A m \in Message : InHand(w, m)' <=> InHand(w, m)
  PROVE  Hand' = Hand
<1>1. \A v \in Worker, m \in Message : InHand(v, m)' <=> InHand(v, m)
  BY DEF OthersStay, InHand
<1> QED BY <1>1 DEF Hand

LEMMA HandLoses ==
  ASSUME NEW w \in Worker, OthersStay(w), NEW m \in Message, InHand(w, m),
         \A n \in Message : ~ InHand(w, n)'
  PROVE  << w, m >> \in Hand /\ Hand' = Hand \ {<< w, m >>}
<1>1. \A v \in Worker, n \in Message : v # w => (InHand(v, n)' <=> InHand(v, n))
  BY DEF OthersStay, InHand
<1>2. \A n \in Message : InHand(w, n) => n = m BY DEF InHand
<1>3. \A v \in Worker, n \in Message :
        << v, n >> \in Hand' <=> << v, n >> \in Hand \ {<< w, m >>}
  BY <1>1, <1>2 DEF Hand
<1>4. Hand \subseteq Worker \X Message /\ Hand' \subseteq Worker \X Message BY DEF Hand
<1>5. << w, m >> \in Hand BY DEF Hand
<1> QED BY <1>3, <1>4, <1>5

LEMMA HandGains ==
  ASSUME NEW w \in Worker, OthersStay(w), NEW m \in Message, InHand(w, m)',
         \A n \in Message : ~ InHand(w, n)
  PROVE  << w, m >> \notin Hand /\ Hand' = Hand \cup {<< w, m >>}
<1>1. \A v \in Worker, n \in Message : v # w => (InHand(v, n)' <=> InHand(v, n))
  BY DEF OthersStay, InHand
<1>2. \A n \in Message : InHand(w, n)' => n = m BY DEF InHand
<1>3. \A v \in Worker, n \in Message :
        << v, n >> \in Hand' <=> << v, n >> \in Hand \cup {<< w, m >>}
  BY <1>1, <1>2 DEF Hand
<1>4. /\ Hand \subseteq Worker \X Message /\ Hand' \subseteq Worker \X Message
      /\ << w, m >> \in Worker \X Message
  BY DEF Hand
<1>5. << w, m >> \notin Hand BY DEF Hand
<1> QED BY <1>3, <1>4, <1>5

\* A message that may still be sent, or put back, is owed.
LEMMA UnspentIsOwed ==
  ASSUME TypeOK, Covered, NEW m \in Message, NEW w \in Unspent(m) PROVE owed[m] > 0
<1>1. Waiting(m) \in {0, 1} /\ owed[m] \in Int BY DEF Waiting, TypeOK
<1>2. Waiting(m) + Cardinality(Unspent(m)) <= owed[m] BY DEF Covered
<1>3. Cardinality({}) + 1 <= Cardinality(Unspent(m)) BY UnspentFinite, OneLess
<1>4. Cardinality({}) = 0 BY FS_EmptySet
<1> QED BY <1>1, <1>2, <1>3, <1>4, UnspentFinite

MailStep ==
  \/ \E m \in Message : Mail!Ask(m) \/ Mail!AskAgain(m) \/ Mail!Resume(m)
  \/ \E w \in Worker, m \in Message :
       Mail!Deliver(w, m) \/ Mail!Record(w, m) \/ Mail!Doubt(w, m) \/ Mail!Forget(w, m)
  \/ \E dropped \in SUBSET Message, why \in {"failed", "cancelled"} : Mail!GiveUp(dropped, why)
  \/ UNCHANGED << Log, owed, Hand >>

LEMMA MailStepIs == MailStep <=> Mail!Next \/ UNCHANGED Mail!mailvars
  BY DEF MailStep, Mail!Next, Mail!mailvars, Log, Hand

LEMMA MailBegins == Init => Mail!Init
<1> SUFFICES ASSUME Init PROVE Mail!Init OBVIOUS
<1>1. \A w \in Worker, m \in Message : ~ InHand(w, m) BY DEF Init, InHand
<1>2. Hand = {} BY <1>1 DEF Hand
<1>3. Log = [m \in Message |-> "none"] BY DEF Init, Log, LogOf
<1> QED BY <1>2, <1>3 DEF Init, Mail!Init, Log, Hand

\* A worker that leaves its place with a copy in hand forgets it.
LEMMA LeavingForgets ==
  ASSUME TypeOK, EngagedHold, NEW w \in Worker, OthersStay(w), owed' = owed, status' = status,
         \A m \in Message : ~ InHand(w, m)'
  PROVE  MailStep
<1>1. Log' = Log BY DEF Log
<1>2. CASE \E m \in Message : InHand(w, m)
  <2>1. PICK m \in Message : InHand(w, m) BY <1>2
  <2>2. << w, m >> \in Hand /\ Hand' = Hand \ {<< w, m >>} BY <2>1, HandLoses
  <2>3. Mail!Forget(w, m) BY <1>1, <2>2 DEF Mail!Forget, Log, Hand
  <2> QED BY <2>3 DEF MailStep
<1>3. CASE \A m \in Message : ~ InHand(w, m)
  <2>1. Hand' = Hand BY <1>3, HandStays
  <2> QED BY <1>1, <2>1 DEF MailStep
<1> QED BY <1>2, <1>3

LEMMA WorkerMails ==
  ASSUME IInv, NEW w \in Worker, WorkerAction(w) PROVE MailStep
<1> USE DEF row, desk, history
<1>0. TypeOK /\ Covered /\ EngagedHold /\ NewAreUntouched /\ LocksAreQueued
  BY DEF IInv, Accounted
<1>1. CASE ReapSelect(w) \/ ClaimSelect(w) \/ ClaimNothing(w) \/ Prepare(w) \/ Refuse(w)
           \/ Restart(w) \/ DrainFaults(w) \/ PrepareFaults(w) \/ Crash(w)
  <2>1. OthersStay(w) /\ owed' = owed /\ status' = status
    BY <1>0, <1>1
    DEF ReapSelect, ClaimSelect, ClaimNothing, Prepare, Refuse, Restart, DrainFaults,
        PrepareFaults, Crash, OthersStay, TypeOK
  <2>2. \A m \in Message : ~ InHand(w, m)'
    BY <1>0, <1>1
    DEF ReapSelect, ClaimSelect, ClaimNothing, Prepare, Refuse, Restart, DrainFaults,
        PrepareFaults, Crash, InHand, TypeOK, Outcome
  <2> QED BY <1>0, <2>1, <2>2, LeavingForgets
<1>2. CASE Beat(w) \/ BeatFaults(w) \/ Answer(w)
  <2>1. OthersStay(w) /\ owed' = owed /\ status' = status
    BY <1>0, <1>2 DEF Beat, BeatFaults, Answer, OthersStay, TypeOK, task
  <2>2. \A m \in Message : InHand(w, m)' <=> InHand(w, m)
    BY <1>0, <1>2 DEF Beat, BeatFaults, Answer, InHand, TypeOK, task
  <2>3. Hand' = Hand /\ Log' = Log BY <2>1, <2>2, HandStays DEF Log
  <2> QED BY <2>1, <2>3 DEF MailStep
<1>3. CASE ReapWrite(w)
  <2> USE <1>3 DEF ReapWrite, Reap
  <2>1. stale[w] \in SUBSET Message /\ \A m \in stale[w] : status[m] # "none"
    BY <1>0 DEF TypeOK, NewAreUntouched
  <2>2. OthersStay(w) /\ owed' = owed BY <1>0 DEF OthersStay, TypeOK
  <2>3. \A m \in Message : InHand(w, m)' <=> InHand(w, m) BY <1>0 DEF InHand, TypeOK
  <2>4. Hand' = Hand BY <2>2, <2>3, HandStays
  <2>5. Log' = [m \in Message |-> IF m \in stale[w] THEN "failed" ELSE Log[m]]
    BY DEF Log, LogOf
  <2>6. Mail!GiveUp(stale[w], "failed")
    BY <2>1, <2>2, <2>4, <2>5 DEF Mail!GiveUp, Log, Hand, LogOf
  <2> QED BY <2>1, <2>6 DEF MailStep
<1>4. CASE ClaimCommit(w)
  <2> USE <1>4 DEF ClaimCommit
  <2>1. OthersStay(w) /\ owed' = owed BY <1>0 DEF OthersStay, TypeOK
  <2>2. \A m \in Message : InHand(w, m)' <=> InHand(w, m) BY <1>0 DEF InHand, TypeOK
  <2>3. Log' = Log BY <1>0 DEF Log, LogOf, LocksAreQueued, TypeOK
  <2>4. Hand' = Hand BY <2>1, <2>2, HandStays
  <2> QED BY <2>1, <2>3, <2>4 DEF MailStep
<1>5. CASE Accept(w)
  <2> USE <1>5 DEF Accept
  <2> DEFINE m == holds[w]
  <2>1. m \in Message BY <1>0 DEF EngagedHold, Engaged, Sending
  <2>2. owed[m] > 0 BY <1>0, <2>1, UnspentIsOwed DEF Unspent
  <2>3. OthersStay(w) /\ Log' = Log BY <1>0 DEF OthersStay, TypeOK, Log
  <2>4. InHand(w, m)' /\ \A n \in Message : ~ InHand(w, n) BY <1>0 DEF InHand, TypeOK
  <2>5. << w, m >> \notin Hand /\ Hand' = Hand \cup {<< w, m >>}
    BY <2>1, <2>3, <2>4, HandGains
  <2>6. Mail!Deliver(w, m) BY <2>2, <2>3, <2>5 DEF Mail!Deliver, Log, Hand
  <2> QED BY <2>1, <2>6 DEF MailStep
<1>6. CASE AnswerLost(w)
  <2> USE <1>6 DEF AnswerLost
  <2> DEFINE m == holds[w]
  <2>1. m \in Message BY <1>0 DEF EngagedHold, Engaged, Sending
  <2>2. OthersStay(w) /\ Log' = Log BY <1>0 DEF OthersStay, TypeOK, Log
  <2>3. InHand(w, m) /\ \A n \in Message : ~ InHand(w, n)'
    BY <1>0 DEF InHand, TypeOK, Outcome
  <2>4. << w, m >> \in Hand /\ Hand' = Hand \ {<< w, m >>} BY <2>1, <2>2, <2>3, HandLoses
  <2>5. Mail!Doubt(w, m) BY <2>2, <2>4 DEF Mail!Doubt, Log, Hand
  <2> QED BY <2>1, <2>5 DEF MailStep
<1>7. CASE Close(w)
  <2> USE <1>7 DEF Close, Done
  <2> DEFINE m == holds[w]
  <2>1. m \in Message /\ status[m] # "none" /\ verdict[w] \in {"sent", "failed", "queued"}
    BY <1>0 DEF EngagedHold, Engaged, Sending, TypeOK
  <2>2. OthersStay(w) /\ owed' = owed /\ \A n \in Message : ~ InHand(w, n)'
    BY <1>0 DEF OthersStay, TypeOK, InHand
  <2>3. Log' = [Log EXCEPT ![m] = LogOf(verdict[w])] BY <1>0, <2>1 DEF Log, TypeOK
  <2>4. CASE verdict[w] = "sent"
    <3>1. InHand(w, m) BY <2>4 DEF InHand
    <3>2. << w, m >> \in Hand /\ Hand' = Hand \ {<< w, m >>} BY <2>1, <2>2, <3>1, HandLoses
    <3>3. Log' = [Log EXCEPT ![m] = "sent"] BY <2>3, <2>4 DEF LogOf
    <3>4. Mail!Record(w, m) BY <2>2, <3>2, <3>3 DEF Mail!Record, Log, Hand
    <3> QED BY <2>1, <3>4 DEF MailStep
  <2>5. ASSUME verdict[w] # "sent" PROVE Hand' = Hand
    <3>1. \A n \in Message : ~ InHand(w, n) BY <2>5 DEF InHand
    <3> QED BY <2>2, <3>1, HandStays
  <2>6. CASE verdict[w] = "queued"
    <3>1. owed[m] > 0 BY <1>0, <2>1, <2>6, UnspentIsOwed DEF Unspent
    <3>2. Log[m] # "none" BY <2>1 DEF Log, LogOf
    <3>3. Log' = [Log EXCEPT ![m] = "open"] BY <2>3, <2>6 DEF LogOf
    <3>4. Mail!Resume(m) BY <2>2, <2>5, <2>6, <3>1, <3>2, <3>3 DEF Mail!Resume, Log, Hand
    <3> QED BY <2>1, <3>4 DEF MailStep
  <2>7. CASE verdict[w] = "failed"
    <3>1. \A n \in {m} : Log[n] # "none" BY <2>1 DEF Log, LogOf
    <3>2. Log' = [n \in Message |-> IF n \in {m} THEN "failed" ELSE Log[n]]
      BY <2>1, <2>3, <2>7 DEF Log, LogOf
    <3>3. Mail!GiveUp({m}, "failed")
      BY <2>2, <2>5, <2>7, <3>1, <3>2 DEF Mail!GiveUp, Log, Hand
    <3>4. {m} \in SUBSET Message BY <2>1
    <3> QED BY <3>3, <3>4 DEF MailStep
  <2> QED BY <2>1, <2>4, <2>6, <2>7
<1>8. CASE CloseFaults(w)
  <2>1. OthersStay(w) /\ owed' = owed /\ status' = status
    BY <1>0, <1>8 DEF CloseFaults, Done, OthersStay, TypeOK
  <2>2. \A m \in Message : ~ InHand(w, m)'
    BY <1>0, <1>8 DEF CloseFaults, Done, InHand, TypeOK
  <2> QED BY <1>0, <2>1, <2>2, LeavingForgets
<1> QED
  BY <1>1, <1>2, <1>3, <1>4, <1>5, <1>6, <1>7, <1>8 DEF WorkerAction, WorkerStep, Fault

LEMMA OtherMails ==
  ASSUME IInv, OtherAction PROVE MailStep
<1> USE DEF row, task, desk, history
<1>0. TypeOK /\ NewAreUntouched BY DEF IInv, Accounted
<1>1. Hand' = Hand
  <2>1. UNCHANGED << pc, holds, verdict >>
    BY DEF OtherAction, Request, Enqueue, ComesDue, Lapse, RetryReads, RetryWrites, CancelReads,
           CancelWrites, SwitchServer, DeleteServer, vars
  <2> QED BY <2>1 DEF Hand, InHand
<1>2. ASSUME NEW m \in Message, Enqueue(m) PROVE MailStep
  <2> USE <1>2 DEF Enqueue
  <2>1. Log[m] = "none" BY DEF Log, LogOf
  <2>2. Log' = [Log EXCEPT ![m] = "open"] BY <1>0 DEF Log, LogOf, TypeOK
  <2>3. Mail!Ask(m) BY <1>1, <2>1, <2>2 DEF Mail!Ask, Log, Hand
  <2> QED BY <2>3 DEF MailStep
<1>3. ASSUME NEW o \in Operator, RetryWrites(o) PROVE MailStep
  <2> USE <1>3 DEF RetryWrites
  <2> DEFINE m == about[o]
  <2>1. m \in Message /\ status[m] # "none" BY <1>0 DEF NewAreUntouched
  <2>2. Log[m] # "none" BY <2>1 DEF Log, LogOf
  <2>3. Log' = [Log EXCEPT ![m] = "open"] BY <1>0, <2>1 DEF Log, LogOf, TypeOK
  <2>4. Mail!AskAgain(m) BY <1>1, <2>1, <2>2, <2>3 DEF Mail!AskAgain, Log, Hand
  <2> QED BY <2>1, <2>4 DEF MailStep
<1>4. ASSUME NEW o \in Operator, CancelWrites(o) PROVE MailStep
  <2> USE <1>4 DEF CancelWrites
  <2> DEFINE m == about[o]
  <2>1. m \in Message /\ status[m] # "none" BY <1>0 DEF NewAreUntouched
  <2>2. \A n \in {m} : Log[n] # "none" BY <2>1 DEF Log, LogOf
  <2>3. Log' = [n \in Message |-> IF n \in {m} THEN "cancelled" ELSE Log[n]]
    BY <1>0, <2>1 DEF Log, LogOf, TypeOK
  <2>4. Mail!GiveUp({m}, "cancelled") BY <1>1, <2>2, <2>3 DEF Mail!GiveUp, Log, Hand
  <2>5. {m} \in SUBSET Message BY <2>1
  <2> QED BY <2>4, <2>5 DEF MailStep
<1>5. CASE owed' = owed /\ status' = status
  BY <1>1, <1>5 DEF MailStep, Log
<1> QED
  BY <1>2, <1>3, <1>4, <1>5
  DEF OtherAction, Request, ComesDue, Lapse, RetryReads, CancelReads, SwitchServer,
      DeleteServer, vars

\* The workers, the reaper and the buttons implement the mailbox: a copy goes out
\* only against one that is owed, "sent" is written only of an accepted copy, and
\* a message comes back only for an asking or a copy still owed.
THEOREM ImplementsMailbox == Spec => KeepsTheMailbox
<1>1. IInv /\ [Next]_vars => Mail!Next \/ UNCHANGED Mail!mailvars
  BY StepKinds, WorkerMails, OtherMails, MailStepIs
<1>2. IInv /\ [Next]_vars => [Mail!Next]_(Mail!mailvars) BY <1>1
<1> QED BY <1>2, MailBegins, AlwaysIInv, PTL DEF Spec, KeepsTheMailbox, Mail!Spec
-----------------------------------------------------------------------------
(* What makes the log say "cancelled" of a message that went out.          *)

\* A Cancel commits over a row that is no longer queued: cancel_message read its
\* status without a lock, and something was committed in between.
CancelsLate == \E o \in Operator : CancelWrites(o) /\ status[about[o]] # "queued"

\* Until Retry, a message on the queue or cancelled is owed its one copy, and so is
\* one whose worker has not handed it over or puts it back; no cancelled message is
\* in a worker's hands.
Unsent ==
  \A m \in Message \ retried :
    /\ status[m] \in {"queued", "cancelled"} => owed[m] = 1
    /\ \A w \in Worker : pc[w] \in Sending /\ holds[w] = m =>
         /\ status[m] # "cancelled"
         /\ pc[w] = "taken" => owed[m] = 0
         /\ pc[w] \in {"read", "send"} \/ (pc[w] = "close" /\ verdict[w] = "queued")
              => owed[m] = 1

LEMMA WorkerUnsent ==
  ASSUME IInv, Unsent, NEW w \in Worker, WorkerAction(w)
  PROVE  Unsent'
<1> USE DEF IInv, TypeOK, Accounted, EngagedHold, LocksAreQueued, QueuedAreFree, SoleSender,
            Unsent, Engaged, Sending, row, desk, history
<1>1. CASE ReapSelect(w) BY <1>1 DEF ReapSelect
<1>2. CASE ReapWrite(w)
  <2> USE <1>2 DEF ReapWrite, Reap
  <2>1. \A m \in Message : status'[m] = status[m] \/ status'[m] = "failed" BY ReapTouches
  <2>2. \A v \in Worker : pc'[v] \in Sending => pc'[v] = pc[v] OBVIOUS
  <2>3. UNCHANGED <<holds, verdict, owed, retried>> OBVIOUS
  <2> QED BY <2>1, <2>2, <2>3
<1>3. CASE ClaimSelect(w) BY <1>3 DEF ClaimSelect, Claimable
<1>4. CASE ClaimNothing(w) BY <1>4 DEF ClaimNothing
<1>5. CASE ClaimCommit(w) BY <1>5 DEF ClaimCommit
<1>6. CASE Prepare(w) BY <1>6 DEF Prepare
<1>7. CASE Accept(w) BY <1>7 DEF Accept
<1>8. CASE Refuse(w) BY <1>8 DEF Refuse
<1>9. CASE Answer(w) BY <1>9 DEF Answer
<1>10. CASE AnswerLost(w) BY <1>10 DEF AnswerLost
<1>11. CASE Close(w) BY <1>11 DEF Close, Done
<1>12. CASE Beat(w) BY <1>12 DEF Beat, task
<1>13. CASE Crash(w) BY <1>13 DEF Crash
<1>14. CASE DrainFaults(w) BY <1>14 DEF DrainFaults
<1>15. CASE PrepareFaults(w) BY <1>15 DEF PrepareFaults
<1>16. CASE CloseFaults(w) BY <1>16 DEF CloseFaults, Done
<1>17. CASE BeatFaults(w) BY <1>17 DEF BeatFaults
<1>18. CASE Restart(w) BY <1>18 DEF Restart
<1> QED
  BY <1>1, <1>2, <1>3, <1>4, <1>5, <1>6, <1>7, <1>8, <1>9, <1>10, <1>11, <1>12,
     <1>13, <1>14, <1>15, <1>16, <1>17, <1>18 DEF WorkerAction, WorkerStep, Fault

LEMMA OtherUnsent ==
  ASSUME IInv, Unsent, OtherAction, ~ CancelsLate
  PROVE  Unsent'
<1> USE DEF IInv, TypeOK, Accounted, NewAreUntouched, EngagedHold, QueuedAreFree, Unsent,
            Engaged, Sending, row, task, desk, history
<1>1. ASSUME NEW m \in Message, Enqueue(m) PROVE Unsent'   BY <1>1 DEF Enqueue
<1>2. ASSUME NEW m \in Message, ComesDue(m) \/ Lapse(m) PROVE Unsent'
  BY <1>2 DEF ComesDue, Lapse
<1>3. ASSUME NEW o \in Operator, NEW m \in Message, RetryReads(o, m) \/ CancelReads(o, m)
      PROVE  Unsent'
  BY <1>3 DEF RetryReads, CancelReads
<1>4. ASSUME NEW o \in Operator, RetryWrites(o) PROVE Unsent'  BY <1>4 DEF RetryWrites
<1>5. ASSUME NEW o \in Operator, CancelWrites(o) PROVE Unsent'
  <2>1. /\ about[o] \in Message /\ status[about[o]] = "queued"
        /\ status' = [status EXCEPT ![about[o]] = "cancelled"]
    BY <1>5 DEF CancelWrites, CancelsLate
  <2>2. UNCHANGED <<pc, holds, verdict, owed, retried>> BY <1>5 DEF CancelWrites
  <2>3. about[o] \notin retried =>
          /\ owed[about[o]] = 1
          /\ \A w \in Worker : pc[w] \in Sending => holds[w] # about[o]
    BY <2>1
  <2> QED BY <2>1, <2>2, <2>3
<1>6. ASSUME NEW s \in Server, SwitchServer(s) \/ DeleteServer(s) PROVE Unsent'
  BY <1>6 DEF SwitchServer, DeleteServer
<1>7. CASE UNCHANGED vars BY <1>7 DEF vars
<1> QED BY <1>1, <1>2, <1>3, <1>4, <1>5, <1>6, <1>7 DEF OtherAction, Request

\* "Cancelled before it was sent" is true of every message nobody retried unless a
\* Cancel committed over a row that was no longer queued: the missing lock of
\* cancel_message is the only way a cancelled message goes out.
THEOREM CancelTrueUnlessLate == Spec /\ [][~CancelsLate]_vars => []CancelIsTrue
<1>1. Init => Unsent BY DEF Init, Unsent, Sending
<1>2. IInv /\ Unsent /\ [Next]_vars /\ [~CancelsLate]_vars => Unsent'
  <2> SUFFICES ASSUME IInv, Unsent, [Next]_vars, [~CancelsLate]_vars PROVE Unsent' OBVIOUS
  <2>1. CASE UNCHANGED vars BY <2>1 DEF Unsent, vars
  <2>2. ASSUME NEW w \in Worker, WorkerAction(w) PROVE Unsent' BY <2>2, WorkerUnsent
  <2>3. CASE OtherAction /\ ~CancelsLate BY <2>3, OtherUnsent
  <2> QED BY <2>1, <2>2, <2>3, StepKinds
<1>3. TypeOK /\ Unsent => CancelIsTrue BY DEF TypeOK, Unsent, CancelIsTrue
<1> QED BY <1>1, <1>2, <1>3, AlwaysIInv, TypeCorrect, PTL DEF Spec
=============================================================================
