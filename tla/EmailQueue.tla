----------------------------- MODULE EmailQueue -----------------------------
(***************************************************************************)
(* The email send queue: the table email_messages, the asyncio workers of  *)
(* every process that drain it, the stale reaper each worker runs before   *)
(* it claims, the SMTP conversation, and the Retry and Cancel buttons of   *)
(* the delivery log.  Unlike the run queue it sends a failed message       *)
(* again, so what counts is how many copies reach the recipient.  One      *)
(* action is the code between two awaits something else can come between.  *)
(* The ORDER BY of the claim is left open, and the attempt log, which only *)
(* its page reads, is left out.                                            *)
(***************************************************************************)
EXTENDS Integers, FiniteSets

CONSTANTS
  Message,     \* rows of email_messages
  NoMessage,
  Server,      \* rows of email_smtp_configs
  NoServer,    \* smtp_config_id IS NULL
  Worker,      \* worker tasks, of one process or of several
  Operator,    \* requests to the delivery log that may overlap
  MaxAttempts, \* max_attempts
  MaxRequests, \* bound: Retry, Cancel and changes to a server
  MaxFaults    \* bound: crashes and calls that raise

ASSUME EmailAssumption ==
  /\ NoMessage \notin Message
  /\ NoServer \notin Server
  /\ IsFiniteSet(Worker)
  /\ MaxAttempts \in Nat \ {0}
  /\ {MaxRequests, MaxFaults} \subseteq Nat

VARIABLES
  \* email_messages
  status, attempt,
  due,         \* next_attempt_at <= now()
  server,      \* smtp_config_id
  heartbeat,   \* heartbeat_at: NULL, recent, or older than STALE_AFTER_SECONDS
  \* email_smtp_configs
  config,
  \* one worker task
  pc,          \* where it is
  holds,       \* the message it is on
  seen,        \* the attempt number it read
  verdict,     \* what it is about to write
  beating,     \* its _beat task is running
  stale,       \* the rows its reaper has selected
  \* one request to the delivery log
  asks,        \* what it is about to write
  about,       \* to which message
  named,       \* the columns besides status that its UPDATE names
  \* history and bounds
  owed,        \* copies somebody asked for, less those the relay has accepted
  retried,     \* messages Retry has put back on the queue
  used         \* how much of each bound is spent

row     == <<status, attempt, due, server, heartbeat>>
task    == <<pc, holds, seen, verdict, beating, stale>>
desk    == <<asks, about, named>>
history == <<owed, retried>>
vars    == <<status, attempt, due, server, heartbeat, config, pc, holds, seen,
             verdict, beating, stale, asks, about, named, owed, retried, used>>

Terminal == {"sent", "failed", "cancelled"}
Status   == {"none", "queued", "sending"} \cup Terminal
Sending  == {"read", "send", "taken", "close"}
Stage    == Sending \cup {"idle", "reap", "claim", "locked", "down"}

TypeOK ==
  /\ status \in [Message -> Status]
  /\ attempt \in [Message -> Nat]
  /\ due \in [Message -> BOOLEAN]
  /\ server \in [Message -> Server \cup {NoServer}]
  /\ heartbeat \in [Message -> {"none", "fresh", "old"}]
  /\ config \in [Server -> {"on", "off", "gone"}]
  /\ pc \in [Worker -> Stage]
  /\ holds \in [Worker -> Message \cup {NoMessage}]
  /\ seen \in [Worker -> Nat]
  /\ verdict \in [Worker -> {"none", "sent", "failed", "queued"}]
  /\ beating \in [Worker -> BOOLEAN]
  /\ stale \in [Worker -> SUBSET Message]
  /\ asks \in [Operator -> {"none", "retry", "cancel"}]
  /\ about \in [Operator -> Message \cup {NoMessage}]
  /\ named \in [Operator -> SUBSET {"attempt", "heartbeat_at"}]
  /\ owed \in [Message -> Int]
  /\ retried \in SUBSET Message
  /\ used \in [{"requests", "faults"} -> Nat]

Init ==
  /\ status = [m \in Message |-> "none"]
  /\ attempt = [m \in Message |-> 0]
  /\ due = [m \in Message |-> FALSE]
  /\ server = [m \in Message |-> NoServer]
  /\ heartbeat = [m \in Message |-> "none"]
  /\ config = [s \in Server |-> "on"]
  /\ pc = [w \in Worker |-> "idle"]
  /\ holds = [w \in Worker |-> NoMessage]
  /\ seen = [w \in Worker |-> 0]
  /\ verdict = [w \in Worker |-> "none"]
  /\ beating = [w \in Worker |-> FALSE]
  /\ stale = [w \in Worker |-> {}]
  /\ asks = [o \in Operator |-> "none"]
  /\ about = [o \in Operator |-> NoMessage]
  /\ named = [o \in Operator |-> {}]
  /\ owed = [m \in Message |-> 0]
  /\ retried = {}
  /\ used = [b \in {"requests", "faults"} |-> 0]

Requested ==
  /\ used["requests"] < MaxRequests
  /\ used' = [used EXCEPT !["requests"] = @ + 1]

Faulty ==
  /\ used["faults"] < MaxFaults
  /\ used' = [used EXCEPT !["faults"] = @ + 1]

-----------------------------------------------------------------------------
(* Reading and writing the table.                                          *)

\* FOR UPDATE: a claim has selected this row and not yet committed; every
\* other UPDATE of it waits.
Locked(m) == \E v \in Worker : pc[v] = "locked" /\ holds[v] = m

\* The correlated NOT EXISTS, on committed rows; NULL equals nothing.
BusyServer(m) ==
  /\ server[m] # NoServer
  /\ \E n \in Message : status[n] = "sending" /\ server[n] = server[m]

\* Mutation: the claim without SKIP LOCKED.
ClaimableUnlocked == {m \in Message : status[m] = "queued" /\ due[m] /\ ~BusyServer(m)}

Claimable ==
  {m \in Message : status[m] = "queued" /\ due[m] /\ ~BusyServer(m) /\ ~Locked(m)}

StaleEmails == {m \in Message : status[m] = "sending" /\ heartbeat[m] = "old"}

\* retry.classify_code and the except branches of send_message: a timeout, a
\* lost connection and a 4xx are transient, a 5xx the tables name and every
\* DispatchError permanent, any other 5xx neither.
Reply == {"transient", "permanent", "unclear"}

\* Mutation: one attempt too many.
ShouldRetryOnceMore(n, reply) == reply = "transient" /\ n <= MaxAttempts

ShouldRetry(n, reply) == reply = "transient" /\ n < MaxAttempts

\* Mutation: a word the status column does not know.
OutcomeInOwnWords(n, reply) == IF ShouldRetry(n, reply) THEN "retry" ELSE "failed"

\* Mutation: a reply nobody knows is taken for an acceptance.
OutcomeTrusting(n, reply) ==
  IF ShouldRetry(n, reply) THEN "queued" ELSE IF reply = "unclear" THEN "sent" ELSE "failed"

\* The status _handle_failure leaves behind.
Outcome(n, reply) == IF ShouldRetry(n, reply) THEN "queued" ELSE "failed"

-----------------------------------------------------------------------------
(* Putting a message on the queue.                                         *)

\* enqueue_email, the caller's commit and wake().
Enqueue(m) ==
  /\ status[m] = "none"
  /\ \E s \in Server :
       /\ config[s] = "on"
       /\ server' = [server EXCEPT ![m] = s]
  /\ status' = [status EXCEPT ![m] = "queued"]
  /\ due' = [due EXCEPT ![m] = TRUE]
  /\ owed' = [owed EXCEPT ![m] = 1]
  /\ UNCHANGED <<attempt, heartbeat, config, task, desk, retried, used>>

\* The backoff of a failed attempt runs out.
ComesDue(m) ==
  /\ status[m] = "queued"
  /\ ~due[m]
  /\ due' = [due EXCEPT ![m] = TRUE]
  /\ UNCHANGED <<status, attempt, server, heartbeat, config, task, desk, history, used>>

\* STALE_AFTER_SECONDS pass and no heartbeat task writes for this message.
Lapse(m) ==
  /\ heartbeat[m] = "fresh"
  /\ ~\E w \in Worker : beating[w] /\ holds[w] = m
  /\ heartbeat' = [heartbeat EXCEPT ![m] = "old"]
  /\ UNCHANGED <<status, attempt, due, server, config, task, desk, history, used>>

-----------------------------------------------------------------------------
(* drain_once: the reaper, then the claim.                                 *)

\* requeue_stale_emails up to its SELECT; with nothing stale it returns.
ReapSelect(w) ==
  /\ pc[w] = "idle"
  /\ pc' = [pc EXCEPT ![w] = IF StaleEmails = {} THEN "claim" ELSE "reap"]
  /\ stale' = [stale EXCEPT ![w] = StaleEmails]
  /\ UNCHANGED <<row, config, holds, seen, verdict, beating, desk, history, used>>

\* The rows are written as they were selected, by id and whatever they say now.
Reap(w, outcome) ==
  /\ pc[w] = "reap"
  /\ \A m \in stale[w] : ~Locked(m)
  /\ status' = [m \in Message |-> IF m \in stale[w] THEN outcome ELSE status[m]]
  /\ heartbeat' = [m \in Message |-> IF m \in stale[w] THEN "none" ELSE heartbeat[m]]
  /\ pc' = [pc EXCEPT ![w] = "claim"]
  /\ stale' = [stale EXCEPT ![w] = {}]
  /\ UNCHANGED <<attempt, due, server, config, holds, seen, verdict, beating,
                 desk, history, used>>

\* Mutation: resume a dead worker's message, as the export queue does.
ReapResumes(w) == Reap(w, "queued")

ReapWrite(w) == Reap(w, "failed")

\* claim_next_email up to its SELECT ... FOR UPDATE SKIP LOCKED.
ClaimSelect(w) ==
  /\ pc[w] = "claim"
  /\ \E m \in Claimable : holds' = [holds EXCEPT ![w] = m]
  /\ pc' = [pc EXCEPT ![w] = "locked"]
  /\ UNCHANGED <<row, config, seen, verdict, beating, stale, desk, history, used>>

ClaimNothing(w) ==
  /\ pc[w] = "claim"
  /\ Claimable = {}
  /\ pc' = [pc EXCEPT ![w] = "idle"]
  /\ UNCHANGED <<row, config, holds, seen, verdict, beating, stale, desk, history, used>>

\* The rest of claim_next_email; _send_claimed starts the heartbeat task.
ClaimCommit(w) ==
  LET m == holds[w] IN
  /\ pc[w] = "locked"
  /\ status' = [status EXCEPT ![m] = "sending"]
  /\ attempt' = [attempt EXCEPT ![m] = @ + 1]
  /\ heartbeat' = [heartbeat EXCEPT ![m] = "fresh"]
  /\ pc' = [pc EXCEPT ![w] = "read"]
  /\ beating' = [beating EXCEPT ![w] = TRUE]
  /\ UNCHANGED <<due, server, config, holds, seen, verdict, stale, desk, history, used>>

-----------------------------------------------------------------------------
(* _attempt_send.                                                          *)

\* The message and its server are read again: an attempt number of 0, left by
\* a Retry in between, counts as 1; without a server that is on, nothing is
\* sent.
Prepare(w) ==
  LET m == holds[w]
      usable == server[m] # NoServer /\ config[server[m]] = "on" IN
  /\ pc[w] = "read"
  /\ seen' = [seen EXCEPT ![w] = IF attempt[m] = 0 THEN 1 ELSE attempt[m]]
  /\ pc' = [pc EXCEPT ![w] = IF usable THEN "send" ELSE "close"]
  /\ verdict' = [verdict EXCEPT ![w] = IF usable THEN "none" ELSE "failed"]
  /\ UNCHANGED <<row, config, holds, beating, stale, desk, history, used>>

\* The relay accepts the message; its answer is on the way.
Accept(w) ==
  /\ pc[w] = "send"
  /\ pc' = [pc EXCEPT ![w] = "taken"]
  /\ owed' = [owed EXCEPT ![holds[w]] = @ - 1]
  /\ UNCHANGED <<row, config, holds, seen, verdict, beating, stale, desk, retried, used>>

\* send_message raises and the relay has not accepted.
Refuse(w) ==
  /\ pc[w] = "send"
  /\ \E reply \in Reply : verdict' = [verdict EXCEPT ![w] = Outcome(seen[w], reply)]
  /\ pc' = [pc EXCEPT ![w] = "close"]
  /\ UNCHANGED <<row, config, holds, seen, beating, stale, desk, history, used>>

Answer(w) ==
  /\ pc[w] = "taken"
  /\ verdict' = [verdict EXCEPT ![w] = "sent"]
  /\ pc' = [pc EXCEPT ![w] = "close"]
  /\ UNCHANGED <<row, config, holds, seen, beating, stale, desk, history, used>>

\* The answer does not come in time, or the connection is lost: transient,
\* and knowingly so (send_message), so this copy does not count.
AnswerLost(w) ==
  /\ pc[w] = "taken"
  /\ verdict' = [verdict EXCEPT ![w] = Outcome(seen[w], "transient")]
  /\ owed' = [owed EXCEPT ![holds[w]] = @ + 1]
  /\ pc' = [pc EXCEPT ![w] = "close"]
  /\ UNCHANGED <<row, config, holds, seen, beating, stale, desk, retried, used>>

\* The end of _send_claimed: the heartbeat task is cancelled.
Done(w) ==
  /\ pc' = [pc EXCEPT ![w] = "idle"]
  /\ holds' = [holds EXCEPT ![w] = NoMessage]
  /\ seen' = [seen EXCEPT ![w] = 0]
  /\ verdict' = [verdict EXCEPT ![w] = "none"]
  /\ beating' = [beating EXCEPT ![w] = FALSE]
  /\ UNCHANGED stale

\* Mutation: the attempt counter starts again with every requeue.
RequeueFromZero(m) ==
  /\ due' = [due EXCEPT ![m] = FALSE]
  /\ attempt' = [attempt EXCEPT ![m] = 0]

\* What requeue_email writes that finish_email does not.
Requeue(m) ==
  /\ due' = [due EXCEPT ![m] = FALSE]
  /\ UNCHANGED attempt

\* finish_email or requeue_email: an UPDATE by id, whatever the row says.
Close(w) ==
  LET m == holds[w] IN
  /\ pc[w] = "close"
  /\ ~Locked(m)
  /\ status' = [status EXCEPT ![m] = verdict[w]]
  /\ heartbeat' = [heartbeat EXCEPT ![m] = "none"]
  /\ \/ verdict[w] = "queued" /\ Requeue(m)
     \/ verdict[w] # "queued" /\ UNCHANGED <<due, attempt>>
  /\ Done(w)
  /\ UNCHANGED <<server, config, desk, history, used>>

\* _beat writes heartbeat_at while its send lasts, whatever the row says.
Beat(w) ==
  /\ beating[w]
  /\ pc[w] \in Sending
  /\ heartbeat[holds[w]] # "fresh"
  /\ ~Locked(holds[w])
  /\ heartbeat' = [heartbeat EXCEPT ![holds[w]] = "fresh"]
  /\ UNCHANGED <<status, attempt, due, server, config, task, desk, history, used>>

-----------------------------------------------------------------------------
(* The delivery log's buttons, and the servers' page.                      *)

Takes(o, what, m, columns) ==
  /\ asks' = [asks EXCEPT ![o] = what]
  /\ about' = [about EXCEPT ![o] = m]
  /\ named' = [named EXCEPT ![o] = columns]

\* retry_message: the row is read without a lock and must be terminal.  A
\* column whose value does not change is not in the UPDATE.
RetryReads(o, m) ==
  /\ Requested
  /\ asks[o] = "none"
  /\ status[m] \in Terminal
  /\ Takes(o, "retry", m,
           {c \in {"attempt", "heartbeat_at"} :
              IF c = "attempt" THEN attempt[m] # 0 ELSE heartbeat[m] # "none"})
  /\ UNCHANGED <<row, config, task, history>>

\* The commit in message_service.retry.
RetryWrites(o) ==
  LET m == about[o] IN
  /\ asks[o] = "retry"
  /\ ~Locked(m)
  /\ status' = [status EXCEPT ![m] = "queued"]
  /\ due' = [due EXCEPT ![m] = TRUE]
  /\ attempt' = [attempt EXCEPT ![m] = IF "attempt" \in named[o] THEN 0 ELSE @]
  /\ heartbeat' = [heartbeat EXCEPT ![m] = IF "heartbeat_at" \in named[o] THEN "none" ELSE @]
  /\ owed' = [owed EXCEPT ![m] = @ + 1]
  /\ retried' = retried \cup {m}
  /\ Takes(o, "none", NoMessage, {})
  /\ UNCHANGED <<server, config, task, used>>

\* cancel_message: the row is read without a lock and must be queued.
CancelReads(o, m) ==
  /\ Requested
  /\ asks[o] = "none"
  /\ status[m] = "queued"
  /\ Takes(o, "cancel", m, {})
  /\ UNCHANGED <<row, config, task, history>>

\* The commit in message_service.cancel.
CancelWrites(o) ==
  LET m == about[o] IN
  /\ asks[o] = "cancel"
  /\ ~Locked(m)
  /\ status' = [status EXCEPT ![m] = "cancelled"]
  /\ Takes(o, "none", NoMessage, {})
  /\ UNCHANGED <<attempt, due, server, heartbeat, config, task, history, used>>

\* set_active: queued messages are left alone.
SwitchServer(s) ==
  /\ Requested
  /\ config[s] # "gone"
  /\ config' = [config EXCEPT ![s] = IF @ = "on" THEN "off" ELSE "on"]
  /\ UNCHANGED <<row, task, desk, history>>

\* delete_config; the foreign key of the messages is ON DELETE SET NULL.
DeleteServer(s) ==
  /\ Requested
  /\ config[s] # "gone"
  /\ \A m \in Message : server[m] = s => ~Locked(m)
  /\ config' = [config EXCEPT ![s] = "gone"]
  /\ server' = [m \in Message |-> IF server[m] = s THEN NoServer ELSE server[m]]
  /\ UNCHANGED <<status, attempt, due, heartbeat, task, desk, history>>

-----------------------------------------------------------------------------
(* What goes wrong.                                                        *)

\* The process dies, or stop_workers cancels the task: both leave the row as
\* it is, and a transaction that has not committed is rolled back.
Crash(w) ==
  /\ Faulty
  /\ pc[w] # "down"
  /\ pc' = [pc EXCEPT ![w] = "down"]
  /\ holds' = [holds EXCEPT ![w] = NoMessage]
  /\ seen' = [seen EXCEPT ![w] = 0]
  /\ verdict' = [verdict EXCEPT ![w] = "none"]
  /\ beating' = [beating EXCEPT ![w] = FALSE]
  /\ stale' = [stale EXCEPT ![w] = {}]
  /\ UNCHANGED <<row, config, desk, history>>

\* start_workers.
Restart(w) ==
  /\ pc[w] = "down"
  /\ pc' = [pc EXCEPT ![w] = "idle"]
  /\ UNCHANGED <<row, config, holds, seen, verdict, beating, stale, desk, history, used>>

\* A statement of drain_once raises: run_worker logs it and goes round again.
DrainFaults(w) ==
  /\ Faulty
  /\ pc[w] \in {"idle", "reap", "claim", "locked"}
  /\ pc' = [pc EXCEPT ![w] = "idle"]
  /\ holds' = [holds EXCEPT ![w] = NoMessage]
  /\ stale' = [stale EXCEPT ![w] = {}]
  /\ UNCHANGED <<row, config, seen, verdict, beating, desk, history>>

\* Reading the message or decrypting the password raises: _send_claimed fails
\* the message.
PrepareFaults(w) ==
  /\ Faulty
  /\ pc[w] = "read"
  /\ pc' = [pc EXCEPT ![w] = "close"]
  /\ verdict' = [verdict EXCEPT ![w] = "failed"]
  /\ UNCHANGED <<row, config, holds, seen, beating, stale, desk, history>>

\* Closing or requeueing raises and is swallowed: the row stays as it is.
CloseFaults(w) ==
  /\ Faulty
  /\ pc[w] = "close"
  /\ Done(w)
  /\ UNCHANGED <<row, config, desk, history>>

\* One heartbeat write raises: the task ends, the send goes on.
BeatFaults(w) ==
  /\ Faulty
  /\ beating[w]
  /\ beating' = [beating EXCEPT ![w] = FALSE]
  /\ UNCHANGED <<row, config, pc, holds, seen, verdict, stale, desk, history>>

-----------------------------------------------------------------------------

WorkerStep(w) ==
  \/ ReapSelect(w) \/ ReapWrite(w) \/ ClaimSelect(w) \/ ClaimNothing(w)
  \/ ClaimCommit(w) \/ Prepare(w) \/ Accept(w) \/ Refuse(w) \/ Answer(w)
  \/ AnswerLost(w) \/ Close(w)

Fault(w) ==
  \/ Crash(w) \/ DrainFaults(w) \/ PrepareFaults(w) \/ CloseFaults(w)
  \/ BeatFaults(w)

Request(o) ==
  \/ \E m \in Message : RetryReads(o, m) \/ CancelReads(o, m)
  \/ RetryWrites(o) \/ CancelWrites(o)

Next ==
  \/ \E m \in Message : Enqueue(m) \/ ComesDue(m) \/ Lapse(m)
  \/ \E w \in Worker : WorkerStep(w) \/ Beat(w) \/ Fault(w) \/ Restart(w)
  \/ \E o \in Operator : Request(o)
  \/ \E s \in Server : SwitchServer(s) \/ DeleteServer(s)

Spec == Init /\ [][Next]_vars

\* The event loop runs every live task, an SMTP conversation ends in an answer
\* or a timeout, time passes, and the container is restarted (docker-compose).
Fairness ==
  /\ \A w \in Worker : WF_vars(WorkerStep(w)) /\ WF_vars(Restart(w))
  /\ \A m \in Message : WF_vars(ComesDue(m)) /\ WF_vars(Lapse(m))

FairSpec == Spec /\ Fairness

-----------------------------------------------------------------------------
(* What the queue promises.                                                *)

\* The recipient gets one copy, one more for every time somebody pressed
\* Retry, and one more for every answer lost to a timeout, the one duplicate
\* the code accepts (send_message): no crash, no reaper, no late worker and no
\* failing write sends a message again (requeue_stale_emails).
NoUnaskedCopy == \A m \in Message : owed[m] >= 0

\* Two workers are on one message only after somebody pressed Retry: "Neither
\* waits and neither can take the other's" (claim_next_email).
SoleSender ==
  \A v, w \in Worker :
    v # w /\ pc[v] \in Sending /\ pc[w] \in Sending /\ holds[v] = holds[w]
      => holds[v] \in retried

\* Without Retry no message is tried more often than max_attempts, however its
\* workers die (should_retry, requeue_email).
TriesBounded ==
  \A m \in Message : m \notin retried => attempt[m] <= MaxAttempts

\* The queue is a mailbox (Mailbox): one copy for each asking and each lost answer,
\* "sent" written only of a copy a relay accepted, and nothing that was over taken
\* up again unless it is asked for or owed, although every writer of queries.py
\* updates by id whatever the row says.
LogOf(word) == IF word \in {"queued", "sending"} THEN "open" ELSE word

InHand(w, m) ==
  holds[w] = m /\ (pc[w] = "taken" \/ (pc[w] = "close" /\ verdict[w] = "sent"))

Mail == INSTANCE Mailbox WITH
  Sender <- Worker,
  log    <- [m \in Message |-> LogOf(status[m])],
  hand   <- {p \in Worker \X Message : InHand(p[1], p[2])}

KeepsTheMailbox == Mail!Spec

\* Every message that waits or is being sent comes to an end, through crashes,
\* lost writes and a heartbeat that stops (drain_once, requeue_stale_emails).
EveryMessageSettles ==
  \A m \in Message : status[m] \in {"queued", "sending"} ~> status[m] \in Terminal

(* What the code's comments say of it and the code does not keep.          *)

\* What the log calls "Cancelled before it was sent" was not accepted by a
\* relay: marking a message that is being sent "would claim we stopped
\* something that has already arrived" (cancel_message).
CancelIsTrue ==
  \A m \in Message : status[m] = "cancelled" /\ m \notin retried => owed[m] = 1
=============================================================================
