---------------------------- MODULE RecordWrite ----------------------------
(***************************************************************************)
(* Writing one batch of records to a vendor: what is planned from the      *)
(* remembered sync keys, the requests of a chunk that run side by side,    *)
(* what the sender repeats and what it does not, and the keys remembered   *)
(* after the batch.                                                        *)
(*                                                                         *)
(* A record is named by its number; records with one natural key are one   *)
(* record to the vendor. The operation updates a record when it is given   *)
(* its id. The module is composed by SyncRun, which owns the batches.      *)
(***************************************************************************)
EXTENDS Naturals, Sequences, FiniteSets, Functions

CONSTANTS
  NaturalKeys,      \* natural keys
  KeyOf,            \* sequence: the natural key of each record
  Operations,       \* what an operation of the flow can declare about its repetition
  Parallel,         \* requests of one group: parallelism times chunk size
  MaxSendAttempts,  \* attempts of run_with_retries
  MaxMishaps        \* bound: answers that are not a plain yes, stops and crashes

ASSUME KeyAssumption == \A i \in DOMAIN KeyOf : KeyOf[i] \in NaturalKeys
ASSUME ParallelAssumption == Parallel \in Nat \ {0}
ASSUME SendAttemptsAssumption == MaxSendAttempts \in Nat \ {0}
ASSUME MishapAssumption == MaxMishaps \in Nat
ASSUME OperationAssumption == Operations \subseteq {"plain", "idempotent", "header"}

VARIABLES
  operation,\* nothing, that it is idempotent, or the name of an idempotency header; never changes
  plan,     \* the decision on each record of the batch
  send,     \* how far each record of the batch is
  attempt,  \* the attempt at its request
  wrote,    \* outcome.sync_keys: keys written in this batch, not remembered yet
  known,    \* integration_sync_keys: the keys remembered
  copies,   \* at the vendor: how many records a key was created as
  applied,  \* at the vendor: records whose request of this batch was carried out
  lost,     \* how often a creation happened and was not remembered
  tally,    \* written, failed and skipped records of the run
  cancelled,\* somebody asked for the run to stop
  mishaps

writeVars == << operation, plan, send, attempt, wrote, known, copies, applied, lost, tally, cancelled, mishaps >>
vendorVars == << copies, applied, lost >>

Row == DOMAIN KeyOf
Decision == {"create", "update", "duplicate"}
Progress == {"todo", "sending", "written", "failed", "skipped"}

WriteTypeOK ==
  /\ operation \in Operations
  /\ DOMAIN plan \subseteq Row /\ plan \in [DOMAIN plan -> Decision]
  /\ send \in [DOMAIN plan -> Progress]
  /\ attempt \in [DOMAIN plan -> 1 .. MaxSendAttempts]
  /\ wrote \subseteq NaturalKeys /\ known \subseteq NaturalKeys
  /\ copies \in [NaturalKeys -> Nat] /\ lost \in [NaturalKeys -> Nat]
  /\ applied \subseteq DOMAIN plan
  /\ tally \in [written: Nat, failed: Nat, skipped: Nat]
  /\ cancelled \in BOOLEAN /\ mishaps \in 0 .. MaxMishaps

NoRows == [r \in {} |-> {}]
NoTally == [written |-> 0, failed |-> 0, skipped |-> 0]

WriteInit ==
  /\ operation \in Operations
  /\ plan = NoRows /\ send = NoRows /\ attempt = NoRows
  /\ wrote = {} /\ known = {}
  /\ copies = [k \in NaturalKeys |-> 0] /\ applied = {}
  /\ lost = [k \in NaturalKeys |-> 0]
  /\ tally = NoTally /\ cancelled = FALSE /\ mishaps = 0

Mishap == mishaps < MaxMishaps /\ mishaps' = mishaps + 1
InState(s) == { r \in DOMAIN send : send[r] = s }
NumberIn(s) == Cardinality(InState(s))

-----------------------------------------------------------------------------
(* The plan.                                                               *)

\* Mutation: only the remembered keys are looked at, not the batch itself.
DecideEachAlone(batch, r) ==
  IF KeyOf[r] \in known THEN "update" ELSE "create"

\* plan_writes: one query for the batch, then one decision per record in order.
Decide(batch, r) ==
  IF \E q \in batch : q < r /\ KeyOf[q] = KeyOf[r] THEN "duplicate"
  ELSE IF KeyOf[r] \in known THEN "update" ELSE "create"

PlanBatch(batch) ==
  /\ plan' = [r \in batch |-> Decide(batch, r)]
  /\ send' = [r \in batch |-> IF Decide(batch, r) = "duplicate" THEN "skipped" ELSE "todo"]
  /\ attempt' = [r \in batch |-> 1]
  /\ wrote' = {} /\ applied' = {}
  /\ UNCHANGED << known, copies, lost, tally, cancelled, mishaps >>

\* Somebody presses Cancel; the run finds out when it looks.
AskToStop ==
  /\ ~ cancelled
  /\ Mishap
  /\ cancelled' = TRUE
  /\ UNCHANGED << plan, send, attempt, wrote, known, vendorVars, tally >>

\* The next records that fit, in order; the gather before has come back.
Group ==
  { r \in InState("todo") : Cardinality({ q \in InState("todo") : q < r }) < Parallel }

StartGroup ==
  /\ InState("sending") = {} /\ Group # {} /\ ~ cancelled
  /\ send' = [r \in DOMAIN send |-> IF r \in Group THEN "sending" ELSE send[r]]
  /\ UNCHANGED << plan, attempt, wrote, known, vendorVars, tally, cancelled, mishaps >>

\* Mutation: only the group that was about to go is counted.
StopAtBoundaryOneGroup ==
  /\ InState("sending") = {} /\ Group # {} /\ cancelled
  /\ plan' = Restrict(plan, DOMAIN plan \ (InState("todo") \ Group))
  /\ send' = [r \in DOMAIN plan' |-> IF r \in Group THEN "skipped" ELSE send[r]]
  /\ attempt' = Restrict(attempt, DOMAIN plan')
  /\ UNCHANGED << wrote, known, vendorVars, tally, cancelled, mishaps >>

\* Cancel: seen between two groups; whatever is left counts as skipped.
StopAtBoundary ==
  /\ InState("sending") = {} /\ Group # {} /\ cancelled
  /\ send' = [r \in DOMAIN send |-> IF send[r] = "todo" THEN "skipped" ELSE send[r]]
  /\ UNCHANGED << plan, attempt, wrote, known, vendorVars, tally, cancelled, mishaps >>

-----------------------------------------------------------------------------
(* One request.                                                            *)

Settle(r, s) == send' = [send EXCEPT ![r] = s]

\* The vendor carries the request out. The same idempotent request again, and
\* an update, add nothing. A header is named in the declaration and in no
\* request, so the vendor has nothing to know a repetition by.
Apply(r) ==
  /\ applied' = applied \cup {r}
  /\ copies' = IF plan[r] = "create" /\ ~ (operation = "idempotent" /\ r \in applied)
               THEN [copies EXCEPT ![KeyOf[r]] = @ + 1] ELSE copies

\* A creation whose answer is gone for good.
Lose(r, carriedOut) ==
  lost' = IF carriedOut /\ plan[r] = "create" THEN [lost EXCEPT ![KeyOf[r]] = @ + 1] ELSE lost

\* A plain answer with the record's id.
Accepted(r) ==
  /\ send[r] = "sending"
  /\ Apply(r) /\ Settle(r, "written")
  /\ wrote' = wrote \cup {KeyOf[r]}
  /\ UNCHANGED << plan, attempt, known, lost, tally, cancelled, mishaps >>

\* Success without an id to be found in the answer: no key is kept.
AcceptedWithoutId(r) ==
  /\ send[r] = "sending"
  /\ Mishap
  /\ Apply(r) /\ Settle(r, "written")
  /\ Lose(r, TRUE)
  /\ UNCHANGED << plan, attempt, wrote, known, tally, cancelled >>

\* Mutation: whatever looks temporary is sent again.
MayRetryAlways(reached) == TRUE

\* write_may_be_retried: the name of a header is enough.
MayRetry(reached) == ~ reached \/ operation \in {"idempotent", "header"}

\* Mutation: off by one.
AgainOnceMore(r, reached) == MayRetry(reached) /\ attempt[r] <= MaxSendAttempts

\* classify and run_with_retries: once more, or this record has failed.
Again(r, reached) == MayRetry(reached) /\ attempt[r] < MaxSendAttempts
RetryOrFail(r, reached) ==
  IF Again(r, reached)
  THEN attempt' = [attempt EXCEPT ![r] = @ + 1] /\ UNCHANGED send
  ELSE Settle(r, "failed") /\ UNCHANGED attempt

\* Mutation: the key is kept whether or not the request went through.
NotReachedKeepsKey(r) ==
  /\ send[r] = "sending"
  /\ Mishap
  /\ RetryOrFail(r, FALSE)
  /\ wrote' = wrote \cup {KeyOf[r]}
  /\ UNCHANGED << plan, known, vendorVars, tally, cancelled >>

\* Nobody was reached, or a 429 turned it away before any work was done.
NotReached(r) ==
  /\ send[r] = "sending"
  /\ Mishap
  /\ RetryOrFail(r, FALSE)
  /\ Lose(r, ~ Again(r, FALSE) /\ r \in applied)
  /\ UNCHANGED << plan, wrote, known, copies, applied, tally, cancelled >>

\* The request went out and a 5xx, or nothing, came back.
Unclear(r, carriedOut) ==
  /\ send[r] = "sending"
  /\ Mishap
  /\ IF carriedOut THEN Apply(r) ELSE UNCHANGED << copies, applied >>
  /\ RetryOrFail(r, TRUE)
  /\ Lose(r, ~ Again(r, TRUE) /\ r \in applied')
  /\ UNCHANGED << plan, wrote, known, tally, cancelled >>

\* A redirect, an answer that is no JSON or too large, a 401: permanent,
\* whatever the vendor has done.
Unreadable(r, carriedOut) ==
  /\ send[r] = "sending"
  /\ Mishap
  /\ IF carriedOut THEN Apply(r) ELSE UNCHANGED << copies, applied >>
  /\ Settle(r, "failed")
  /\ Lose(r, r \in applied')
  /\ UNCHANGED << plan, attempt, wrote, known, tally, cancelled >>

-----------------------------------------------------------------------------
(* The end of a batch.                                                     *)

BatchSent == InState("todo") = {} /\ InState("sending") = {}
CountBatch ==
  tally' = [written |-> tally.written + NumberIn("written"),
            failed  |-> tally.failed + NumberIn("failed"),
            skipped |-> tally.skipped + NumberIn("skipped")]
ForgetBatch == /\ plan' = NoRows /\ send' = NoRows /\ attempt' = NoRows
               /\ wrote' = {} /\ applied' = {}

\* remember, in one commit after every write of the batch; then the counters.
Remember ==
  /\ BatchSent /\ DOMAIN plan # {}
  /\ known' = known \cup wrote
  /\ CountBatch /\ ForgetBatch
  /\ UNCHANGED << copies, lost, cancelled, mishaps >>

\* What a batch that is given up had created without remembering it.
Orphans == { r \in applied : plan[r] = "create" /\ send[r] \in {"sending", "written"}
                             /\ (send[r] = "written" => KeyOf[r] \in wrote) }

\* The process dies, the node times out, or the commit of the keys raises.
GiveUpBatch ==
  /\ lost' = [k \in NaturalKeys |->
                lost[k] + Cardinality({ r \in Orphans : KeyOf[r] = k })]
  /\ ForgetBatch
  /\ UNCHANGED << known, copies, tally, cancelled >>

-----------------------------------------------------------------------------
(* Properties.                                                             *)

\* What one creation can come to: an operation that names a header has it sent
\* at every attempt, any other one once.
CopiesPerCreation == IF operation = "header" THEN MaxSendAttempts ELSE 1

\* A record exists at the vendor more often than one creation can explain only
\* where the code lost the answer to a creation: never because two records of a
\* batch share a key, a later batch or run did not know of it, or (a named header
\* apart) a request that may have arrived was sent again.
NoUnexplainedCopy == \A k \in NaturalKeys : copies[k] <= CopiesPerCreation * (1 + lost[k])

\* What a key stands for does exist.
KnownExists == \A k \in known : copies[k] >= 1
=============================================================================
