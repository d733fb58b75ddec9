----------------------------- MODULE PagedRead -----------------------------
(***************************************************************************)
(* Reading a vendor's records: the walk over its pages, and the supply     *)
(* that hands them to the loop of a flow one batch at a time.              *)
(*                                                                         *)
(* The vendor holds the records 1 .. SourceSize in that order and does not *)
(* change them during a walk. It may return fewer records than asked for,  *)
(* hand out a token for an empty last page, or repeat a token. The module  *)
(* owns the variables walk, carry and handed and is composed by SyncRun.   *)
(***************************************************************************)
EXTENDS Naturals, Sequences

CONSTANTS
  SourceSize,   \* how many records the vendor has
  PageSize,     \* size of the page rule
  BatchSize,    \* batch_size of the batch node
  MaxPages,     \* max_pages of the page rule
  MaxRecords,   \* max_records of the page rule
  Rules,        \* the page rules of operations: a kind, and the vendor's first marker
  NoToken

ASSUME SourceAssumption == SourceSize \in Nat
ASSUME PageAssumption == PageSize \in Nat \ {0} /\ BatchSize \in Nat \ {0}
ASSUME LimitAssumption == MaxPages \in Nat /\ MaxRecords \in Nat
ASSUME RuleAssumption ==
  Rules \subseteq [kind: {"none", "number", "offset", "token"}, first: Nat]
ASSUME TokenAssumption == NoToken \notin Nat

VARIABLES
  walk,    \* PageWalk: rule, pages and records read, the marker to ask with, the markers followed
  carry,   \* records fetched and not handed out yet
  handed   \* every record handed out, in order

readVars == << walk, carry, handed >>

Record == 1 .. SourceSize
Least(a, b) == IF a <= b THEN a ELSE b

\* A marker is what the request carries: an offset, a page number, or a token,
\* which is the vendor's own position. "first" is the marker of the vendor's
\* first page, "start" the one the rule makes the walk begin with.
Walk == [kind: {"none", "number", "offset", "token"}, first: Nat, start: Nat,
         page: Nat, seen: Nat, mark: Nat, marks: SUBSET Nat,
         finished: BOOLEAN, why: {"", "all", "limit", "repeat"}]
ReadTypeOK ==
  /\ walk \in Walk
  /\ carry \in Seq(Record) /\ handed \in Seq(Record)

\* load_page_rule: a start of nought that a stored rule declares is no start to
\* `or`, and becomes one.
StoredStart(rule) == IF rule.first = 0 THEN 1 ELSE rule.first

\* begin: page one is asked for with the start of the rule, where it is counted.
Begins(rule, start) ==
  [kind |-> rule.kind, first |-> rule.first, start |-> start,
   page |-> 0, seen |-> 0, mark |-> IF rule.kind \in {"number", "offset"} THEN start ELSE 0,
   marks |-> {}, finished |-> FALSE, why |-> ""]

-----------------------------------------------------------------------------
(* The vendor.                                                             *)

\* Where the page a request asks for starts, and how many records it may hold.
PositionOf(w, mark) ==
  IF w.kind = "number" THEN (mark - w.first) * PageSize
  ELSE IF w.kind = "offset" THEN mark - w.first ELSE mark
Position(w) == PositionOf(w, w.mark)
Left(w) == IF Position(w) < SourceSize THEN SourceSize - Position(w) ELSE 0
Lengths(w) ==
  IF Left(w) = 0 THEN {0}
  ELSE IF w.kind = "none" THEN {Left(w)}
  ELSE IF w.kind = "number" THEN {Least(PageSize, Left(w))}
  ELSE 1 .. Least(PageSize, Left(w))
Page(w, n) == [i \in 1 .. n |-> Position(w) + i]

\* The token that comes with a page of n records: the next position, none (and
\* always none past the end), or one the walk has followed already.
Tokens(w, n) ==
  IF w.kind # "token" THEN {NoToken}
  ELSE (IF Left(w) = n THEN {NoToken} ELSE {})
       \cup (IF n > 0 THEN {w.mark + n} ELSE {}) \cup w.marks

-----------------------------------------------------------------------------
(* The walk.                                                               *)

Stop(w, because) == [w EXCEPT !.finished = TRUE, !.why = because]

\* _step_param, _step_argument, _step_url: a marker is followed once.
Follow(w, m) ==
  IF m \in w.marks THEN Stop(w, "repeat")
  ELSE [w EXCEPT !.mark = m, !.marks = @ \cup {m}]

\* Mutation: the offset steps by the page size that was asked for.
NextPageBySize(w, token) ==
  IF w.kind = "number" THEN Follow(w, w.start + w.page)
  ELSE IF w.kind = "offset" THEN Follow(w, w.start + w.page * PageSize)
  ELSE IF token = NoToken THEN Stop(w, "all")
  ELSE Follow(w, token)

\* _next: pages are numbered, offsets step by the records actually returned.
NextPage(w, token) ==
  IF w.kind = "number" THEN Follow(w, w.start + w.page)
  ELSE IF w.kind = "offset" THEN Follow(w, w.start + w.seen)
  ELSE IF token = NoToken THEN Stop(w, "all")
  ELSE Follow(w, token)

Count(w, n) == [w EXCEPT !.page = @ + 1, !.seen = @ + n]

\* Mutation: a page shorter than asked for is taken for the last one.
AdvanceShortEnds(w, n, token) ==
  LET c == Count(w, n) IN
  IF w.kind = "none" \/ n < PageSize THEN Stop(c, "all")
  ELSE IF c.page >= MaxPages \/ c.seen >= MaxRecords THEN Stop(c, "limit")
  ELSE NextPage(c, token)

\* advance: an empty page is the end whatever the token says; then the limits.
Advance(w, n, token) ==
  LET c == Count(w, n) IN
  IF w.kind = "none" \/ n = 0 THEN Stop(c, "all")
  ELSE IF c.page >= MaxPages \/ c.seen >= MaxRecords THEN Stop(c, "limit")
  ELSE NextPage(c, token)

-----------------------------------------------------------------------------
(* The supply.                                                             *)

\* A rule of a connector's code is taken as it is, one of a row is loaded.
ReadInit ==
  /\ \E rule \in Rules : \E start \in {rule.first, StoredStart(rule)} : walk = Begins(rule, start)
  /\ carry = << >> /\ handed = << >>

\* open_supply in a new run: the records are read again from the start.
ReadAgain ==
  /\ walk' = Begins(walk, walk.start)
  /\ carry' = << >> /\ handed' = << >>

Hungry == Len(carry) < BatchSize /\ ~ walk.finished

\* next_batch, one page: the request and what the walk makes of the answer.
FetchPage ==
  /\ Hungry
  /\ \E n \in Lengths(walk) : \E token \in Tokens(walk, n) :
       /\ carry' = carry \o Page(walk, n)
       /\ walk' = Advance(walk, n, token)
  /\ UNCHANGED handed

Taken == SubSeq(carry, 1, Least(BatchSize, Len(carry)))

\* Mutation: what a page held beyond the batch is dropped.
TakeBatchDropsCarry ==
  /\ ~ Hungry /\ carry # << >>
  /\ handed' = handed \o Taken
  /\ carry' = << >>
  /\ UNCHANGED walk

\* next_batch, once there is enough: the batch is cut off and the rest kept.
TakeBatch ==
  /\ ~ Hungry /\ carry # << >>
  /\ handed' = handed \o Taken
  /\ carry' = SubSeq(carry, Least(BatchSize, Len(carry)) + 1, Len(carry))
  /\ UNCHANGED walk

Exhausted == ~ Hungry /\ carry = << >>

-----------------------------------------------------------------------------
(* Properties.                                                             *)

\* The records before the marker the walk begins with: none for a rule of code
\* and for a vendor who counts from one; the first record, or the first page, for
\* a stored rule of a vendor who counts from nought.
Skipped(w) ==
  IF w.kind \in {"number", "offset"} THEN PositionOf(w, w.start) ELSE 0

\* From where the walk begins, the loop gets the records of the source in order,
\* none twice and none left out, however short the vendor's pages are and
\* wherever a batch is cut.
ReadsInOrder == \A i \in 1 .. Len(handed) : handed[i] = Skipped(walk) + i

\* A walk that stopped for neither a limit nor a repeated marker has read every
\* record from where it began.
CompleteIsAll ==
  Exhausted /\ walk.why = "all" =>
    \A r \in Record : r > Skipped(walk) => \E i \in DOMAIN handed : handed[i] = r
=============================================================================
