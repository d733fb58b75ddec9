--------------------------- MODULE SyncRunProofs ---------------------------
(***************************************************************************)
(* Copying records, for a source of any size and any sizes of page, batch  *)
(* and limit: from where the walk begins the loop gets the records in      *)
(* order, a walk that ends because there is no more has read all of them,  *)
(* and the counters of a run add up.  For any keys, attempts and mishaps,  *)
(* a creation leaves one copy (where a header is only named, one for each  *)
(* attempt), and as many more for each answer that was lost; a remembered  *)
(* key is the key of a record that exists.                                 *)
(***************************************************************************)
EXTENDS SyncRun, SequenceTheorems, FiniteSetTheorems, TLAPS

-----------------------------------------------------------------------------
(* The walk.                                                               *)

\* What there is from where a walk begins.
Rest(w) == IF Skipped(w) < SourceSize THEN SourceSize - Skipped(w) ELSE 0

\* The page that is asked for next starts where the last one ended, or past the
\* end of the source; a walk that ended by itself has seen everything from where
\* it began, and it began at the vendor's first marker or one after it.
Good(w) ==
  /\ w \in Walk
  /\ w.start = w.first \/ (w.first = 0 /\ w.start = 1)
  /\ w.seen <= Rest(w)
  /\ ~ w.finished /\ w.kind \in {"none", "token"} => w.mark = w.seen
  /\ ~ w.finished /\ w.kind = "offset" => w.mark = w.start + w.seen
  /\ ~ w.finished /\ w.kind = "number" =>
       /\ w.mark = w.start + w.page
       /\ \/ w.seen = w.page * PageSize
          \/ w.seen = Rest(w) /\ Skipped(w) + w.page * PageSize >= SourceSize
  /\ w.why = "all" => w.seen = Rest(w)
  /\ ~ w.finished => w.why = ""

\* Two walks by one rule begin at one place.
SameRule(v, w) == v.kind = w.kind /\ v.first = w.first /\ v.start = w.start

LEMMA SameRuleSkips ==
  ASSUME NEW v, NEW w, SameRule(v, w) PROVE Skipped(v) = Skipped(w) /\ Rest(v) = Rest(w)
  BY DEF SameRule, Skipped, PositionOf, Rest

\* A walk skips nothing, one record or one page.
LEMMA SkippedIs ==
  ASSUME NEW w \in Walk, w.start = w.first \/ (w.first = 0 /\ w.start = 1)
  PROVE  /\ Skipped(w) \in Nat /\ Rest(w) \in Nat
         /\ w.kind \in {"none", "token"} \/ w.start = w.first => Skipped(w) = 0
         /\ w.kind = "offset" => Skipped(w) = w.start - w.first
         /\ w.kind = "number" /\ w.start # w.first => Skipped(w) = PageSize
<1>1. w.first \in Nat /\ w.start \in Nat BY DEF Walk
<1>2. w.kind = "number" => Skipped(w) = (w.start - w.first) * PageSize
  BY DEF Skipped, PositionOf
<1>3. w.kind = "number" /\ w.start = w.first => Skipped(w) = 0
  BY <1>1, <1>2, PageAssumption
<1>4. w.kind = "number" /\ w.start # w.first => Skipped(w) = PageSize
  <2>1. SUFFICES ASSUME w.kind = "number", w.start # w.first PROVE Skipped(w) = PageSize
    OBVIOUS
  <2>2. w.start - w.first = 1 BY <2>1, <1>1
  <2>3. QED BY <2>1, <2>2, <1>2, PageAssumption
<1>5. w.kind = "offset" => Skipped(w) = w.start - w.first BY DEF Skipped, PositionOf
<1>6. w.kind \notin {"number", "offset"} => Skipped(w) = 0 BY DEF Skipped
<1>7. Skipped(w) \in Nat BY <1>1, <1>3, <1>4, <1>5, <1>6, PageAssumption
<1>8. QED BY <1>1, <1>3, <1>4, <1>5, <1>6, <1>7, SourceAssumption DEF Rest

Silent(w) == w.finished = FALSE /\ w.why = ""

LEMMA FreshGood ==
  ASSUME NEW w \in Walk, w.start = w.first \/ (w.first = 0 /\ w.start = 1),
         w.seen = 0, w.page = 0, Silent(w),
         w.mark = IF w.kind \in {"number", "offset"} THEN w.start ELSE 0
  PROVE  Good(w)
<1>1. w.start \in Nat /\ w.mark \in Nat BY DEF Walk
<1>2. Rest(w) \in Nat BY SkippedIs
<1>3. w.seen = w.page * PageSize
  <2>1. 0 = 0 * PageSize BY PageAssumption
  <2>2. QED BY <2>1
<1>4. w.seen <= Rest(w) BY <1>2
<1>5. /\ w.kind = "offset" => w.mark = w.start + w.seen
      /\ w.kind = "number" => w.mark = w.start + w.page
  BY <1>1
<1>6. w.kind \in {"none", "token"} => w.mark = w.seen OBVIOUS
<1>7. QED BY <1>3, <1>4, <1>5, <1>6 DEF Good, Silent

LEMMA BeginsGood ==
  ASSUME NEW rule, rule.kind \in {"none", "number", "offset", "token"}, rule.first \in Nat,
         NEW start \in Nat, start = rule.first \/ (rule.first = 0 /\ start = 1)
  PROVE  /\ Good(Begins(rule, start)) /\ Begins(rule, start).seen = 0
         /\ Begins(rule, start).kind = rule.kind /\ Begins(rule, start).first = rule.first
         /\ Begins(rule, start).start = start
<1> DEFINE w == Begins(rule, start)
<1>1. /\ w \in Walk /\ w.seen = 0 /\ w.page = 0 /\ w.kind = rule.kind /\ w.first = rule.first
      /\ w.start = start /\ Silent(w)
      /\ w.mark = IF w.kind \in {"number", "offset"} THEN w.start ELSE 0
  BY DEF Begins, Walk, Silent
<1>2. w.start = w.first \/ (w.first = 0 /\ w.start = 1) BY <1>1
<1> HIDE DEF w
<1>3. Good(w) BY <1>1, <1>2, FreshGood
<1>4. QED BY <1>1, <1>3 DEF w

\* What a page adds: n records from where the walk is.
LEMMA PageFits ==
  ASSUME NEW w, Good(w), ~ w.finished, NEW n \in Lengths(w)
  PROVE  /\ n \in Nat /\ w.seen + n <= Rest(w)
         /\ n > 0 => Position(w) = Skipped(w) + w.seen /\ Position(w) + n <= SourceSize
         /\ (n = 0 \/ n = Left(w)) => w.seen + n = Rest(w)
         /\ w.kind = "number" =>
              \/ w.seen + n = (w.page + 1) * PageSize
              \/ w.seen + n = Rest(w) /\ Skipped(w) + (w.page + 1) * PageSize >= SourceSize
         /\ w.kind = "none" => n = Left(w)
<1> DEFINE size == w.page * PageSize
           base == Skipped(w)
<1>0. w \in Walk /\ w.seen <= Rest(w) BY DEF Good
<1>1. /\ w.page \in Nat /\ w.seen \in Nat /\ w.mark \in Nat /\ w.first \in Nat /\ w.start \in Nat
      /\ w.kind \in {"none", "number", "offset", "token"}
  BY <1>0 DEF Walk
<1>2. size \in Nat /\ (w.page + 1) * PageSize = size + PageSize
  BY <1>1, PageAssumption
<1>12. /\ w.start = w.first \/ (w.first = 0 /\ w.start = 1)
       /\ w.kind \in {"none", "token"} => w.mark = w.seen
       /\ w.kind = "offset" => w.mark = w.start + w.seen
       /\ w.kind = "number" => w.mark = w.start + w.page
  BY DEF Good
<1>3. /\ base \in Nat /\ Rest(w) \in Nat
      /\ w.kind \in {"none", "token"} \/ w.start = w.first => base = 0
      /\ w.kind = "offset" => base = w.start - w.first
      /\ w.kind = "number" /\ w.start # w.first => base = PageSize
  BY <1>0, SkippedIs DEF Good
<1>4. Rest(w) = IF base < SourceSize THEN SourceSize - base ELSE 0 BY DEF Rest
<1>5. w.kind = "number" => Position(w) = base + size
  <2> SUFFICES ASSUME w.kind = "number" PROVE Position(w) = base + size
    OBVIOUS
  <2>1. Position(w) = ((w.start + w.page) - w.first) * PageSize
    BY DEF Good, Position, PositionOf
  <2>2. CASE w.start = w.first
    <3>1. (w.start + w.page) - w.first = w.page BY <2>2, <1>1
    <3>2. QED BY <2>1, <2>2, <3>1, <1>2, <1>3
  <2>3. CASE w.start # w.first
    <3>1. (w.start + w.page) - w.first = w.page + 1 BY <2>3, <1>1, <1>12
    <3>2. base = PageSize BY <2>3, <1>3
    <3> HIDE DEF base, size
    <3>3. QED BY <2>1, <3>1, <3>2, <1>2, PageAssumption
  <2>4. QED BY <2>2, <2>3
<1>6. w.kind # "number" => Position(w) = base + w.seen
  <2>1. CASE w.kind = "offset"
    <3>1. Position(w) = (w.start + w.seen) - w.first BY <2>1, <1>12 DEF Position, PositionOf
    <3>2. base = w.start - w.first BY <2>1, <1>3
    <3> HIDE DEF base
    <3>3. QED BY <3>1, <3>2, <1>1
  <2>2. CASE w.kind \in {"none", "token"}
    <3>1. Position(w) = w.seen BY <2>2, <1>12 DEF Position, PositionOf
    <3>2. base = 0 BY <2>2, <1>3
    <3> HIDE DEF base
    <3>3. QED BY <3>1, <3>2, <1>1
  <2>3. QED BY <2>1, <2>2, <1>1
<1>7. w.kind = "number" => w.seen = size \/ (w.seen = Rest(w) /\ base + size >= SourceSize)
  BY DEF Good
<1> HIDE DEF base, size
<1>8. Position(w) \in Nat
      /\ (Position(w) = base + w.seen \/ (w.seen = Rest(w) /\ Position(w) >= SourceSize))
  BY <1>1, <1>2, <1>3, <1>5, <1>6, <1>7
<1>9. CASE Left(w) = 0
  <2>1. n = 0 /\ Position(w) >= SourceSize
    BY <1>8, <1>9, SourceAssumption DEF Lengths, Left
  <2>2. w.seen = Rest(w) BY <2>1, <1>0, <1>1, <1>3, <1>4, <1>8, SourceAssumption
  <2>3. w.kind = "number" => base + (size + PageSize) >= SourceSize
    BY <2>1, <1>2, <1>3, <1>5, SourceAssumption, PageAssumption
  <2>4. QED BY <2>1, <2>2, <2>3, <1>1, <1>2, <1>9 DEF base
<1>10. CASE Left(w) # 0
  <2>1. /\ Position(w) = base + w.seen /\ Left(w) = SourceSize - Position(w) /\ Left(w) > 0
        /\ Rest(w) = SourceSize - base
    BY <1>1, <1>3, <1>4, <1>8, <1>10, SourceAssumption DEF Left
  <2>2. n \in Nat /\ n > 0 /\ n <= Left(w)
    BY <2>1, <1>1, <1>8, SourceAssumption, PageAssumption DEF Lengths, Least
  <2>3. w.kind = "none" => n = Left(w) BY <1>10 DEF Lengths
  <2>4. w.kind = "number" => w.seen = size /\ (n = PageSize \/ (n = Left(w) /\ Left(w) <= PageSize))
    <3>1. w.kind = "number" => w.seen = size BY <2>1, <1>1, <1>2, <1>3, <1>5
    <3>2. w.kind = "number" => n = PageSize \/ (n = Left(w) /\ Left(w) <= PageSize)
      BY <2>1, <1>8, <1>10, SourceAssumption, PageAssumption DEF Lengths, Least
    <3>3. QED BY <3>1, <3>2
  <2>5. w.kind = "number" => w.seen + n = size + PageSize
                             \/ (w.seen + n = Rest(w) /\ base + (size + PageSize) >= SourceSize)
    BY <2>1, <2>2, <2>4, <1>1, <1>2, <1>3, SourceAssumption, PageAssumption
  <2>6. QED BY <2>1, <2>2, <2>3, <2>5, <1>1, <1>2, <1>3, SourceAssumption DEF base
<1>11. QED BY <1>9, <1>10

\* Every answer keeps the walk good.
LEMMA AdvanceGood ==
  ASSUME NEW w, Good(w), ~ w.finished, NEW n \in Lengths(w), NEW token \in Tokens(w, n)
  PROVE  /\ Good(Advance(w, n, token)) /\ Advance(w, n, token).seen = w.seen + n
         /\ SameRule(Advance(w, n, token), w)
<1> DEFINE c == Count(w, n)
<1>0. w \in Walk BY DEF Good
<1>1. /\ n \in Nat /\ w.seen + n <= Rest(w) /\ w.seen \in Nat /\ w.page \in Nat
      /\ (n = 0 \/ n = Left(w)) => w.seen + n = Rest(w)
      /\ w.kind = "none" => n = Left(w)
      /\ w.mark \in Nat /\ w.marks \subseteq Nat /\ w.start \in Nat
  BY <1>0, PageFits DEF Walk
<1>2. /\ c \in Walk /\ c.seen = w.seen + n /\ c.page = w.page + 1 /\ SameRule(c, w)
      /\ c.kind = w.kind /\ c.start = w.start /\ c.first = w.first
      /\ Silent(c) /\ c.marks = w.marks
  <2>1. w.finished = FALSE /\ w.why = "" BY <1>0 DEF Good, Walk
  <2>2. w.page + 1 \in Nat /\ w.seen + n \in Nat BY <1>1
  <2>3. QED BY <1>0, <2>1, <2>2 DEF Count, Walk, SameRule, Silent
<1> HIDE DEF c
<1>3. ASSUME NEW because \in {"all", "limit", "repeat"},
             because = "all" => c.seen = Rest(w)
      PROVE  /\ Good(Stop(c, because)) /\ Stop(c, because).seen = w.seen + n
             /\ SameRule(Stop(c, because), w)
  <2> DEFINE f == Stop(c, because)
  <2>1. /\ f \in Walk /\ f.finished = TRUE /\ f.why = because /\ f.seen = w.seen + n
        /\ f.start = w.start /\ f.first = w.first /\ SameRule(f, w)
    BY <1>2 DEF Stop, Walk, SameRule
  <2> HIDE DEF f
  <2>2. Rest(f) = Rest(w) BY <2>1, SameRuleSkips
  <2>3. Good(f) BY <2>1, <2>2, <1>1, <1>2, <1>3 DEF Good
  <2>4. QED BY <2>1, <2>3 DEF f
<1>4. ASSUME NEW m \in Nat,
             \/ m \in w.marks
             \/ /\ w.kind \in {"none", "token"} => m = w.seen + n
                /\ w.kind = "offset" => m = w.start + (w.seen + n)
                /\ w.kind = "number" => m = w.start + c.page
      PROVE  /\ Good(Follow(c, m)) /\ Follow(c, m).seen = w.seen + n
             /\ SameRule(Follow(c, m), w)
  <2>1. CASE m \in w.marks BY <2>1, <1>2, <1>3 DEF Follow
  <2>2. CASE m \notin w.marks
    <3> DEFINE f == [c EXCEPT !.mark = m, !.marks = @ \cup {m}]
    <3>1. Follow(c, m) = f BY <2>2, <1>2 DEF Follow
    <3>2. /\ f \in Walk /\ f.seen = w.seen + n /\ f.mark = m /\ f.page = w.page + 1
          /\ f.kind = w.kind /\ Silent(f)
          /\ f.start = w.start /\ f.first = w.first /\ SameRule(f, w)
      BY <1>2 DEF Walk, SameRule, Silent
    <3> HIDE DEF f
    <3>3. w.kind = "number" =>
              \/ w.seen + n = (w.page + 1) * PageSize
              \/ w.seen + n = Rest(w) /\ Skipped(w) + (w.page + 1) * PageSize >= SourceSize
      BY PageFits
    <3>4. Rest(f) = Rest(w) /\ Skipped(f) = Skipped(w) BY <3>2, SameRuleSkips
    <3>5. Good(f)
      BY <1>1, <1>2, <1>4, <2>2, <3>2, <3>3, <3>4 DEF Good, Silent
    <3>6. QED BY <3>1, <3>2, <3>5
  <2>3. QED BY <2>1, <2>2
<1>5. CASE w.kind = "none" \/ n = 0
  BY <1>1, <1>2, <1>3, <1>5 DEF Advance, c
<1>6. CASE /\ ~ (w.kind = "none" \/ n = 0)
           /\ c.page >= MaxPages \/ c.seen >= MaxRecords
  BY <1>2, <1>3, <1>6 DEF Advance, c
<1>7. CASE /\ ~ (w.kind = "none" \/ n = 0)
           /\ ~ (c.page >= MaxPages \/ c.seen >= MaxRecords)
  <2>1. Advance(w, n, token) = NextPage(c, token) BY <1>2, <1>7 DEF Advance, c
  <2>2. CASE w.kind = "number"
    <3>1. NextPage(c, token) = Follow(c, w.start + c.page) BY <2>2, <1>2 DEF NextPage
    <3>2. w.start + c.page \in Nat
      <4>1. w.page + 1 \in Nat /\ c.page = w.page + 1 BY <1>1, <1>2
      <4>2. QED BY <4>1, <1>1
    <3> DEFINE m == w.start + c.page
    <3> HIDE DEF m
    <3>3. m \in Nat /\ m = w.start + c.page /\ Advance(w, n, token) = Follow(c, m)
      BY <2>1, <3>1, <3>2 DEF m
    <3>4. QED BY <2>2, <3>3, <1>4
  <2>3. CASE w.kind = "offset"
    <3>1. NextPage(c, token) = Follow(c, w.start + c.seen) BY <2>3, <1>2 DEF NextPage
    <3>2. c.seen = w.seen + n /\ w.start + c.seen \in Nat
      <4>1. w.seen + n \in Nat /\ c.seen = w.seen + n BY <1>1, <1>2
      <4>2. QED BY <4>1, <1>1
    <3>3. w.start + c.seen = w.start + (w.seen + n) BY <3>2
    <3> DEFINE m == w.start + c.seen
    <3> HIDE DEF m
    <3>4. m \in Nat /\ m = w.start + (w.seen + n) /\ Advance(w, n, token) = Follow(c, m)
      BY <2>1, <3>1, <3>2, <3>3 DEF m
    <3>5. QED BY <2>3, <3>4, <1>4
  <2>4. CASE w.kind = "token" /\ token = NoToken
    <3>1. NoToken \notin w.marks BY <1>1, TokenAssumption
    <3>2. w.mark + n \in Nat BY <1>1
    <3>3. Left(w) = n BY <2>4, <3>1, <3>2, TokenAssumption DEF Tokens
    <3>4. NextPage(c, token) = Stop(c, "all") BY <2>4, <1>2 DEF NextPage
    <3>5. QED BY <2>1, <3>3, <3>4, <1>1, <1>2, <1>3
  <2>5. CASE w.kind = "token" /\ token # NoToken
    <3>1. w.mark = w.seen BY <2>5 DEF Good
    <3>2. token \in w.marks \/ token = w.seen + n BY <2>5, <3>1 DEF Tokens
    <3>3. token \in Nat BY <3>2, <1>1
    <3>4. NextPage(c, token) = Follow(c, token) BY <2>5, <1>2 DEF NextPage
    <3>5. QED BY <2>1, <2>5, <3>2, <3>3, <3>4, <1>4
  <2>6. w.kind \in {"none", "number", "offset", "token"} BY <1>0 DEF Walk
  <2>7. QED BY <2>2, <2>3, <2>4, <2>5, <2>6, <1>7
<1>8. QED BY <1>5, <1>6, <1>7

-----------------------------------------------------------------------------
(* The supply.                                                             *)

SupplyInv ==
  /\ Good(walk)
  /\ carry \in Seq(Record) /\ handed \in Seq(Record)
  /\ ReadsInOrder
  /\ \A i \in 1 .. Len(carry) : carry[i] = Skipped(walk) + (Len(handed) + i)
  /\ walk.seen = Len(handed) + Len(carry)

\* What a step may do with the supply.
ReadAction == FetchPage \/ TakeBatch \/ ReadAgain \/ UNCHANGED readVars

LEMMA ReadKinds == [SyncNext]_syncVars => ReadAction
  BY DEF SyncNext, syncVars, ReadAction, Fetch, Pass, CancelSeen, LoopEnds, Write, BatchEnds,
         Cancels, ReadFails, RunBreaks, RunAgain, readVars

LEMMA SupplyInitially == ReadInit => SupplyInv
<1> SUFFICES ASSUME ReadInit PROVE SupplyInv
  OBVIOUS
<1>1. Good(walk) /\ walk.seen = 0
  <2>1. PICK rule \in Rules : \E start \in {rule.first, StoredStart(rule)} : walk = Begins(rule, start)
    BY DEF ReadInit
  <2>2. PICK start \in {rule.first, StoredStart(rule)} : walk = Begins(rule, start) BY <2>1
  <2>3. rule.kind \in {"none", "number", "offset", "token"} /\ rule.first \in Nat
    BY RuleAssumption
  <2>4. start \in Nat /\ (start = rule.first \/ (rule.first = 0 /\ start = 1))
    BY <2>3 DEF StoredStart
  <2>5. QED BY <2>2, <2>3, <2>4, BeginsGood
<1>2. carry = << >> /\ handed = << >> BY DEF ReadInit
<1>3. QED BY <1>1, <1>2 DEF SupplyInv, ReadsInOrder

LEMMA SupplyStep == SupplyInv /\ ReadAction => SupplyInv'
<1> SUFFICES ASSUME SupplyInv, ReadAction PROVE SupplyInv'
  OBVIOUS
<1>0. /\ Good(walk) /\ walk.seen = Len(handed) + Len(carry)
      /\ carry \in Seq(Record) /\ handed \in Seq(Record)
      /\ Len(carry) \in Nat /\ Len(handed) \in Nat
      /\ Skipped(walk) \in Nat
      /\ \A i \in 1 .. Len(handed) : handed[i] = Skipped(walk) + i
      /\ \A i \in 1 .. Len(carry) : carry[i] = Skipped(walk) + (Len(handed) + i)
  <2>1. Skipped(walk) \in Nat BY SkippedIs DEF SupplyInv, Good
  <2>2. QED BY <2>1 DEF SupplyInv, ReadsInOrder
<1>1. CASE FetchPage
  <2>1. PICK n \in Lengths(walk) : \E token \in Tokens(walk, n) :
           carry' = carry \o Page(walk, n) /\ walk' = Advance(walk, n, token)
    BY <1>1 DEF FetchPage
  <2>2. PICK token \in Tokens(walk, n) :
           carry' = carry \o Page(walk, n) /\ walk' = Advance(walk, n, token)
    BY <2>1
  <2>3. ~ walk.finished /\ handed' = handed BY <1>1 DEF FetchPage, Hungry
  <2>4. Good(walk') /\ walk'.seen = walk.seen + n /\ SameRule(walk', walk)
    BY <1>0, <2>2, <2>3, AdvanceGood
  <2>5. n \in Nat /\ (n > 0 => Position(walk) = Skipped(walk) + walk.seen
                               /\ Position(walk) + n <= SourceSize)
    BY <1>0, <2>3, PageFits
  <2>10. Skipped(walk') = Skipped(walk) BY <2>4, SameRuleSkips
  <2> DEFINE p == Page(walk, n)
  <2>6. p \in Seq(Record) /\ Len(p) = n
        /\ \A i \in 1 .. n : p[i] = Skipped(walk) + (walk.seen + i)
    <3>1. \A i \in 1 .. n : /\ Position(walk) + i = Skipped(walk) + (walk.seen + i)
                             /\ Position(walk) + i \in Record
      BY <1>0, <2>5, SourceAssumption DEF Record
    <3>2. p = [i \in 1 .. n |-> Position(walk) + i] BY DEF Page
    <3>3. QED BY <2>5, <3>1, <3>2
  <2> HIDE DEF p
  <2>7. /\ carry' \in Seq(Record) /\ Len(carry') = Len(carry) + n
        /\ \A i \in 1 .. Len(carry') :
             carry'[i] = IF i <= Len(carry) THEN carry[i] ELSE p[i - Len(carry)]
    BY <1>0, <2>2, <2>6, <2>5 DEF p
  <2>8. \A i \in 1 .. Len(carry') : carry'[i] = Skipped(walk') + (Len(handed') + i)
    <3> SUFFICES ASSUME NEW i \in 1 .. Len(carry')
                 PROVE  carry'[i] = Skipped(walk) + (Len(handed) + i)
      BY <2>3, <2>10
    <3>1. CASE i <= Len(carry) BY <3>1, <2>7, <1>0
    <3>2. CASE i > Len(carry)
      <4>1. i - Len(carry) \in 1 .. n BY <3>2, <2>7, <2>5, <1>0
      <4>2. carry'[i] = Skipped(walk) + (walk.seen + (i - Len(carry))) BY <4>1, <3>2, <2>6, <2>7, <1>0
      <4>3. QED BY <4>1, <4>2, <1>0
    <3>3. QED BY <3>1, <3>2, <1>0
  <2>9. walk'.seen = Len(handed') + Len(carry') BY <1>0, <2>3, <2>4, <2>5, <2>7
  <2>11. \A i \in 1 .. Len(handed') : handed'[i] = Skipped(walk') + i BY <1>0, <2>3, <2>10
  <2>12. handed' \in Seq(Record) BY <1>0, <2>3
  <2>13. QED BY <2>4, <2>7, <2>8, <2>9, <2>11, <2>12 DEF SupplyInv, ReadsInOrder
<1>2. CASE TakeBatch
  <2> DEFINE k == Least(BatchSize, Len(carry))
  <2>1. k \in Nat /\ k <= Len(carry) BY <1>0, PageAssumption DEF Least
  <2> HIDE DEF k
  <2>2. /\ walk' = walk /\ handed' = handed \o SubSeq(carry, 1, k)
        /\ carry' = SubSeq(carry, k + 1, Len(carry))
    BY <1>2 DEF TakeBatch, Taken, k
  <2>3. /\ SubSeq(carry, 1, k) \in Seq(Record) /\ Len(SubSeq(carry, 1, k)) = k
        /\ \A i \in 1 .. k : SubSeq(carry, 1, k)[i] = carry[i]
    BY <1>0, <2>1
  <2>4. /\ carry' \in Seq(Record) /\ Len(carry') = Len(carry) - k
        /\ \A i \in 1 .. Len(carry) - k : carry'[i] = carry[k + i]
    BY <1>0, <2>1, <2>2
  <2>5. /\ handed' \in Seq(Record) /\ Len(handed') = Len(handed) + k
        /\ \A i \in 1 .. Len(handed') :
             handed'[i] = IF i <= Len(handed) THEN handed[i]
                          ELSE SubSeq(carry, 1, k)[i - Len(handed)]
    BY <1>0, <2>1, <2>2, <2>3
  <2>6. \A i \in 1 .. Len(handed') : handed'[i] = Skipped(walk) + i
    <3> SUFFICES ASSUME NEW i \in 1 .. Len(handed') PROVE handed'[i] = Skipped(walk) + i
      OBVIOUS
    <3>1. CASE i <= Len(handed) BY <3>1, <2>5, <1>0
    <3>2. CASE i > Len(handed)
      <4>1. i - Len(handed) \in 1 .. k BY <3>2, <2>5, <2>1, <1>0
      <4>2. handed'[i] = carry[i - Len(handed)] BY <4>1, <3>2, <2>3, <2>5, <1>0
      <4>3. i - Len(handed) \in 1 .. Len(carry) BY <4>1, <2>1, <1>0
      <4>4. QED BY <4>2, <4>3, <1>0
    <3>3. QED BY <3>1, <3>2, <1>0
  <2>7. \A i \in 1 .. Len(carry') : carry'[i] = Skipped(walk) + (Len(handed') + i)
    <3> SUFFICES ASSUME NEW i \in 1 .. Len(carry')
                 PROVE  carry'[i] = Skipped(walk) + (Len(handed') + i)
      OBVIOUS
    <3>1. carry'[i] = carry[k + i] /\ k + i \in 1 .. Len(carry) BY <1>0, <2>1, <2>4
    <3>2. QED BY <3>1, <1>0, <2>1, <2>5
  <2>8. Good(walk') BY <1>0, <2>2
  <2>9. walk'.seen = Len(handed') + Len(carry')
    <3>1. Len(handed') = Len(handed) + k /\ Len(carry') = Len(carry) - k BY <2>4, <2>5
    <3>2. walk'.seen = Len(handed) + Len(carry) BY <1>0, <2>2
    <3>3. QED BY <1>0, <2>1, <3>1, <3>2
  <2>10. QED BY <2>2, <2>4, <2>5, <2>6, <2>7, <2>8, <2>9 DEF SupplyInv, ReadsInOrder
<1>3. CASE ReadAgain
  <2>1. /\ walk.kind \in {"none", "number", "offset", "token"} /\ walk.first \in Nat
        /\ walk.start \in Nat /\ (walk.start = walk.first \/ (walk.first = 0 /\ walk.start = 1))
    BY <1>0 DEF Good, Walk
  <2>2. Good(walk') /\ walk'.seen = 0 BY <2>1, <1>3, BeginsGood DEF ReadAgain
  <2>3. carry' = << >> /\ handed' = << >> BY <1>3 DEF ReadAgain
  <2>4. QED BY <2>2, <2>3 DEF SupplyInv, ReadsInOrder
<1>4. CASE UNCHANGED readVars
  <2>1. walk' = walk /\ carry' = carry /\ handed' = handed BY <1>4 DEF readVars
  <2>2. QED BY <1>0, <2>1 DEF SupplyInv, ReadsInOrder
<1>5. QED BY <1>1, <1>2, <1>3, <1>4 DEF ReadAction

LEMMA SupplyInvariant == SyncSpec => []SupplyInv
<1>1. SyncInit => SupplyInv BY SupplyInitially DEF SyncInit
<1>2. SupplyInv /\ [SyncNext]_syncVars => SupplyInv' BY ReadKinds, SupplyStep
<1>3. QED BY <1>1, <1>2, PTL DEF SyncSpec

\* Paging and batching together neither repeat, drop nor reorder a record from
\* where the walk begins, for every size of source, page and batch, however short
\* the pages are and whatever start a rule is loaded with.
THEOREM RecordsArriveInOrder == SyncSpec => []ReadsInOrder
<1>1. SupplyInv => ReadsInOrder BY DEF SupplyInv
<1>2. QED BY <1>1, SupplyInvariant, PTL

\* What a walk that ended by itself has handed out.
LEMMA AllHandedOut ==
  ASSUME SupplyInv, Exhausted, walk.why = "all",
         NEW r \in Record, r > Skipped(walk)
  PROVE  r - Skipped(walk) \in DOMAIN handed /\ handed[r - Skipped(walk)] = r
<1>1. walk.seen = Rest(walk) /\ carry = << >> BY DEF SupplyInv, Good, Exhausted
<1>2. Skipped(walk) \in Nat BY SkippedIs DEF SupplyInv, Good
<1>3. Len(handed) = Rest(walk) /\ DOMAIN handed = 1 .. Len(handed)
  BY <1>1 DEF SupplyInv
<1>4. r \in Nat /\ r <= SourceSize BY SourceAssumption DEF Record
<1>5. Rest(walk) = SourceSize - Skipped(walk) BY <1>2, <1>4, SourceAssumption DEF Rest
<1>6. r - Skipped(walk) \in 1 .. Len(handed) BY <1>2, <1>3, <1>4, <1>5, SourceAssumption
<1>7. handed[r - Skipped(walk)] = Skipped(walk) + (r - Skipped(walk))
  BY <1>6 DEF SupplyInv, ReadsInOrder
<1>8. QED BY <1>2, <1>3, <1>4, <1>6, <1>7

\* A walk that says it came to the end has brought every record from where it
\* began to the loop.
THEOREM EndOfWalkIsEnd == SyncSpec => []CompleteIsAll
<1>1. SupplyInv => CompleteIsAll BY AllHandedOut DEF CompleteIsAll
<1>2. QED BY <1>1, SupplyInvariant, PTL

\* The records 1, 2, 3, ... come first, and all of them have come when a walk
\* ended by itself.
ReadsFromTheFirst ==
  /\ \A i \in 1 .. Len(handed) : handed[i] = i
  /\ Exhausted /\ walk.why = "all" =>
       \A r \in Record : \E i \in DOMAIN handed : handed[i] = r

\* Nothing of the source is left out where the vendor counts from one, where no
\* marker is counted, and where the walk begins with the marker nought: only a
\* stored rule of a vendor who counts from nought loses the beginning.
THEOREM WholeUnlessFromNought ==
  SyncSpec => [](walk.first # 0 \/ walk.start = 0 \/ walk.kind \in {"none", "token"}
                   => ReadsFromTheFirst)
<1>1. ASSUME SupplyInv, walk.first # 0 \/ walk.start = 0 \/ walk.kind \in {"none", "token"}
      PROVE  ReadsFromTheFirst
  <2>1. Skipped(walk) = 0 BY <1>1, SkippedIs DEF SupplyInv, Good
  <2>2. ASSUME NEW i \in 1 .. Len(handed) PROVE handed[i] = i
    BY <1>1, <2>1 DEF SupplyInv, ReadsInOrder
  <2>3. ASSUME Exhausted, walk.why = "all", NEW r \in Record
        PROVE  \E i \in DOMAIN handed : handed[i] = r
    <3>1. r > Skipped(walk) BY <2>1 DEF Record
    <3>2. QED BY <1>1, <2>3, <3>1, AllHandedOut
  <2>4. QED BY <2>2, <2>3 DEF ReadsFromTheFirst
<1>2. SupplyInv => (walk.first # 0 \/ walk.start = 0 \/ walk.kind \in {"none", "token"}
                      => ReadsFromTheFirst)
  BY <1>1
<1>3. QED BY <1>2, SupplyInvariant, PTL

-----------------------------------------------------------------------------
(* The counters.                                                           *)

Total == tally.written + tally.failed + tally.skipped

CountInv ==
  /\ stage \in {"read", "write", "done", "failed"}
  /\ tally \in [written: Nat, failed: Nat, skipped: Nat]
  /\ IsFiniteSet(DOMAIN send) /\ send \in [DOMAIN send -> Progress]
  /\ stage \in {"read", "done"} => Len(handed) = Total
  /\ stage = "write" => Len(handed) = Total + Cardinality(DOMAIN send)

\* The rows of a batch are as many as were handed out, because no two of them
\* are the same record.
LEMMA RowsOfBatch ==
  ASSUME SupplyInv, SupplyInv', TakeBatch
  PROVE  IsFiniteSet(NewRows) /\ Len(handed') = Len(handed) + Cardinality(NewRows)
<1>1. Len(handed) \in Nat /\ Len(handed') \in Nat BY DEF SupplyInv
<1>2. \A i \in 1 .. Len(handed') : handed'[i] = Skipped(walk) + i
  BY DEF SupplyInv, ReadsInOrder, TakeBatch
<1>0. Skipped(walk) \in Nat BY SkippedIs DEF SupplyInv, Good
<1>3. Len(handed) <= Len(handed')
  <2>1. Taken \in Seq(Record) /\ handed' = handed \o Taken
    <3>1. Least(BatchSize, Len(carry)) \in Nat /\ Least(BatchSize, Len(carry)) <= Len(carry)
      BY PageAssumption DEF Least, SupplyInv
    <3>2. QED BY <3>1 DEF TakeBatch, Taken, SupplyInv
  <2>2. QED BY <2>1 DEF SupplyInv
<1> DEFINE a == Skipped(walk) + (Len(handed) + 1)
           b == Skipped(walk) + Len(handed')
<1>4. NewRows = a .. b
  <2>1. \A x \in NewRows : x \in a .. b BY <1>0, <1>1, <1>2 DEF NewRows
  <2>2. ASSUME NEW x \in a .. b PROVE x \in NewRows
    <3>1. x - Skipped(walk) \in Len(handed) + 1 .. Len(handed') BY <1>0, <1>1
    <3>2. handed'[x - Skipped(walk)] = x BY <3>1, <1>0, <1>1, <1>2
    <3>3. QED BY <3>1, <3>2 DEF NewRows
  <2>3. QED BY <2>1, <2>2
<1>5. /\ IsFiniteSet(a .. b)
      /\ Cardinality(a .. b) = IF a > b THEN 0 ELSE b - a + 1
  <2>1. a \in Int /\ b \in Int BY <1>0, <1>1
  <2> HIDE DEF a, b
  <2>2. QED BY <2>1, FS_Interval
<1>6. QED BY <1>0, <1>1, <1>3, <1>4, <1>5

\* A request, a group and a cancel change how far records are, not which
\* records the batch has.
LEMMA WriteKeepsRows ==
  ASSUME CountInv, WriteStep
  PROVE  tally' = tally /\ DOMAIN send' = DOMAIN send /\ send' \in [DOMAIN send -> Progress]
<1> USE DEF CountInv, Progress
<1>1. CASE StartGroup BY <1>1 DEF StartGroup
<1>2. CASE StopAtBoundary BY <1>2 DEF StopAtBoundary
<1>3. ASSUME NEW r \in DOMAIN send,
             \/ Accepted(r) \/ AcceptedWithoutId(r) \/ NotReached(r)
             \/ \E carriedOut \in BOOLEAN : Unclear(r, carriedOut) \/ Unreadable(r, carriedOut)
      PROVE  tally' = tally /\ DOMAIN send' = DOMAIN send /\ send' \in [DOMAIN send -> Progress]
  <2>1. tally' = tally
    BY <1>3 DEF Accepted, AcceptedWithoutId, NotReached, Unclear, Unreadable
  <2>2. send' = send \/ Settle(r, "written") \/ Settle(r, "failed")
    BY <1>3 DEF Accepted, AcceptedWithoutId, NotReached, Unclear, Unreadable, RetryOrFail
  <2>3. QED BY <2>1, <2>2 DEF Settle
<1>4. QED BY <1>1, <1>2, <1>3 DEF WriteStep

\* Once a batch is sent, each of its records is written, failed or skipped.
LEMMA RememberCountsAll ==
  ASSUME CountInv, Remember
  PROVE  /\ tally' \in [written: Nat, failed: Nat, skipped: Nat]
         /\ Total' = Total + Cardinality(DOMAIN send)
<1> DEFINE A == InState("written")  B == InState("failed")  C == InState("skipped")
<1>1. DOMAIN send = (A \cup B) \cup C
  <2>1. \A r \in DOMAIN send : send[r] \in {"written", "failed", "skipped"}
    BY DEF CountInv, Progress, Remember, BatchSent, InState
  <2>2. QED BY <2>1 DEF InState
<1>2. IsFiniteSet(A) /\ IsFiniteSet(B) /\ IsFiniteSet(C)
  BY FS_Subset DEF CountInv, InState
<1>3. A \cap B = {} /\ (A \cup B) \cap C = {} BY DEF InState
<1> HIDE DEF A, B, C
<1>4. Cardinality(A \cup B) = Cardinality(A) + Cardinality(B) /\ IsFiniteSet(A \cup B)
  <2>1. Cardinality(A \cap B) = 0 BY <1>3, FS_EmptySet
  <2>2. Cardinality(A) \in Nat /\ Cardinality(B) \in Nat BY <1>2, FS_CardinalityType
  <2>3. QED BY <1>2, <2>1, <2>2, FS_Union
<1>5. Cardinality(DOMAIN send) = Cardinality(A \cup B) + Cardinality(C)
  <2>1. Cardinality((A \cup B) \cap C) = 0 BY <1>3, FS_EmptySet
  <2>2. Cardinality(A \cup B) \in Nat /\ Cardinality(C) \in Nat BY <1>2, <1>4, FS_CardinalityType
  <2>3. Cardinality((A \cup B) \cup C) =
           Cardinality(A \cup B) + Cardinality(C) - Cardinality((A \cup B) \cap C)
    BY <1>2, <1>4, FS_Union
  <2>4. QED BY <1>1, <2>1, <2>2, <2>3
<1>6. Cardinality(A) \in Nat /\ Cardinality(B) \in Nat /\ Cardinality(C) \in Nat
  BY <1>2, FS_CardinalityType
<1>7. tally' = [written |-> tally.written + Cardinality(A), failed |-> tally.failed + Cardinality(B),
                skipped |-> tally.skipped + Cardinality(C)]
  BY DEF Remember, CountBatch, NumberIn, A, B, C
<1>8. tally.written \in Nat /\ tally.failed \in Nat /\ tally.skipped \in Nat BY DEF CountInv
<1>9. QED BY <1>4, <1>5, <1>6, <1>7, <1>8 DEF Total

LEMMA CountInitially == SyncInit => CountInv
<1> SUFFICES ASSUME SyncInit PROVE CountInv
  OBVIOUS
<1>1. handed = << >> /\ stage = "read" BY DEF SyncInit, ReadInit
<1>2. tally = NoTally /\ send = NoRows BY DEF SyncInit, WriteInit
<1>3. IsFiniteSet(DOMAIN send) BY <1>2, FS_EmptySet DEF NoRows
<1>4. send \in [DOMAIN send -> Progress] BY <1>2 DEF NoRows
<1>5. QED BY <1>1, <1>2, <1>3, <1>4 DEF CountInv, NoTally, Total

LEMMA CountStep == SupplyInv /\ SupplyInv' /\ CountInv /\ [SyncNext]_syncVars => CountInv'
<1> SUFFICES ASSUME SupplyInv, SupplyInv', CountInv, [SyncNext]_syncVars PROVE CountInv'
  OBVIOUS
<1> USE DEF CountInv, Total
<1>1. CASE Fetch BY <1>1 DEF Fetch, FetchPage, writeVars
<1>2. CASE Pass
  <2>1. IsFiniteSet(NewRows) /\ Len(handed') = Len(handed) + Cardinality(NewRows)
    BY <1>2, RowsOfBatch DEF Pass
  <2>2. stage = "read" /\ stage' = "write" /\ tally' = tally BY <1>2 DEF Pass, PlanBatch
  <2>3. DOMAIN send' = NewRows /\ send' \in [NewRows -> Progress]
    BY <1>2 DEF Pass, PlanBatch, Progress
  <2>4. QED BY <2>1, <2>2, <2>3
<1>3. CASE CancelSeen BY <1>3 DEF CancelSeen, writeVars
<1>4. CASE LoopEnds BY <1>4 DEF LoopEnds, readVars, writeVars
<1>5. CASE Write
  <2>1. tally' = tally /\ DOMAIN send' = DOMAIN send /\ send' \in [DOMAIN send -> Progress]
    BY <1>5, WriteKeepsRows DEF Write
  <2>2. stage' = stage /\ handed' = handed BY <1>5 DEF Write, readVars
  <2>3. QED BY <2>1, <2>2
<1>6. CASE BatchEnds
  <2>1. /\ tally' \in [written: Nat, failed: Nat, skipped: Nat]
        /\ Total' = Total + Cardinality(DOMAIN send)
    BY <1>6, RememberCountsAll DEF BatchEnds
  <2>2. stage = "write" /\ stage' = "read" /\ handed' = handed /\ send' = NoRows
    BY <1>6 DEF BatchEnds, readVars, Remember, ForgetBatch
  <2>3. IsFiniteSet(DOMAIN send') /\ send' \in [DOMAIN send' -> Progress]
    BY <2>2, FS_EmptySet DEF NoRows
  <2>4. QED BY <2>1, <2>2, <2>3
<1>7. CASE Cancels BY <1>7 DEF Cancels, AskToStop, readVars
<1>8. CASE ReadFails BY <1>8 DEF ReadFails, readVars
<1>9. CASE RunBreaks
  <2>1. stage' = "failed" /\ tally' = tally /\ send' = NoRows
    BY <1>9 DEF RunBreaks, GiveUpBatch, ForgetBatch
  <2>2. IsFiniteSet(DOMAIN send') /\ send' \in [DOMAIN send' -> Progress]
    BY <2>1, FS_EmptySet DEF NoRows
  <2>3. QED BY <2>1, <2>2
<1>10. CASE RunAgain
  <2>1. stage' = "read" /\ handed' = << >> /\ tally' = NoTally /\ send' = send
    BY <1>10 DEF RunAgain, ReadAgain
  <2>2. QED BY <2>1 DEF NoTally
<1>11. CASE UNCHANGED syncVars BY <1>11 DEF syncVars, readVars, writeVars
<1>12. QED
  BY <1>1, <1>2, <1>3, <1>4, <1>5, <1>6, <1>7, <1>8, <1>9, <1>10, <1>11 DEF SyncNext

\* The counters of a run account for every record the loop was given, for every
\* number of records, attempts, failures and cancels.
THEOREM EveryRecordIsCounted == SyncSpec => []RecordsAccounted
<1>1. SupplyInv /\ SupplyInv' /\ CountInv /\ [SyncNext]_syncVars => CountInv'
  BY CountStep
<1>2. CountInv => RecordsAccounted BY DEF CountInv, RecordsAccounted, Total
<1>3. QED BY <1>1, <1>2, CountInitially, SupplyInvariant, PTL DEF SyncSpec

-----------------------------------------------------------------------------
(* What the vendor ends up with.                                           *)

\* What a batch under way keeps about its records, and the copies there are of
\* each: what one creation comes to where the key is known, and as many for each
\* answer that was lost.
PlanTyped ==
  /\ DOMAIN plan \subseteq Row /\ IsFiniteSet(DOMAIN plan)
  /\ plan \in [DOMAIN plan -> Decision] /\ send \in [DOMAIN plan -> Progress]
  /\ attempt \in [DOMAIN plan -> 1 .. MaxSendAttempts]
  /\ applied \subseteq DOMAIN plan
  /\ wrote \subseteq NaturalKeys /\ known \subseteq NaturalKeys
  /\ copies \in [NaturalKeys -> Nat] /\ lost \in [NaturalKeys -> Nat]

\* Outside a batch nothing is planned or under way.
IdleIsEmpty == stage # "write" => DOMAIN plan = {} /\ applied = {} /\ wrote = {}

\* A key that is known is never created, one that is not is created once.
PlanIsSound ==
  /\ \A r \in DOMAIN plan : /\ plan[r] = "update" => KeyOf[r] \in known
                            /\ plan[r] = "create" => KeyOf[r] \notin known
                            /\ plan[r] = "duplicate" => send[r] = "skipped"
  /\ \A q, r \in DOMAIN plan :
       plan[q] = "create" /\ plan[r] = "create" /\ KeyOf[q] = KeyOf[r] => q = r

\* Only a request that may be repeated is under way after it was carried out.
SentIsSound ==
  /\ \A r \in applied : send[r] # "todo" /\ (send[r] = "sending" => operation \in {"idempotent", "header"})
  /\ \A r \in applied : plan[r] = "create" => copies[KeyOf[r]] >= 1
  /\ \A k \in wrote : copies[k] >= 1

\* The copies that lost answers explain, and the keys one creation more explains.
Explained(k) == CopiesPerCreation * lost[k]
Covered(k) == k \in known \/ \E r \in Orphans : KeyOf[r] = k
CopiesBounded ==
  \A k \in NaturalKeys :
    copies[k] <= Explained(k) + (IF Covered(k) THEN CopiesPerCreation ELSE 0)

\* How often a creation under way was carried out at most: before each attempt but
\* the first where a header is named, and else once.
Times(r) == IF operation = "header" THEN attempt[r] - 1 ELSE 1
SendingBounded ==
  \A r \in Orphans :
    send[r] = "sending" => copies[KeyOf[r]] <= Explained(KeyOf[r]) + Times(r)

CopyInv ==
  /\ PlanTyped /\ IdleIsEmpty /\ PlanIsSound /\ SentIsSound
  /\ CopiesBounded /\ SendingBounded /\ KnownExists

LEMMA PerCreation == CopiesPerCreation \in Nat /\ CopiesPerCreation >= 1
  BY SendAttemptsAssumption DEF CopiesPerCreation

LEMMA TimesMore ==
  ASSUME NEW c \in Nat, NEW l \in Nat, NEW d \in Nat
  PROVE  /\ c * l \in Nat /\ c * (l + d) = c * l + c * d /\ c * d \in Nat
         /\ d >= 1 => c * d >= c
<1>1. c * l \in Nat /\ c * d \in Nat /\ c * (l + d) = c * l + c * d OBVIOUS
<1>2. ASSUME d >= 1 PROVE c * d >= c
  <2>1. d - 1 \in Nat BY <1>2
  <2>2. c * (d - 1) \in Nat /\ c * d = c * (d - 1) + c BY <2>1
  <2>3. QED BY <2>2
<1>3. QED BY <1>1, <1>2

\* A loss explains the copies of one creation.
LEMMA ExplainedGrows ==
  ASSUME lost \in [NaturalKeys -> Nat], lost' \in [NaturalKeys -> Nat], operation' = operation,
         NEW k \in NaturalKeys, lost'[k] >= lost[k]
  PROVE  /\ Explained(k) \in Nat /\ Explained(k)' \in Nat /\ Explained(k)' >= Explained(k)
         /\ lost'[k] > lost[k] => Explained(k)' >= Explained(k) + CopiesPerCreation
<1> DEFINE d == lost'[k] - lost[k]
<1>1. lost[k] \in Nat /\ d \in Nat /\ lost'[k] = lost[k] + d OBVIOUS
<1>2. CopiesPerCreation' = CopiesPerCreation BY DEF CopiesPerCreation
<1>3. Explained(k)' = CopiesPerCreation * (lost[k] + d) BY <1>1, <1>2 DEF Explained
<1>4. lost'[k] > lost[k] => d >= 1 BY <1>1
<1> HIDE DEF d
<1>5. QED BY <1>1, <1>3, <1>4, PerCreation, TimesMore DEF Explained

LEMMA KeyTyped == ASSUME NEW r \in Row PROVE KeyOf[r] \in NaturalKeys
  BY KeyAssumption DEF Row

LEMMA CopyInitially == SyncInit => CopyInv
<1> SUFFICES ASSUME SyncInit PROVE CopyInv
  OBVIOUS
<1>1. WriteInit BY DEF SyncInit
<1>2. /\ DOMAIN plan = {} /\ plan \in [{} -> Decision] /\ send \in [{} -> Progress]
      /\ attempt \in [{} -> 1 .. MaxSendAttempts]
      /\ applied = {} /\ wrote = {} /\ known = {}
  BY <1>1 DEF WriteInit, NoRows
<1>3. \A k \in NaturalKeys : copies[k] = 0 /\ Explained(k) = 0
  BY <1>1, PerCreation DEF WriteInit, Explained
<1>4. copies \in [NaturalKeys -> Nat] /\ lost \in [NaturalKeys -> Nat] BY <1>1 DEF WriteInit
<1>5. PlanTyped BY <1>2, <1>4, FS_EmptySet DEF PlanTyped
<1>6. IdleIsEmpty /\ PlanIsSound /\ SentIsSound /\ KnownExists
  BY <1>2 DEF IdleIsEmpty, PlanIsSound, SentIsSound, KnownExists
<1>7. CopiesBounded BY <1>3, PerCreation DEF CopiesBounded
<1>9. SendingBounded BY <1>2 DEF SendingBounded, Orphans
<1>8. QED BY <1>5, <1>6, <1>7, <1>9 DEF CopyInv

-----------------------------------------------------------------------------
(* One record.                                                             *)

Lost(r) == lost' = [lost EXCEPT ![KeyOf[r]] = @ + 1]

\* Whatever comes back for one request: a creation that was carried out is
\* either still under way and repeatable, or written and about to be
\* remembered, or counted as lost.
LEMMA OneRecord ==
  ASSUME CopyInv, stage = "write", NEW r \in DOMAIN plan, send[r] = "sending",
         NEW x \in {"sending", "written", "failed"}, send' = [send EXCEPT ![r] = x],
         UNCHANGED << plan, known, operation, stage >>,
         IF x = "sending"
         THEN attempt[r] < MaxSendAttempts /\ attempt' = [attempt EXCEPT ![r] = @ + 1]
         ELSE attempt' = attempt,
         UNCHANGED << copies, applied >> \/ Apply(r),
         wrote' = wrote \/ (wrote' = wrote \cup {KeyOf[r]} /\ r \in applied'),
         lost' = lost \/ (plan[r] = "create" /\ Lost(r)),
         x = "sending" /\ r \in applied' => operation \in {"idempotent", "header"},
         plan[r] = "create" /\ r \in applied' =>
            x = "sending" \/ (x = "written" /\ KeyOf[r] \in wrote') \/ Lost(r)
  PROVE  CopyInv'
<1> DEFINE K == KeyOf[r]
<1>0. PlanTyped /\ PlanIsSound /\ SentIsSound /\ CopiesBounded /\ SendingBounded /\ KnownExists
  BY DEF CopyInv
<1>1. K \in NaturalKeys BY <1>0, KeyTyped DEF PlanTyped
<1>2. r \in applied => operation \in {"idempotent", "header"} BY <1>0 DEF SentIsSound
<1>3. plan[r] \in {"create", "update"}
  BY <1>0 DEF PlanTyped, PlanIsSound, Decision
<1>4. /\ applied' = applied \/ applied' = applied \cup {r}
      /\ copies' = copies \/ copies' = [copies EXCEPT ![K] = @ + 1]
      /\ copies' # copies => /\ plan[r] = "create" /\ r \in applied'
                             /\ r \in applied => operation # "idempotent"
      /\ plan[r] = "create" /\ r \in applied' /\ r \notin applied =>
           copies' = [copies EXCEPT ![K] = @ + 1]
  BY <1>2 DEF Apply
<1>5. \A k \in NaturalKeys : copies'[k] >= copies[k] /\ copies'[k] \in Nat
                             /\ lost'[k] >= lost[k] /\ lost'[k] \in Nat
                             /\ (k # K => copies'[k] = copies[k])
  BY <1>0, <1>1, <1>4 DEF PlanTyped, Lost
<1>6. PlanTyped'
  <2>1. attempt' \in [DOMAIN plan -> 1 .. MaxSendAttempts]
    <3>1. attempt[r] \in 1 .. MaxSendAttempts BY <1>0 DEF PlanTyped
    <3>2. CASE x = "sending" BY <3>1, <3>2, <1>0, SendAttemptsAssumption DEF PlanTyped
    <3>3. CASE x # "sending" BY <3>3, <1>0 DEF PlanTyped
    <3>4. QED BY <3>2, <3>3
  <2>2. QED BY <2>1, <1>0, <1>1, <1>4 DEF PlanTyped, Progress, Lost
<1>7. PlanIsSound' BY <1>0, <1>3 DEF PlanIsSound, PlanTyped
<1>8. plan[r] = "create" /\ r \in applied' => copies'[K] >= 1
  <2>1. CASE r \in applied
    <3>1. plan[r] = "create" => copies[K] >= 1 BY <1>0, <2>1 DEF SentIsSound
    <3>2. QED BY <3>1, <1>0, <1>1, <1>5 DEF PlanTyped
  <2>2. CASE r \notin applied
    BY <2>2, <1>0, <1>1, <1>4 DEF PlanTyped
  <2>3. QED BY <2>1, <2>2
<1>9. plan[r] = "update" => copies[K] >= 1 BY <1>0, <1>3 DEF PlanIsSound, KnownExists
<1>10. SentIsSound'
  <2>1. \A q \in applied' : send'[q] # "todo" /\ (send'[q] = "sending" => operation' \in {"idempotent", "header"})
    <3> SUFFICES ASSUME NEW q \in applied'
                 PROVE  send'[q] # "todo" /\ (send'[q] = "sending" => operation' \in {"idempotent", "header"})
      OBVIOUS
    <3>1. CASE q = r
      <4>1. send'[q] = x BY <3>1, <1>0 DEF PlanTyped
      <4>2. QED BY <3>1, <4>1
    <3>2. CASE q # r
      <4>1. q \in applied BY <3>2, <1>4
      <4>2. send'[q] = send[q] BY <3>2, <4>1, <1>0 DEF PlanTyped
      <4>3. send[q] # "todo" /\ (send[q] = "sending" => operation \in {"idempotent", "header"})
        BY <4>1, <1>0 DEF SentIsSound
      <4>4. QED BY <4>2, <4>3
    <3>3. QED BY <3>1, <3>2
  <2>2. ASSUME NEW q \in applied', plan[q] = "create" PROVE copies'[KeyOf[q]] >= 1
    <3>1. CASE q = r BY <3>1, <2>2, <1>8
    <3>2. CASE q # r
      <4>1. q \in applied /\ KeyOf[q] \in NaturalKeys
        BY <3>2, <1>4, <1>0, KeyTyped DEF PlanTyped
      <4>2. copies[KeyOf[q]] >= 1 BY <4>1, <2>2, <1>0 DEF SentIsSound
      <4>3. QED BY <4>1, <4>2, <1>0, <1>5 DEF PlanTyped
    <3>3. QED BY <3>1, <3>2
  <2>3. ASSUME NEW k \in wrote' PROVE copies'[k] >= 1
    <3>1. CASE k \in wrote
      <4>1. k \in NaturalKeys /\ copies[k] >= 1 BY <3>1, <1>0 DEF SentIsSound, PlanTyped
      <4>2. QED BY <4>1, <1>0, <1>5 DEF PlanTyped
    <3>2. CASE k \notin wrote
      <4>1. k = K /\ r \in applied' BY <3>2, <2>3
      <4>2. CASE plan[r] = "create" BY <4>1, <4>2, <1>8
      <4>3. CASE plan[r] = "update" BY <4>1, <4>3, <1>9, <1>0, <1>1, <1>5 DEF PlanTyped
      <4>4. QED BY <4>2, <4>3, <1>3
    <3>3. QED BY <3>1, <3>2
  <2>4. \A q \in applied' : plan'[q] = "create" => copies'[KeyOf[q]] >= 1 BY <2>2
  <2>5. QED BY <2>1, <2>3, <2>4 DEF SentIsSound
<1> DEFINE C == CopiesPerCreation
           now == IF operation = "header" THEN attempt[r] ELSE 1
<1>14. C \in Nat /\ C >= 1 /\ C' = C BY PerCreation DEF CopiesPerCreation
<1>15. \A k \in NaturalKeys :
         /\ copies[k] \in Nat /\ copies'[k] \in Nat
         /\ Explained(k) \in Nat /\ Explained(k)' \in Nat /\ Explained(k)' >= Explained(k)
  BY <1>0, <1>5, <1>6, ExplainedGrows DEF PlanTyped
<1>16. Lost(r) => Explained(K)' >= Explained(K) + C
  BY <1>0, <1>1, <1>6, ExplainedGrows DEF PlanTyped, Lost
<1>17. now \in Nat /\ 1 <= now /\ now <= C
  BY <1>0, SendAttemptsAssumption DEF PlanTyped, CopiesPerCreation
<1>18. ASSUME plan[r] = "create", Covered(K) PROVE r \in applied /\ r \in Orphans
  <2>1. K \notin known BY <1>18, <1>0 DEF PlanIsSound
  <2>2. PICK q \in Orphans : KeyOf[q] = K BY <2>1, <1>18 DEF Covered
  <2>3. q = r BY <2>2, <1>18, <1>0 DEF Orphans, PlanIsSound, PlanTyped
  <2>4. QED BY <2>2, <2>3 DEF Orphans
<1>19. ASSUME plan[r] = "create"
       PROVE  copies'[K] <= Explained(K) + (IF r \in applied' THEN now ELSE 0)
  <2>1. CASE r \in applied
    <3>1. r \in Orphans BY <2>1, <1>19 DEF Orphans
    <3>2. copies[K] <= Explained(K) + Times(r) BY <3>1, <1>0 DEF SendingBounded
    <3>3. r \in applied' BY <2>1, <1>4
    <3>4. CASE operation = "header"
      <4>1. Times(r) = now - 1 BY <3>4 DEF Times
      <4>2. copies'[K] <= copies[K] + 1 BY <1>0, <1>1, <1>4 DEF PlanTyped
      <4>3. QED BY <4>1, <4>2, <3>2, <3>3, <1>1, <1>15, <1>17
    <3>5. CASE operation # "header"
      <4>1. operation = "idempotent" BY <3>5, <2>1, <1>2
      <4>2. copies' = copies BY <4>1, <2>1, <1>4
      <4>3. QED BY <4>2, <3>2, <3>3, <3>5, <1>1, <1>15 DEF Times
    <3>6. QED BY <3>4, <3>5
  <2>2. CASE r \notin applied
    <3>1. copies[K] <= Explained(K) BY <2>2, <1>0, <1>1, <1>15, <1>18, <1>19 DEF CopiesBounded
    <3>2. CASE r \in applied'
      <4>1. copies'[K] = copies[K] + 1 BY <2>2, <3>2, <1>0, <1>1, <1>4, <1>19 DEF PlanTyped
      <4>2. QED BY <3>1, <3>2, <4>1, <1>1, <1>15, <1>17
    <3>3. CASE r \notin applied'
      <4>1. copies' = copies BY <3>3, <1>4
      <4>2. QED BY <3>1, <3>3, <4>1, <1>1, <1>15
    <3>4. QED BY <3>2, <3>3
  <2>3. QED BY <2>1, <2>2
<1> HIDE DEF C, now
<1>11. CopiesBounded'
  <2> SUFFICES ASSUME NEW k \in NaturalKeys
               PROVE  copies'[k] <= Explained(k)' + (IF Covered(k)' THEN C ELSE 0)
    BY <1>14 DEF CopiesBounded, C
  <2>1. copies[k] <= Explained(k) + (IF Covered(k) THEN C ELSE 0)
    BY <1>0 DEF CopiesBounded, C
  <2>2. ASSUME Covered(k), k # K \/ plan[r] # "create" PROVE Covered(k)'
    <3>1. CASE k \in known BY <3>1 DEF Covered
    <3>2. CASE k \notin known
      <4>1. PICK q \in Orphans : KeyOf[q] = k BY <2>2, <3>2 DEF Covered
      <4>2. q # r BY <4>1, <2>2 DEF Orphans
      <4>3. q \in Orphans' BY <4>1, <4>2, <1>0, <1>4 DEF Orphans, PlanTyped
      <4>4. QED BY <4>1, <4>3 DEF Covered
    <3>3. QED BY <3>1, <3>2
  <2>3. CASE k # K \/ plan[r] # "create"
    <3>1. copies'[k] = copies[k] BY <2>3, <1>4, <1>5
    <3>2. CASE Covered(k) BY <3>1, <3>2, <2>1, <2>2, <2>3, <1>14, <1>15
    <3>3. CASE ~ Covered(k) BY <3>1, <3>3, <2>1, <1>14, <1>15
    <3>4. QED BY <3>2, <3>3
  <2>4. CASE k = K /\ plan[r] = "create"
    <3>1. copies'[K] <= Explained(K) + (IF r \in applied' THEN now ELSE 0) BY <2>4, <1>19
    <3>2. CASE r \in applied' /\ ~ Lost(r)
      <4>1. r \in Orphans'
        BY <3>2, <2>4, <1>0 DEF Orphans, PlanTyped
      <4>2. Covered(K)' BY <4>1 DEF Covered
      <4>3. QED BY <4>2, <3>1, <3>2, <2>4, <1>1, <1>14, <1>15, <1>17
    <3>3. CASE Lost(r) BY <3>3, <3>1, <2>4, <1>1, <1>14, <1>15, <1>16, <1>17
    <3>4. CASE r \notin applied' BY <3>1, <3>4, <2>4, <1>1, <1>14, <1>15
    <3>5. QED BY <3>2, <3>3, <3>4
  <2>5. QED BY <2>3, <2>4
<1>20. SendingBounded'
  <2> SUFFICES ASSUME NEW q \in Orphans', send'[q] = "sending"
               PROVE  copies'[KeyOf[q]] <= Explained(KeyOf[q])' + Times(q)'
    BY DEF SendingBounded
  <2>1. q \in DOMAIN plan /\ q \in applied' /\ plan[q] = "create"
    BY <1>0, <1>4 DEF Orphans, PlanTyped
  <2>2. KeyOf[q] \in NaturalKeys BY <2>1, <1>0, KeyTyped DEF PlanTyped
  <2>3. CASE q = r
    <3>1. x = "sending" BY <2>3, <2>1, <1>0 DEF PlanTyped
    <3>2. attempt'[r] = attempt[r] + 1 BY <3>1, <1>0 DEF PlanTyped
    <3>3. Times(r)' = now
      <4>1. attempt[r] \in Nat BY <1>0, SendAttemptsAssumption DEF PlanTyped
      <4>2. QED BY <3>2, <4>1 DEF Times, now
    <3>4. copies'[K] <= Explained(K) + now BY <2>1, <2>3, <1>19
    <3>5. QED BY <2>3, <3>3, <3>4, <1>1, <1>15, <1>17
  <2>4. CASE q # r
    <3>1. q \in applied /\ send'[q] = send[q] /\ attempt'[q] = attempt[q]
      BY <2>1, <2>4, <1>0, <1>4 DEF PlanTyped
    <3>2. q \in Orphans BY <3>1, <2>1 DEF Orphans
    <3>3. copies[KeyOf[q]] <= Explained(KeyOf[q]) + Times(q)
      BY <3>1, <3>2, <1>0 DEF SendingBounded
    <3>4. Times(q)' = Times(q) /\ Times(q) \in Int
      <4>1. attempt[q] \in Int BY <2>1, <1>0, SendAttemptsAssumption DEF PlanTyped
      <4>2. QED BY <4>1, <3>1 DEF Times
    <3>5. copies'[KeyOf[q]] = copies[KeyOf[q]]
      <4>1. plan[r] = "create" => KeyOf[q] # K BY <2>1, <2>4, <1>0 DEF PlanIsSound
      <4>2. QED BY <4>1, <2>2, <1>4, <1>5
    <3>6. QED BY <2>2, <3>3, <3>4, <3>5, <1>15
  <2>5. QED BY <2>3, <2>4
<1>12. KnownExists'
  <2> SUFFICES ASSUME NEW k \in known PROVE copies'[k] >= 1
    BY DEF KnownExists
  <2>1. k \in NaturalKeys /\ copies[k] >= 1 BY <1>0 DEF KnownExists, PlanTyped
  <2>2. QED BY <2>1, <1>0, <1>5 DEF PlanTyped
<1>13. QED BY <1>6, <1>7, <1>10, <1>11, <1>12, <1>20 DEF CopyInv, IdleIsEmpty

LEMMA AnswerStep ==
  ASSUME CopyInv, stage = "write", NEW r \in DOMAIN send, UNCHANGED << operation, stage >>,
         \/ Accepted(r) \/ AcceptedWithoutId(r) \/ NotReached(r)
         \/ \E carriedOut \in BOOLEAN : Unclear(r, carriedOut) \/ Unreadable(r, carriedOut)
  PROVE  CopyInv'
<1>0. PlanTyped /\ SentIsSound BY DEF CopyInv
<1>1. r \in DOMAIN plan BY <1>0 DEF PlanTyped
<1>2. send[r] = "sending" /\ plan' = plan /\ known' = known
  BY DEF Accepted, AcceptedWithoutId, NotReached, Unclear, Unreadable
<1>3. send = [send EXCEPT ![r] = "sending"] BY <1>0, <1>2, <1>1 DEF PlanTyped
<1>4. r \in applied => operation \in {"idempotent", "header"} BY <1>0, <1>2 DEF SentIsSound
<1>5. CASE Accepted(r)
  <2>1. send' = [send EXCEPT ![r] = "written"] /\ Apply(r) /\ lost' = lost
        /\ wrote' = wrote \cup {KeyOf[r]} /\ attempt' = attempt
    BY <1>5 DEF Accepted, Settle
  <2>2. r \in applied' BY <2>1 DEF Apply
  <2>3. QED BY <1>1, <1>2, <2>1, <2>2, OneRecord
<1>6. CASE AcceptedWithoutId(r)
  <2>1. send' = [send EXCEPT ![r] = "written"] /\ Apply(r) /\ wrote' = wrote /\ attempt' = attempt
        /\ (plan[r] = "create" => Lost(r)) /\ (plan[r] # "create" => lost' = lost)
    BY <1>6 DEF AcceptedWithoutId, Settle, Lose, Lost
  <2>2. QED BY <1>1, <1>2, <2>1, OneRecord
<1>7. ASSUME NEW reached \in BOOLEAN, RetryOrFail(r, reached), wrote' = wrote,
             UNCHANGED << copies, applied >> \/ (reached /\ Apply(r)),
             Lose(r, ~ Again(r, reached) /\ r \in applied')
      PROVE  CopyInv'
  <2>1. CASE Again(r, reached)
    <3>1. /\ send' = [send EXCEPT ![r] = "sending"]
          /\ attempt[r] < MaxSendAttempts /\ attempt' = [attempt EXCEPT ![r] = @ + 1]
      BY <2>1, <1>3, <1>7 DEF RetryOrFail, Again
    <3>2. lost' = lost BY <2>1, <1>7 DEF Lose
    <3>3. ~ reached \/ operation \in {"idempotent", "header"} BY <2>1 DEF Again, MayRetry
    <3>4. r \in applied' => operation \in {"idempotent", "header"} BY <3>3, <1>4, <1>7
    <3>5. QED BY <1>1, <1>2, <1>7, <3>1, <3>2, <3>4, OneRecord
  <2>2. CASE ~ Again(r, reached)
    <3>1. send' = [send EXCEPT ![r] = "failed"] /\ attempt' = attempt
      BY <2>2, <1>7 DEF RetryOrFail, Settle
    <3>2. /\ plan[r] = "create" /\ r \in applied' => Lost(r)
          /\ ~ (plan[r] = "create" /\ r \in applied') => lost' = lost
      BY <2>2, <1>7 DEF Lose, Lost
    <3>3. QED BY <1>1, <1>2, <1>7, <3>1, <3>2, OneRecord
  <2>3. QED BY <2>1, <2>2
<1>8. CASE NotReached(r)
  BY <1>8, <1>7 DEF NotReached
<1>9. ASSUME NEW carriedOut \in BOOLEAN, Unclear(r, carriedOut) PROVE CopyInv'
  BY <1>9, <1>7 DEF Unclear
<1>10. ASSUME NEW carriedOut \in BOOLEAN, Unreadable(r, carriedOut) PROVE CopyInv'
  <2>1. /\ send' = [send EXCEPT ![r] = "failed"] /\ wrote' = wrote /\ attempt' = attempt
        /\ UNCHANGED << copies, applied >> \/ Apply(r)
    BY <1>10 DEF Unreadable, Settle
  <2>2. /\ plan[r] = "create" /\ r \in applied' => Lost(r)
        /\ ~ (plan[r] = "create" /\ r \in applied') => lost' = lost
    BY <1>10 DEF Unreadable, Lose, Lost
  <2>3. QED BY <1>1, <1>2, <2>1, <2>2, OneRecord
<1>11. QED BY <1>5, <1>6, <1>8, <1>9, <1>10

\* A group that goes out, or a cancel between two groups, concerns records that
\* were not carried out yet.
LEMMA GroupStep ==
  ASSUME CopyInv, stage = "write", UNCHANGED << operation, stage >>,
         StartGroup \/ StopAtBoundary
  PROVE  CopyInv'
<1>0. PlanTyped /\ PlanIsSound /\ SentIsSound /\ CopiesBounded /\ SendingBounded /\ KnownExists
  BY DEF CopyInv
<1>1. UNCHANGED << plan, attempt, wrote, known, copies, applied, lost >>
  BY DEF StartGroup, StopAtBoundary, vendorVars
<1>2. /\ send' \in [DOMAIN plan -> Progress]
      /\ \A r \in DOMAIN plan : send'[r] = send[r] \/ send[r] = "todo"
  <2>1. CASE StartGroup BY <2>1, <1>0 DEF StartGroup, PlanTyped, Progress, Group, InState
  <2>2. CASE StopAtBoundary BY <2>2, <1>0 DEF StopAtBoundary, PlanTyped, Progress
  <2>3. QED BY <2>1, <2>2
<1>3. \A r \in applied : send'[r] = send[r] BY <1>0, <1>2 DEF SentIsSound, PlanTyped
<1>4. PlanTyped' BY <1>0, <1>1, <1>2 DEF PlanTyped
<1>5. PlanIsSound' BY <1>0, <1>1, <1>2 DEF PlanIsSound
<1>6. SentIsSound' BY <1>0, <1>1, <1>3 DEF SentIsSound
<1>7. Orphans' = Orphans BY <1>1, <1>3 DEF Orphans
<1>11. \A k : Explained(k)' = Explained(k) BY <1>1 DEF Explained, CopiesPerCreation
<1>8. CopiesBounded' BY <1>0, <1>1, <1>7, <1>11 DEF CopiesBounded, Covered, CopiesPerCreation
<1>12. SendingBounded'
  BY <1>0, <1>1, <1>3, <1>7, <1>11 DEF SendingBounded, Orphans, Times
<1>9. KnownExists' BY <1>0, <1>1 DEF KnownExists
<1>10. QED BY <1>4, <1>5, <1>6, <1>8, <1>9, <1>12 DEF CopyInv, IdleIsEmpty

-----------------------------------------------------------------------------
(* A batch.                                                                *)

LEMMA PlanStep ==
  ASSUME CopyInv, SupplyInv, SupplyInv', Pass, UNCHANGED operation
  PROVE  CopyInv'
<1>0. PlanTyped /\ IdleIsEmpty /\ CopiesBounded /\ KnownExists BY DEF CopyInv
<1>1. stage = "read" /\ stage' = "write" /\ TakeBatch /\ PlanBatch(NewRows) BY DEF Pass
<1>2. IsFiniteSet(NewRows) BY <1>1, RowsOfBatch
<1>3. NewRows \subseteq Row /\ NewRows \subseteq Nat
  <2>1. \A i \in 1 .. Len(handed') : handed'[i] \in Record BY DEF SupplyInv
  <2>2. Len(handed) \in Nat BY DEF SupplyInv
  <2>3. NewRows \subseteq Record BY <2>1, <2>2 DEF NewRows
  <2>4. QED BY <2>3, SourceKeysAssumption, SourceAssumption DEF Row, Record
<1>4. /\ plan' = [r \in NewRows |-> Decide(NewRows, r)]
      /\ send' = [r \in NewRows |-> IF Decide(NewRows, r) = "duplicate" THEN "skipped" ELSE "todo"]
      /\ attempt' = [r \in NewRows |-> 1]
      /\ wrote' = {} /\ applied' = {} /\ UNCHANGED << known, copies, lost >>
  BY <1>1 DEF PlanBatch
<1>5. \A r \in NewRows :
        /\ Decide(NewRows, r) \in Decision
        /\ Decide(NewRows, r) = "update" => KeyOf[r] \in known
        /\ Decide(NewRows, r) = "create" =>
             KeyOf[r] \notin known /\ \A q \in NewRows : KeyOf[q] = KeyOf[r] => ~ q < r
  BY DEF Decide, Decision
<1>6. PlanTyped'
  <2>1. attempt' \in [NewRows -> 1 .. MaxSendAttempts] BY <1>4, SendAttemptsAssumption
  <2>2. QED BY <2>1, <1>0, <1>2, <1>3, <1>4, <1>5 DEF PlanTyped, Progress
<1>7. PlanIsSound'
  <2>1. ASSUME NEW q \in NewRows, NEW r \in NewRows, plan'[q] = "create", plan'[r] = "create",
               KeyOf[q] = KeyOf[r]
        PROVE  q = r
    <3>1. ~ q < r /\ ~ r < q BY <2>1, <1>4, <1>5
    <3>2. QED BY <3>1, <1>3
  <2>2. QED BY <2>1, <1>4, <1>5 DEF PlanIsSound
<1>8. SentIsSound' BY <1>4 DEF SentIsSound
<1>9. CopiesBounded'
  <2>1. Orphans = {} /\ Orphans' = {} BY <1>0, <1>1, <1>4 DEF IdleIsEmpty, Orphans
  <2>2. QED BY <2>1, <1>0, <1>4 DEF CopiesBounded, Covered, Explained, CopiesPerCreation
<1>12. SendingBounded' BY <1>4 DEF SendingBounded, Orphans
<1>10. KnownExists' BY <1>0, <1>4 DEF KnownExists
<1>11. QED BY <1>1, <1>6, <1>7, <1>8, <1>9, <1>10, <1>12 DEF CopyInv, IdleIsEmpty

LEMMA EmptyPlan ==
  ASSUME PlanTyped, plan' = NoRows, send' = NoRows, attempt' = NoRows, wrote' = {}, applied' = {},
         known' \subseteq NaturalKeys, copies' = copies, lost' \in [NaturalKeys -> Nat]
  PROVE  /\ PlanTyped' /\ IdleIsEmpty' /\ PlanIsSound' /\ SentIsSound' /\ SendingBounded'
         /\ Orphans' = {}
<1>1. DOMAIN plan' = {} /\ plan' \in [{} -> Decision] /\ send' \in [{} -> Progress]
      /\ attempt' \in [{} -> 1 .. MaxSendAttempts]
  BY DEF NoRows
<1>2. QED BY <1>1, FS_EmptySet
  DEF PlanTyped, IdleIsEmpty, PlanIsSound, SentIsSound, SendingBounded, Orphans

LEMMA RememberStep ==
  ASSUME CopyInv, Remember, UNCHANGED operation
  PROVE  CopyInv'
<1>0. PlanTyped /\ SentIsSound /\ CopiesBounded /\ KnownExists BY DEF CopyInv
<1>1. known' = known \cup wrote /\ copies' = copies /\ lost' = lost
  BY DEF Remember
<1>2. PlanTyped' /\ IdleIsEmpty' /\ PlanIsSound' /\ SentIsSound' /\ SendingBounded' /\ Orphans' = {}
  <2>1. known' \subseteq NaturalKeys /\ lost' \in [NaturalKeys -> Nat] BY <1>0, <1>1 DEF PlanTyped
  <2>2. QED BY <2>1, <1>0, <1>1, EmptyPlan DEF Remember, ForgetBatch
<1>3. CopiesBounded'
  <2> SUFFICES ASSUME NEW k \in NaturalKeys
               PROVE  copies'[k] <= Explained(k)' + (IF Covered(k)' THEN CopiesPerCreation ELSE 0)
    BY DEF CopiesBounded, CopiesPerCreation
  <2>1. Covered(k) => k \in known'
    <3>1. \A r \in Orphans : KeyOf[r] \in wrote
      BY <1>0 DEF Remember, BatchSent, InState, Orphans, PlanTyped
    <3>2. QED BY <3>1, <1>1 DEF Covered
  <2>2. copies[k] <= Explained(k) + (IF Covered(k) THEN CopiesPerCreation ELSE 0)
    BY <1>0 DEF CopiesBounded
  <2>3. Explained(k)' = Explained(k) BY <1>1 DEF Explained, CopiesPerCreation
  <2>4. copies[k] \in Nat /\ Explained(k) \in Nat
    BY <1>0, <1>2, <1>1, ExplainedGrows DEF PlanTyped
  <2>5. QED BY <2>1, <2>2, <2>3, <2>4, <1>1, PerCreation DEF Covered
<1>4. KnownExists' BY <1>0, <1>1 DEF KnownExists, SentIsSound
<1>5. QED BY <1>2, <1>3, <1>4 DEF CopyInv

\* What is given up is counted as lost, key by key.
LEMMA GiveUpStep ==
  ASSUME CopyInv, GiveUpBatch, UNCHANGED operation
  PROVE  CopyInv'
<1>0. PlanTyped /\ CopiesBounded /\ KnownExists BY DEF CopyInv
<1> DEFINE Of(k) == { r \in Orphans : KeyOf[r] = k }
<1>1. \A k \in NaturalKeys : Cardinality(Of(k)) \in Nat /\ (Of(k) # {} => Cardinality(Of(k)) >= 1)
  <2> SUFFICES ASSUME NEW k \in NaturalKeys
               PROVE  Cardinality(Of(k)) \in Nat /\ (Of(k) # {} => Cardinality(Of(k)) >= 1)
    OBVIOUS
  <2>1. Of(k) \subseteq DOMAIN plan /\ IsFiniteSet(DOMAIN plan) BY <1>0 DEF PlanTyped, Orphans
  <2>2. IsFiniteSet(Of(k)) BY <2>1, FS_Subset
  <2> HIDE DEF Of
  <2>3. Cardinality(Of(k)) \in Nat BY <2>2, FS_CardinalityType
  <2>4. Of(k) # {} => Cardinality(Of(k)) # 0 BY <2>2, FS_EmptySet
  <2>5. QED BY <2>3, <2>4
<1>2. /\ lost' = [k \in NaturalKeys |-> lost[k] + Cardinality(Of(k))]
      /\ known' = known /\ copies' = copies
  BY DEF GiveUpBatch
<1>3. lost' \in [NaturalKeys -> Nat] BY <1>0, <1>1, <1>2 DEF PlanTyped
<1>4. PlanTyped' /\ IdleIsEmpty' /\ PlanIsSound' /\ SentIsSound' /\ SendingBounded' /\ Orphans' = {}
  BY <1>0, <1>2, <1>3, EmptyPlan DEF GiveUpBatch, ForgetBatch, PlanTyped
<1>5. CopiesBounded'
  <2> SUFFICES ASSUME NEW k \in NaturalKeys
               PROVE  copies'[k] <= Explained(k)' + (IF Covered(k)' THEN CopiesPerCreation ELSE 0)
    BY DEF CopiesBounded, CopiesPerCreation
  <2>1. copies[k] <= Explained(k) + (IF Covered(k) THEN CopiesPerCreation ELSE 0)
        /\ copies[k] \in Nat /\ lost[k] \in Nat
    BY <1>0 DEF CopiesBounded, PlanTyped
  <2>2. Covered(k) => k \in known \/ Of(k) # {} BY DEF Covered
  <2>3. lost'[k] = lost[k] + Cardinality(Of(k)) BY <1>2
  <2>4. k \in known => Covered(k)' BY <1>2 DEF Covered
  <2> HIDE DEF Of
  <2>5. lost'[k] >= lost[k] /\ (Of(k) # {} => lost'[k] > lost[k]) BY <2>1, <2>3, <1>1
  <2>6. /\ Explained(k) \in Nat /\ Explained(k)' \in Nat /\ Explained(k)' >= Explained(k)
        /\ Of(k) # {} => Explained(k)' >= Explained(k) + CopiesPerCreation
    BY <2>5, <1>0, <1>3, ExplainedGrows DEF PlanTyped
  <2>7. QED BY <2>1, <2>2, <2>4, <2>6, <1>2, PerCreation
<1>6. KnownExists' BY <1>0, <1>2 DEF KnownExists
<1>7. QED BY <1>4, <1>5, <1>6 DEF CopyInv

-----------------------------------------------------------------------------
(* The run.                                                                *)

copyVars == << plan, send, attempt, applied, wrote, known, copies, lost, operation >>

\* Steps that leave the batch, the keys and the vendor alone.
LEMMA QuietStep ==
  ASSUME CopyInv, UNCHANGED copyVars,
         stage' = "write" => stage = "write",
         stage' # "write" => stage' = stage \/ stage # "write"
  PROVE  CopyInv'
<1>1. Orphans' = Orphans BY DEF Orphans, copyVars
<1>2. /\ \A k : Explained(k)' = Explained(k) /\ Covered(k)' = Covered(k)
      /\ \A r : Times(r)' = Times(r)
      /\ CopiesPerCreation' = CopiesPerCreation
  BY <1>1 DEF Explained, CopiesPerCreation, Times, Covered, copyVars
<1>3. CopiesBounded' /\ SendingBounded'
  BY <1>1, <1>2 DEF CopyInv, CopiesBounded, SendingBounded, copyVars
<1>4. QED BY <1>3
  DEF CopyInv, copyVars, PlanTyped, IdleIsEmpty, PlanIsSound, SentIsSound, KnownExists

LEMMA CopyStep == SupplyInv /\ SupplyInv' /\ CopyInv /\ [SyncNext]_syncVars => CopyInv'
<1> SUFFICES ASSUME SupplyInv, SupplyInv', CopyInv, [SyncNext]_syncVars PROVE CopyInv'
  OBVIOUS
<1>0. UNCHANGED operation BY DEF SyncNext, syncVars, writeVars
<1>1. CASE Fetch BY <1>1, QuietStep DEF Fetch, writeVars, copyVars
<1>2. CASE Pass BY <1>0, <1>2, PlanStep
<1>3. CASE CancelSeen BY <1>3, QuietStep DEF CancelSeen, writeVars, copyVars
<1>4. CASE LoopEnds BY <1>4, QuietStep DEF LoopEnds, writeVars, copyVars
<1>5. CASE Write
  <2>1. stage = "write" /\ UNCHANGED << operation, stage >> BY <1>0, <1>5 DEF Write
  <2>2. WriteStep BY <1>5 DEF Write
  <2>3. QED BY <2>1, <2>2, AnswerStep, GroupStep DEF WriteStep
<1>6. CASE BatchEnds BY <1>0, <1>6, RememberStep DEF BatchEnds
<1>7. CASE Cancels BY <1>0, <1>7, QuietStep DEF Cancels, AskToStop, vendorVars, copyVars
<1>8. CASE ReadFails BY <1>0, <1>8, QuietStep DEF ReadFails, vendorVars, copyVars
<1>9. CASE RunBreaks BY <1>0, <1>9, GiveUpStep DEF RunBreaks
<1>10. CASE RunAgain BY <1>0, <1>10, QuietStep DEF RunAgain, vendorVars, copyVars
<1>11. CASE UNCHANGED syncVars BY <1>11, QuietStep DEF syncVars, writeVars, copyVars
<1>12. QED
  BY <1>1, <1>2, <1>3, <1>4, <1>5, <1>6, <1>7, <1>8, <1>9, <1>10, <1>11 DEF SyncNext

LEMMA CopyInvariant == SyncSpec => []CopyInv
  BY CopyInitially, CopyStep, SupplyInvariant, PTL DEF SyncSpec

\* No pair of records in one batch and no later batch or run creates a record
\* again, and no retry does but that of an operation that names a header it does
\* not send; what exists beyond that stands for an answer that was lost.
THEOREM CopiesAreExplained == SyncSpec => []NoUnexplainedCopy
<1>1. CopyInv => NoUnexplainedCopy
  <2> SUFFICES ASSUME CopyInv, NEW k \in NaturalKeys
               PROVE  copies[k] <= CopiesPerCreation * (1 + lost[k])
    BY DEF NoUnexplainedCopy
  <2>1. copies[k] <= Explained(k) + (IF Covered(k) THEN CopiesPerCreation ELSE 0)
        /\ copies[k] \in Nat /\ lost[k] \in Nat
    BY DEF CopyInv, CopiesBounded, PlanTyped
  <2>2. /\ CopiesPerCreation * lost[k] \in Nat
        /\ CopiesPerCreation * (1 + lost[k]) = CopiesPerCreation * lost[k] + CopiesPerCreation
    <3>1. CopiesPerCreation * (lost[k] + 1) = CopiesPerCreation * lost[k] + CopiesPerCreation * 1
          /\ CopiesPerCreation * lost[k] \in Nat
      BY <2>1, PerCreation, TimesMore
    <3>2. 1 + lost[k] = lost[k] + 1 /\ CopiesPerCreation * 1 = CopiesPerCreation
      BY <2>1, PerCreation
    <3>3. QED BY <3>1, <3>2
  <2>3. QED BY <2>1, <2>2, PerCreation DEF Explained
<1>2. QED BY <1>1, CopyInvariant, PTL

\* A key is remembered only of a record the vendor has.
THEOREM KeysAreOfRecords == SyncSpec => []KnownExists
<1>1. CopyInv => KnownExists BY DEF CopyInv
<1>2. QED BY <1>1, CopyInvariant, PTL

-----------------------------------------------------------------------------
(* Types.                                                                  *)

\* What the invariants above say nothing of: tries and bounds.
RestTyped ==
  /\ operation \in Operations
  /\ attempt \in [DOMAIN plan -> 1 .. MaxSendAttempts]
  /\ cancelled \in BOOLEAN /\ mishaps \in 0 .. MaxMishaps
  /\ passes \in 0 .. MaxPasses /\ runs \in 1 .. MaxSyncRuns

LEMMA MishapTyped == ASSUME mishaps \in 0 .. MaxMishaps, Mishap PROVE mishaps' \in 0 .. MaxMishaps
  BY MishapAssumption DEF Mishap

LEMMA RestInitially == SyncInit => RestTyped
<1> SUFFICES ASSUME SyncInit PROVE RestTyped
  OBVIOUS
<1>1. attempt \in [DOMAIN plan -> 1 .. MaxSendAttempts] BY DEF SyncInit, WriteInit, NoRows
<1>2. mishaps \in 0 .. MaxMishaps BY MishapAssumption DEF SyncInit, WriteInit
<1>3. passes \in 0 .. MaxPasses /\ runs \in 1 .. MaxSyncRuns
  BY PassAssumption, RunsAssumption DEF SyncInit
<1> QED BY <1>1, <1>2, <1>3 DEF SyncInit, WriteInit, RestTyped

LEMMA NoAttempts ==
  ASSUME ForgetBatch PROVE attempt' \in [DOMAIN plan' -> 1 .. MaxSendAttempts]
  BY DEF ForgetBatch, NoRows

\* A request is tried again only below the bound.
LEMMA RetryTyped ==
  ASSUME RestTyped, NEW r, NEW reached, RetryOrFail(r, reached), plan' = plan
  PROVE  attempt' \in [DOMAIN plan' -> 1 .. MaxSendAttempts]
<1>1. CASE Again(r, reached)
  <2>1. attempt' = [attempt EXCEPT ![r] = @ + 1] /\ attempt[r] < MaxSendAttempts
    BY <1>1 DEF RetryOrFail, Again
  <2>2. r \in DOMAIN plan => attempt[r] + 1 \in 1 .. MaxSendAttempts
    BY <2>1, SendAttemptsAssumption DEF RestTyped
  <2> QED BY <2>1, <2>2 DEF RestTyped
<1>2. CASE ~ Again(r, reached) BY <1>2 DEF RetryOrFail, RestTyped
<1> QED BY <1>1, <1>2

LEMMA WriteRest ==
  ASSUME RestTyped, WriteStep, UNCHANGED << operation, passes, runs >>
  PROVE  RestTyped'
<1> SUFFICES /\ attempt' \in [DOMAIN plan' -> 1 .. MaxSendAttempts]
             /\ cancelled' = cancelled /\ mishaps' \in 0 .. MaxMishaps
  BY DEF RestTyped
<1>1. CASE StartGroup \/ StopAtBoundary BY <1>1 DEF StartGroup, StopAtBoundary, RestTyped
<1>2. ASSUME NEW r \in DOMAIN send,
             \/ Accepted(r) \/ AcceptedWithoutId(r) \/ NotReached(r)
             \/ \E carriedOut \in BOOLEAN : Unclear(r, carriedOut) \/ Unreadable(r, carriedOut)
      PROVE  /\ attempt' \in [DOMAIN plan' -> 1 .. MaxSendAttempts]
             /\ cancelled' = cancelled /\ mishaps' \in 0 .. MaxMishaps
  <2>1. CASE Accepted(r) BY <2>1 DEF Accepted, RestTyped
  <2>2. CASE AcceptedWithoutId(r) BY <2>2, MishapTyped DEF AcceptedWithoutId, RestTyped
  <2>3. CASE NotReached(r) BY <2>3, MishapTyped, RetryTyped DEF NotReached, RestTyped
  <2>4. ASSUME NEW carriedOut \in BOOLEAN, Unclear(r, carriedOut)
        PROVE  /\ attempt' \in [DOMAIN plan' -> 1 .. MaxSendAttempts]
               /\ cancelled' = cancelled /\ mishaps' \in 0 .. MaxMishaps
    BY <2>4, MishapTyped, RetryTyped DEF Unclear, RestTyped
  <2>5. ASSUME NEW carriedOut \in BOOLEAN, Unreadable(r, carriedOut)
        PROVE  /\ attempt' \in [DOMAIN plan' -> 1 .. MaxSendAttempts]
               /\ cancelled' = cancelled /\ mishaps' \in 0 .. MaxMishaps
    BY <2>5, MishapTyped DEF Unreadable, RestTyped
  <2> QED BY <1>2, <2>1, <2>2, <2>3, <2>4, <2>5
<1> QED BY <1>1, <1>2 DEF WriteStep

LEMMA RestStep == RestTyped /\ [SyncNext]_syncVars => RestTyped'
<1> SUFFICES ASSUME RestTyped, [SyncNext]_syncVars PROVE RestTyped'
  OBVIOUS
<1>0. UNCHANGED operation BY DEF SyncNext, syncVars, writeVars
<1>1. CASE Fetch BY <1>1 DEF Fetch, writeVars, RestTyped
<1>2. CASE Pass
  <2>1. passes' \in 0 .. MaxPasses /\ runs' = runs BY <1>2, PassAssumption DEF Pass, RestTyped
  <2>2. attempt' = [r \in NewRows |-> 1] /\ DOMAIN plan' = NewRows /\ UNCHANGED << cancelled, mishaps >>
    BY <1>2 DEF Pass, PlanBatch
  <2>3. attempt' \in [DOMAIN plan' -> 1 .. MaxSendAttempts] BY <2>2, SendAttemptsAssumption
  <2> QED BY <1>0, <2>1, <2>2, <2>3 DEF RestTyped
<1>3. CASE CancelSeen BY <1>3 DEF CancelSeen, writeVars, RestTyped
<1>4. CASE LoopEnds BY <1>4 DEF LoopEnds, writeVars, RestTyped
<1>5. CASE Write BY <1>0, <1>5, WriteRest DEF Write
<1>6. CASE BatchEnds BY <1>0, <1>6, NoAttempts DEF BatchEnds, Remember, RestTyped
<1>7. CASE Cancels BY <1>0, <1>7, MishapTyped DEF Cancels, AskToStop, RestTyped
<1>8. CASE ReadFails BY <1>0, <1>8, MishapTyped DEF ReadFails, RestTyped
<1>9. CASE RunBreaks BY <1>0, <1>9, MishapTyped, NoAttempts DEF RunBreaks, GiveUpBatch, RestTyped
<1>10. CASE RunAgain
  <2>1. UNCHANGED << plan, attempt, mishaps >> /\ cancelled' = FALSE BY <1>10 DEF RunAgain
  <2>2. passes' \in 0 .. MaxPasses BY <1>10, PassAssumption DEF RunAgain
  <2>3. runs' \in 1 .. MaxSyncRuns BY <1>10, RunsAssumption DEF RunAgain, RestTyped
  <2> QED BY <1>0, <2>1, <2>2, <2>3 DEF RestTyped
<1>11. CASE UNCHANGED syncVars BY <1>11 DEF syncVars, writeVars, RestTyped
<1> QED
  BY <1>1, <1>2, <1>3, <1>4, <1>5, <1>6, <1>7, <1>8, <1>9, <1>10, <1>11 DEF SyncNext

\* The walk, the batch with its tries, the keys, the vendor and the counters keep
\* their types; no request is tried more often than the node allows.
THEOREM SyncTypeCorrect == SyncSpec => []SyncTypeOK
<1>1. SupplyInv => ReadTypeOK BY DEF SupplyInv, Good, ReadTypeOK
<1>2. CountInv /\ CopyInv /\ RestTyped => WriteTypeOK
  BY DEF CountInv, CopyInv, PlanTyped, RestTyped, WriteTypeOK
<1>3. ReadTypeOK /\ WriteTypeOK /\ CountInv /\ RestTyped => SyncTypeOK
  BY DEF CountInv, RestTyped, SyncTypeOK
<1>4. SyncSpec => []CountInv BY CountInitially, CountStep, SupplyInvariant, PTL DEF SyncSpec
<1>5. SyncSpec => []RestTyped BY RestInitially, RestStep, PTL DEF SyncSpec
<1> QED BY <1>1, <1>2, <1>3, <1>4, <1>5, SupplyInvariant, CopyInvariant, PTL
=============================================================================
