--------------------------- MODULE ChatFlowProofs ---------------------------
(***************************************************************************)
(* A conversation keeps one place and its scopes apart, for any flows an   *)
(* operator may save, any depth, hop limit and number of messages, edits   *)
(* and deaths, while the visitor sends one message at a time.              *)
(***************************************************************************)
EXTENDS ChatFlow, TLAPS

\* A graph of a flow as somebody saved it, or of a flow that is gone.
Picture(g, f) == g = << >> \/ \E i \in DOMAIN Saves[f] : g = Saves[f][i].graph
Drawing(d)    == DOMAIN d = Flow /\ \A f \in Flow : Picture(d[f], f)

\* The stack fits together; what it says of the current block is left open.
Framed(s) ==
  /\ s \in Session
  /\ Depth(s) <= MaxCallDepth
  /\ \A i \in 1 .. Depth(s) : s.stack[i].back \in BlocksOf[FlowAt(s, i - 1)]
  /\ \A i, j \in 0 .. Depth(s) : FlowAt(s, i) = FlowAt(s, j) => i = j
  /\ Apart(s)
OnItsFlow(s) == s.status = "active" => s.node \in BlocksOf[Place(s)]
GoodRow(s)   == Framed(s) /\ OnItsFlow(s)
GoodOut(o)   == GoodRow(o.s) /\ o.over \in BOOLEAN /\ o.says \in BOOLEAN

LEMMA GoodRowIs == ASSUME NEW s PROVE GoodRow(s) <=> s \in Session /\ Sound(s) /\ Apart(s)
  BY DEF GoodRow, Framed, OnItsFlow, Sound

LEMMA SavedGraph ==
  ASSUME NEW f \in Flow, NEW i \in DOMAIN Saves[f], NEW n \in DOMAIN Saves[f][i].graph
  PROVE  LET g == Saves[f][i].graph
         IN  /\ n \in BlocksOf[f] /\ n \in Block
             /\ \A p \in DOMAIN g[n].out : g[n].out[p] \in DOMAIN g
             /\ g[n].stores \in Name \cup {Nothing}
             /\ g[n].calls \in Flow \cup {Nothing}
             /\ g[n].inputs \subseteq (Name \cup {Nothing}) \X Name
             /\ g[n].outputs \subseteq Name \X Name
<1>1. n \in BlocksOf[f] /\ n \in Block BY DEF BlocksOf, Block
<1>2. QED BY <1>1, ChatAssumption, ZenonT(30)

LEMMA PictureFacts ==
  ASSUME NEW f \in Flow, NEW g, Picture(g, f), NEW n \in DOMAIN g
  PROVE  /\ n \in BlocksOf[f] /\ n \in Block
         /\ \A p \in DOMAIN g[n].out : g[n].out[p] \in DOMAIN g
         /\ g[n].stores \in Name \cup {Nothing}
         /\ g[n].calls \in Flow \cup {Nothing}
         /\ g[n].inputs \subseteq (Name \cup {Nothing}) \X Name
         /\ g[n].outputs \subseteq Name \X Name
<1>1. g # << >> BY DEF Picture
<1>2. PICK i \in DOMAIN Saves[f] : g = Saves[f][i].graph BY <1>1 DEF Picture
<1>3. QED BY <1>2, SavedGraph

\* A saved graph has a start block.
LEMMA StartFacts ==
  ASSUME NEW f \in Flow, NEW i \in DOMAIN Saves[f]
  PROVE  StartOf(Saves[f][i].graph) \in DOMAIN Saves[f][i].graph
  BY ChatAssumption DEF StartOf

-----------------------------------------------------------------------------
(* What a step does to the row.                                             *)

LEMMA FlowAtTyped ==
  ASSUME NEW s \in Session, NEW d \in 0 .. Depth(s)
  PROVE  FlowAt(s, d) \in Flow
<1>1. s.stack \in Seq(Frame) BY DEF Session
<1>2. d # 0 => s.stack[d] \in Frame BY <1>1 DEF Depth
<1>3. QED BY <1>2, ChatAssumption DEF FlowAt, Frame

LEMMA PlaceTyped == ASSUME NEW s \in Session PROVE Place(s) \in Flow /\ Depth(s) \in Nat
<1>1. Depth(s) \in Nat BY DEF Depth, Session
<1>2. QED BY <1>1, FlowAtTyped DEF Place

\* Rows that differ in status, block, results and open question only.
LEMMA SameFrames ==
  ASSUME NEW s, Framed(s), NEW u \in Session,
         u.stack = s.stack, u.scope = s.scope, u.told = s.told
  PROVE  Framed(u) /\ Place(u) = Place(s)
  BY DEF Framed, Apart, FlowAt, Depth, Place

LEMMA MoveGood ==
  ASSUME NEW s, Framed(s), NEW m \in BlocksOf[Place(s)]
  PROVE  GoodRow([s EXCEPT !.node = m]) /\ Place([s EXCEPT !.node = m]) = Place(s)
<1> DEFINE u == [s EXCEPT !.node = m]
<1>1. s \in Session BY DEF Framed
<1>2. m \in Block BY <1>1, PlaceTyped DEF Block
<1>3. u \in Session /\ u.stack = s.stack /\ u.scope = s.scope /\ u.told = s.told /\ u.node = m
  BY <1>1, <1>2 DEF Session
<1>4. Framed(u) /\ Place(u) = Place(s) BY <1>3, SameFrames
<1>5. QED BY <1>3, <1>4 DEF GoodRow, OnItsFlow

LEMMA EndGood ==
  ASSUME NEW s, Framed(s)
  PROVE  /\ GoodRow([s EXCEPT !.status = "completed"])
         /\ GoodOut(EndOfFlow(s)) /\ GoodOut(Say(EndOfFlow(s).s))
<1> DEFINE u == [s EXCEPT !.status = "completed"]
<1>1. s \in Session BY DEF Framed
<1>2. /\ u \in Session /\ u.stack = s.stack /\ u.scope = s.scope /\ u.told = s.told
      /\ u.status = "completed"
  BY <1>1 DEF Session
<1>3. Framed(u) BY <1>2, SameFrames
<1>4. GoodRow(u) BY <1>2, <1>3 DEF GoodRow, OnItsFlow
<1>5. QED BY <1>4 DEF GoodOut, EndOfFlow, Say

LEMMA AdvanceStaysGood ==
  ASSUME NEW s, Framed(s), NEW g, Picture(g, Place(s)), NEW n \in DOMAIN g, NEW port
  PROVE  GoodOut(AdvanceOrComplete(s, g, n, port))
<1>1. Place(s) \in Flow BY PlaceTyped DEF Framed
<1>2. CASE port \in DOMAIN g[n].out
  <2>1. g[n].out[port] \in BlocksOf[Place(s)] BY <1>1, <1>2, PictureFacts
  <2>2. GoodRow([s EXCEPT !.node = g[n].out[port]]) BY <2>1, MoveGood
  <2>3. QED BY <2>2, <1>2 DEF AdvanceOrComplete, GoodOut, GoOn
<1>3. CASE port \notin DOMAIN g[n].out
  <2>1. n \in BlocksOf[Place(s)] BY <1>1, PictureFacts
  <2>2. Framed([s EXCEPT !.node = n]) BY <2>1, MoveGood DEF GoodRow
  <2>3. QED BY <2>2, <1>3, EndGood DEF AdvanceOrComplete
<1>4. QED BY <1>2, <1>3

\* What a block leaves besides the position.
LEMMA StoreGood ==
  ASSUME NEW s, Framed(s), NEW b, b.stores \in Name \cup {Nothing}
  PROVE  /\ Framed(Store(s, b)) /\ Place(Store(s, b)) = Place(s)
         /\ Store(s, b).node = s.node /\ Store(s, b).status = s.status
         /\ Depth(Store(s, b)) = Depth(s)
<1>1. CASE b.stores = Nothing BY <1>1 DEF Store
<1>2. CASE b.stores # Nothing
  <2> DEFINE u == Store(s, b)
             p == Place(s)
  <2>1. s \in Session /\ p \in Flow /\ b.stores \in Name
    BY <1>2, PlaceTyped DEF Framed
  <2> DEFINE T == [s.told EXCEPT ![p] = @ \cup {b.stores}]
             X == s.scope \cup {b.stores}
  <2>2. u = [s EXCEPT !.scope = X, !.told = T]
    BY <1>2, <2>1 DEF Store, Session
  <2>11. X \in SUBSET Name /\ T \in [Flow -> SUBSET Name] BY <2>1 DEF Session
  <2>3. /\ u \in Session /\ u.stack = s.stack /\ u.node = s.node /\ u.status = s.status
        /\ u.scope = s.scope \cup {b.stores} /\ u.told[p] = s.told[p] \cup {b.stores}
        /\ \A f \in Flow \ {p} : u.told[f] = s.told[f]
    <3>1. T[p] = s.told[p] \cup {b.stores} /\ \A f \in Flow \ {p} : T[f] = s.told[f]
      BY <2>1 DEF Session
    <3> HIDE DEF T, X
    <3>2. u \in Session /\ u.stack = s.stack /\ u.node = s.node /\ u.status = s.status
          /\ u.scope = X /\ u.told = T
      BY <2>1, <2>2, <2>11 DEF Session
    <3>3. QED BY <3>1, <3>2 DEF X
  <2>4. /\ Depth(u) = Depth(s) /\ Place(u) = p
        /\ \A d \in 0 .. Depth(s) : FlowAt(u, d) = FlowAt(s, d)
    BY <2>3 DEF Depth, Place, FlowAt
  <2>5. u.scope = u.told[Place(u)] BY <2>3, <2>4 DEF Framed, Apart
  <2>6. ASSUME NEW i \in 1 .. Depth(s) PROVE u.stack[i].scope = u.told[FlowAt(u, i - 1)]
    <3>1. Depth(s) \in Nat BY <2>1, PlaceTyped
    <3>2. i - 1 \in 0 .. Depth(s) /\ Depth(s) \in 0 .. Depth(s) /\ i - 1 # Depth(s) BY <3>1
    <3>3. FlowAt(s, i - 1) \in Flow /\ FlowAt(s, i - 1) # p
      BY <2>1, <3>2, FlowAtTyped DEF Framed, Place
    <3>4. QED BY <2>3, <2>4, <3>2, <3>3 DEF Framed, Apart
  <2>7. Apart(u) BY <2>4, <2>5, <2>6 DEF Apart
  <2>8. Framed(u)
    <3>1. Depth(s) \in Nat BY <2>1, PlaceTyped
    <3>2. \A i \in 1 .. Depth(s) : i - 1 \in 0 .. Depth(s) BY <3>1
    <3>3. QED BY <2>3, <2>4, <2>7, <3>2 DEF Framed
  <2>9. QED BY <2>3, <2>4, <2>8
<1>3. QED BY <1>1, <1>2

LEMMA MadeGood ==
  ASSUME NEW s, Framed(s), NEW n \in Block
  PROVE  /\ Framed(Made(s, n)) /\ Place(Made(s, n)) = Place(s) /\ Made(s, n).node = s.node
         /\ Made(s, n).status = s.status
<1>1. s \in Session BY DEF Framed
<1>2. /\ Made(s, n) \in Session /\ Made(s, n).stack = s.stack /\ Made(s, n).scope = s.scope
      /\ Made(s, n).told = s.told /\ Made(s, n).node = s.node /\ Made(s, n).status = s.status
  BY <1>1 DEF Made, Session
<1>3. QED BY <1>2, SameFrames

LEMMA AsksGood ==
  ASSUME NEW s, Framed(s), NEW a \in BOOLEAN
  PROVE  LET u == [s EXCEPT !.asks = a]
         IN  /\ Framed(u) /\ Place(u) = Place(s) /\ u.node = s.node /\ u.status = s.status
             /\ (OnItsFlow(s) => OnItsFlow(u))
<1> DEFINE u == [s EXCEPT !.asks = a]
<1>1. s \in Session BY DEF Framed
<1>2. /\ u \in Session /\ u.stack = s.stack /\ u.scope = s.scope /\ u.told = s.told
      /\ u.node = s.node /\ u.status = s.status
  BY <1>1 DEF Session
<1>3. Framed(u) /\ Place(u) = Place(s) BY <1>2, SameFrames
<1>4. QED BY <1>2, <1>3 DEF OnItsFlow

LEMMA BringTyped ==
  ASSUME NEW O \in SUBSET (Name \X Name), NEW X
  PROVE  Brought(O, X) \subseteq Name
<1>1. \A o \in O : o[2] \in Name OBVIOUS
<1>2. QED BY <1>1 DEF Brought

LEMMA InputsTyped ==
  ASSUME NEW b, b.inputs \subseteq (Name \cup {Nothing}) \X Name, NEW X
  PROVE  ResolveInputs(b, X) \subseteq Name
<1>1. \A o \in b.inputs : o[2] \in Name OBVIOUS
<1>2. QED BY <1>1 DEF ResolveInputs

\* The stack with a frame more, and with one less.
OneMoreFrame(u, s, fr) ==
  /\ Depth(s) \in Nat /\ Depth(u) = Depth(s) + 1 /\ Place(u) = fr.flow
  /\ u.stack[Depth(s) + 1] = fr
  /\ \A i \in 1 .. Depth(s) : u.stack[i] = s.stack[i]
  /\ \A d \in 0 .. Depth(s) : FlowAt(u, d) = FlowAt(s, d)

OneLess(u, s) ==
  /\ Depth(s) \in Nat \ {0} /\ Depth(u) = Depth(s) - 1
  /\ s.stack[Depth(s)] \in Frame /\ s.stack[Depth(s)].flow = Place(s)
  /\ Place(u) = FlowAt(s, Depth(s) - 1)
  /\ \A i \in 1 .. Depth(u) : u.stack[i] = s.stack[i]
  /\ \A d \in 0 .. Depth(u) : FlowAt(u, d) = FlowAt(s, d)

LEMMA Pushed ==
  ASSUME NEW s \in Session, NEW u \in Session, NEW fr \in Frame, u.stack = Append(s.stack, fr)
  PROVE  OneMoreFrame(u, s, fr)
<1>1. s.stack \in Seq(Frame) /\ u.stack \in Seq(Frame) BY DEF Session
<1>2. /\ Len(u.stack) = Len(s.stack) + 1 /\ Len(s.stack) \in Nat
      /\ u.stack[Len(s.stack) + 1] = fr
      /\ \A i \in 1 .. Len(s.stack) : u.stack[i] = s.stack[i]
  BY <1>1
<1>3. QED BY <1>2 DEF OneMoreFrame, Depth, Place, FlowAt

LEMMA Popped ==
  ASSUME NEW s \in Session, InSubflow(s), NEW u \in Session,
         u.stack = SubSeq(s.stack, 1, Depth(s) - 1)
  PROVE  OneLess(u, s)
<1>1. s.stack \in Seq(Frame) /\ s.stack # << >> BY DEF Session, InSubflow
<1>2. Len(s.stack) \in Nat \ {0} BY <1>1
<1>3. /\ Len(u.stack) = Len(s.stack) - 1
      /\ \A i \in 1 .. Len(s.stack) - 1 : u.stack[i] = s.stack[i]
  BY <1>1, <1>2 DEF Depth
<1>4. s.stack[Len(s.stack)] \in Frame BY <1>1, <1>2
<1>5. \A d \in 0 .. Len(s.stack) - 1 : FlowAt(u, d) = FlowAt(s, d)
  <2> TAKE d \in 0 .. Len(s.stack) - 1
  <2>1. d = 0 \/ d \in 1 .. Len(s.stack) - 1 BY <1>2
  <2>2. QED BY <1>3, <2>1 DEF FlowAt
<1>6. Place(u) = FlowAt(s, Len(s.stack) - 1) /\ Place(s) = s.stack[Len(s.stack)].flow
  <2>1. Len(s.stack) - 1 \in 0 .. Len(s.stack) - 1 /\ Len(s.stack) # 0 BY <1>2
  <2>2. FlowAt(u, Len(s.stack) - 1) = FlowAt(s, Len(s.stack) - 1) BY <1>5, <2>1
  <2>3. FlowAt(s, Len(s.stack)) = s.stack[Len(s.stack)].flow BY <2>1 DEF FlowAt
  <2>4. Place(u) = FlowAt(u, Len(s.stack) - 1) BY <1>3 DEF Place, Depth
  <2>5. QED BY <2>2, <2>3, <2>4 DEF Place, Depth
<1>7. QED BY <1>2, <1>3, <1>4, <1>5, <1>6 DEF OneLess, Depth

LEMMA PushGood ==
  ASSUME NEW s, Framed(s), NEW f \in Flow, f \notin OpenFlows(s), Depth(s) < MaxCallDepth,
         NEW n \in BlocksOf[Place(s)], NEW m \in BlocksOf[f],
         NEW b, b.inputs \subseteq (Name \cup {Nothing}) \X Name,
         b.outputs \subseteq Name \X Name
  PROVE  GoodRow([Tell(Push(s, b, n, f), f, ResolveInputs(b, s.told[Place(s)]))
                    EXCEPT !.node = m])
<1> DEFINE fr == [flow |-> f, back |-> n, scope |-> s.scope, outputs |-> b.outputs]
           K == Append(s.stack, fr)
           X == ResolveInputs(b, s.scope)
           Z == ResolveInputs(b, s.told[Place(s)])
           T == [s.told EXCEPT ![f] = Z]
           u == [Tell(Push(s, b, n, f), f, Z) EXCEPT !.node = m]
<1>1. s \in Session /\ Place(s) \in Flow /\ s.scope \in SUBSET Name /\ s.stack \in Seq(Frame)
      /\ s.told \in [Flow -> SUBSET Name] /\ Depth(s) \in Nat
  BY PlaceTyped DEF Framed, Session
<1>2. n \in Block /\ m \in Block BY <1>1 DEF Block
<1>3. fr \in Frame /\ K \in Seq(Frame) BY <1>1, <1>2 DEF Frame
<1>4. X \in SUBSET Name /\ Z \in SUBSET Name /\ X = Z /\ T \in [Flow -> SUBSET Name]
      /\ T[f] = Z /\ \A h \in Flow \ {f} : T[h] = s.told[h]
  BY <1>1, InputsTyped DEF Framed, Apart
<1>5. /\ u \in Session /\ u.stack = K /\ u.scope = X /\ u.told = T /\ u.node = m
  <2>1. Push(s, b, n, f) = [s EXCEPT !.stack = K, !.scope = X] BY DEF Push
  <2>2. u = [s EXCEPT !.stack = K, !.scope = X, !.told = T, !.node = m]
    <3> DEFINE q == [s EXCEPT !.stack = K, !.scope = X]
    <3> HIDE DEF K, X, Z
    <3>1. q.told = s.told BY <1>1 DEF Session
    <3>2. Tell(q, f, Z) = [q EXCEPT !.told = T] BY <3>1 DEF Tell
    <3>3. [q EXCEPT !.told = T] = [s EXCEPT !.stack = K, !.scope = X, !.told = T] OBVIOUS
    <3>4. QED BY <2>1, <3>2, <3>3
  <2> HIDE DEF K, X, T, u
  <2>3. QED BY <2>2, <1>1, <1>2, <1>3, <1>4 DEF Session
<1> HIDE DEF K, X, Z, T, u
<1>6. /\ Depth(u) = Depth(s) + 1 /\ Place(u) = f /\ u.stack[Depth(s) + 1] = fr
      /\ \A i \in 1 .. Depth(s) : u.stack[i] = s.stack[i]
      /\ \A d \in 0 .. Depth(s) : FlowAt(u, d) = FlowAt(s, d)
  <2>1. fr.flow = f OBVIOUS
  <2> HIDE DEF fr
  <2>2. u.stack = Append(s.stack, fr) /\ u \in Session /\ s \in Session /\ fr \in Frame
    BY <1>1, <1>3, <1>5 DEF K
  <2>3. OneMoreFrame(u, s, fr) BY <2>2, Pushed
  <2>4. QED BY <2>1, <2>3 DEF OneMoreFrame
<1>7. FlowAt(u, Depth(s) + 1) = f BY <1>6 DEF Place
<1>8. \A d \in 0 .. Depth(s) : FlowAt(s, d) \in Flow /\ FlowAt(s, d) # f
  BY <1>1, FlowAtTyped DEF OpenFlows
<1>9. \A i, j \in 0 .. Depth(u) : FlowAt(u, i) = FlowAt(u, j) => i = j
  <2>1. \A d \in 0 .. Depth(u) : d \in 0 .. Depth(s) \/ d = Depth(s) + 1 BY <1>1, <1>6
  <2>2. QED BY <1>6, <1>7, <1>8, <2>1 DEF Framed
<1>10. \A i \in 1 .. Depth(u) : /\ u.stack[i].back \in BlocksOf[FlowAt(u, i - 1)]
                              /\ u.stack[i].scope = u.told[FlowAt(u, i - 1)]
  <2> TAKE i \in 1 .. Depth(u)
  <2>1. CASE i \in 1 .. Depth(s)
    <3>1. i - 1 \in 0 .. Depth(s) BY <1>1, <2>1
    <3>2. QED BY <1>4, <1>5, <1>6, <1>8, <2>1, <3>1 DEF Framed, Apart
  <2>2. CASE i = Depth(s) + 1
    <3>1. i - 1 = Depth(s) /\ Depth(s) \in 0 .. Depth(s) BY <1>1, <2>2
    <3>2. FlowAt(u, i - 1) = Place(s) /\ Place(s) # f BY <1>6, <1>8, <3>1 DEF Place
    <3>3. u.stack[i].back = n /\ u.stack[i].scope = s.scope BY <1>6, <2>2
    <3>4. QED BY <1>1, <1>4, <1>5, <3>2, <3>3 DEF Framed, Apart
  <2>3. QED BY <1>1, <1>6, <2>1, <2>2
<1>11. Depth(u) <= MaxCallDepth
  <2>1. MaxCallDepth \in Nat BY ChatAssumption
  <2>2. QED BY <1>1, <1>6, <2>1
<1>12. Apart(u) BY <1>4, <1>5, <1>6, <1>10 DEF Apart
<1>13. QED BY <1>5, <1>6, <1>9, <1>10, <1>11, <1>12 DEF GoodRow, Framed, OnItsFlow, u, Z

\* The caller has its own scope back, with what the call returns.
LEMMA PopGood ==
  ASSUME NEW s, Framed(s), InSubflow(s)
  PROVE  LET caller == FlowAt(s, Depth(s) - 1)
             u      == Pop(TellBack(s, caller))
         IN  /\ Framed(u) /\ Place(u) = caller /\ caller \in Flow
             /\ u.status = s.status
<1> DEFINE D == Depth(s)
           top == s.stack[D]
           c == FlowAt(s, D - 1)
           e == Place(s)
           B == Brought(top.outputs, s.told[e])
           T == [s.told EXCEPT ![c] = s.told[c] \cup B, ![e] = {}]
           K == SubSeq(s.stack, 1, D - 1)
           X == top.scope \cup B
           u == Pop(TellBack(s, c))
<1>1. s \in Session /\ s.stack \in Seq(Frame) /\ s.stack # << >> /\ e \in Flow /\ D \in Nat
      /\ s.told \in [Flow -> SUBSET Name]
  BY PlaceTyped DEF Framed, Session, InSubflow
<1>2. D \in Nat \ {0} /\ top \in Frame /\ top.flow = e /\ K \in Seq(Frame)
  <2>1. D = Len(s.stack) BY DEF Depth
  <2>2. D \in Nat \ {0} BY <1>1, <2>1
  <2>3. top \in Frame BY <1>1, <2>1, <2>2
  <2>4. top.flow = e BY <2>2 DEF FlowAt, Place
  <2>5. K \in Seq(Frame) BY <1>1, <2>1, <2>2
  <2>6. QED BY <2>2, <2>3, <2>4, <2>5
<1>3. c \in Flow /\ c # e
  <2>1. D - 1 \in 0 .. D /\ D \in 0 .. D /\ D - 1 # D BY <1>2
  <2>2. c \in Flow BY <1>1, <2>1, FlowAtTyped
  <2>3. c # e BY <2>1 DEF Framed, Place
  <2>4. QED BY <2>2, <2>3
<1>4. B \subseteq Name /\ X \in SUBSET Name
  <2>1. top.outputs \in SUBSET (Name \X Name) /\ top.scope \in SUBSET Name BY <1>2 DEF Frame
  <2>2. B \subseteq Name BY <2>1, BringTyped
  <2>3. QED BY <2>1, <2>2
<1>5. /\ T \in [Flow -> SUBSET Name] /\ T[c] = s.told[c] \cup B
      /\ \A h \in Flow \ {c, e} : T[h] = s.told[h]
  <2> HIDE DEF B, c, e
  <2>1. QED BY <1>1, <1>3, <1>4
<1>6. s.scope = s.told[e] /\ top.scope = s.told[c]
  <2>1. D \in 1 .. D BY <1>2
  <2>2. QED BY <2>1 DEF Framed, Apart
<1>7. TellBack(s, c) = [s EXCEPT !.told = T]
  <2>1. TellBack(s, c) = [s EXCEPT !.told[c] = @ \cup B, !.told[e] = {}] BY <1>2 DEF TellBack
  <2> HIDE DEF B, c, e
  <2>2. QED BY <1>1, <2>1 DEF Session
<1>8. u = [s EXCEPT !.told = T, !.stack = K, !.scope = X]
  <2> DEFINE q == [s EXCEPT !.told = T]
  <2>1. q.stack = s.stack /\ q.scope = s.told[e] /\ Depth(q) = D
    <3> HIDE DEF T, e
    <3>1. QED BY <1>1, <1>6 DEF Session, Depth
  <2>2. Pop(q) = [q EXCEPT !.stack = K, !.scope = X] BY <2>1 DEF Pop
  <2>3. u = Pop(q) BY <1>7
  <2> HIDE DEF u, T, K, X
  <2>4. QED BY <2>2, <2>3
<1>9. /\ u \in Session /\ u.stack = K /\ u.scope = X /\ u.told = T /\ u.status = s.status
  <2> HIDE DEF u, T, K, X
  <2>1. QED BY <1>1, <1>2, <1>4, <1>5, <1>8 DEF Session
<1>10. OneLess(u, s) BY <1>1, <1>9, Popped
<1> HIDE DEF u, T, K, X, B, top, D
<1>11. Depth(u) = Depth(s) - 1 /\ Place(u) = c /\ Depth(s) \in Nat \ {0}
       /\ \A i \in 1 .. Depth(u) : u.stack[i] = s.stack[i]
       /\ \A d \in 0 .. Depth(u) : FlowAt(u, d) = FlowAt(s, d)
  BY <1>10 DEF OneLess, D
<1>12. Depth(u) <= MaxCallDepth
  <2>1. MaxCallDepth \in Nat BY ChatAssumption
  <2>2. Depth(s) <= MaxCallDepth BY DEF Framed
  <2>3. QED BY <1>11, <2>1, <2>2
<1>13. \A i, j \in 0 .. Depth(u) : FlowAt(u, i) = FlowAt(u, j) => i = j
  <2>1. \A d \in 0 .. Depth(u) : d \in 0 .. Depth(s) BY <1>11
  <2>2. QED BY <1>11, <2>1 DEF Framed
<1>14. \A i \in 1 .. Depth(u) : /\ u.stack[i].back \in BlocksOf[FlowAt(u, i - 1)]
                               /\ u.stack[i].scope = u.told[FlowAt(u, i - 1)]
  <2> TAKE i \in 1 .. Depth(u)
  <2>1. /\ i \in 1 .. Depth(s) /\ i - 1 \in 0 .. Depth(u) /\ i - 1 \in 0 .. Depth(s)
        /\ Depth(s) - 1 \in 0 .. Depth(s) /\ Depth(s) \in 0 .. Depth(s)
        /\ i - 1 # Depth(s) - 1 /\ i - 1 # Depth(s)
    BY <1>11
  <2>2. FlowAt(s, i - 1) \in Flow \ {c, e}
    <3>1. FlowAt(s, i - 1) \in Flow BY <1>1, <2>1, FlowAtTyped
    <3>2. FlowAt(s, i - 1) # c BY <2>1 DEF Framed, D
    <3>3. FlowAt(s, i - 1) # e BY <2>1 DEF Framed, Place
    <3>4. QED BY <3>1, <3>2, <3>3
  <2>3. FlowAt(u, i - 1) = FlowAt(s, i - 1) /\ u.stack[i] = s.stack[i] BY <1>11, <2>1
  <2>4. /\ s.stack[i].back \in BlocksOf[FlowAt(s, i - 1)]
        /\ s.stack[i].scope = s.told[FlowAt(s, i - 1)]
    BY <2>1 DEF Framed, Apart
  <2>5. QED BY <1>5, <1>9, <2>2, <2>3, <2>4
<1>15. Apart(u)
  <2>1. u.scope = u.told[Place(u)] BY <1>5, <1>6, <1>9, <1>11 DEF X
  <2>2. QED BY <1>14, <2>1 DEF Apart
<1>16. Framed(u) BY <1>9, <1>12, <1>13, <1>14, <1>15 DEF Framed
<1>17. QED BY <1>3, <1>9, <1>11, <1>16 DEF u, D

LEMMA ReturnGood ==
  ASSUME NEW s, Framed(s), InSubflow(s), NEW drawn, Drawing(drawn), NEW port
  PROVE  GoodOut(ReturnFromCall(drawn, s, port))
<1> DEFINE back == s.stack[Depth(s)].back
           c == FlowAt(s, Depth(s) - 1)
           u == Pop(TellBack(s, c))
<1>1. Framed(u) /\ Place(u) = c /\ c \in Flow BY PopGood
<1>2. Picture(drawn[c], c) BY <1>1 DEF Drawing
<1> HIDE DEF u, c, back
<1>3. CASE back \in DOMAIN drawn[c]
  <2>1. GoodOut(AdvanceOrComplete(u, drawn[c], back, port)) BY <1>1, <1>2, <1>3, AdvanceStaysGood
  <2>2. QED BY <1>3, <2>1 DEF ReturnFromCall, u, c, back
<1>4. CASE back \notin DOMAIN drawn[c]
  <2>1. GoodOut(EndOfFlow(u)) BY <1>1, EndGood
  <2>2. QED BY <1>4, <2>1 DEF ReturnFromCall, u, c, back
<1>5. QED BY <1>3, <1>4

\* A failure may leave by the block's own error port, by the caller's, or end it all.
LEMMA FailedGood ==
  ASSUME NEW s, Framed(s), NEW drawn, Drawing(drawn), s.node \in DOMAIN drawn[Place(s)]
  PROVE  GoodOut(FailedStep(drawn, s))
<1> DEFINE b == drawn[Place(s)][s.node]
<1>1. Place(s) \in Flow /\ Picture(drawn[Place(s)], Place(s)) BY PlaceTyped DEF Framed, Drawing
<1>2. CASE "error" \in DOMAIN b.out
  <2>1. b.out["error"] \in BlocksOf[Place(s)] BY <1>1, <1>2, PictureFacts
  <2>2. GoodRow([s EXCEPT !.node = b.out["error"]]) BY <2>1, MoveGood
  <2>3. QED BY <1>2, <2>2 DEF FailedStep, GoodOut, GoOn
<1>3. CASE "error" \notin DOMAIN b.out /\ InSubflow(s)
  BY <1>3, ReturnGood DEF FailedStep
<1>4. CASE "error" \notin DOMAIN b.out /\ ~ InSubflow(s)
  BY <1>4, EndGood DEF FailedStep
<1>5. QED BY <1>2, <1>3, <1>4

LEMMA UnwindGood ==
  ASSUME NEW o, GoodOut(o), NEW drawn, Drawing(drawn)
  PROVE  GoodOut(Unwind(drawn, o))
<1>1. CASE o.over /\ InSubflow(o.s) /\ o.s.status = "completed"
  <2> DEFINE u == [o.s EXCEPT !.status = "active"]
             r == ReturnFromCall(drawn, u, "default")
  <2>1. o.s \in Session /\ Framed(o.s) BY DEF GoodOut, GoodRow, Framed
  <2>2. /\ u \in Session /\ u.stack = o.s.stack /\ u.scope = o.s.scope /\ u.told = o.s.told
    BY <2>1 DEF Session
  <2>3. Framed(u) /\ InSubflow(u) BY <1>1, <2>1, <2>2, SameFrames DEF InSubflow
  <2>4. GoodOut(r) BY <2>3, ReturnGood
  <2>5. \E x, y, z : r = [s |-> x, over |-> y, says |-> z]
    BY DEF ReturnFromCall, AdvanceOrComplete, GoOn, EndOfFlow
  <2> HIDE DEF r
  <2>6. [r EXCEPT !.over = @ \/ o.says].s = r.s
        /\ [r EXCEPT !.over = @ \/ o.says].over \in BOOLEAN
        /\ [r EXCEPT !.over = @ \/ o.says].says = r.says
    BY <2>4, <2>5 DEF GoodOut
  <2>7. GoodOut([r EXCEPT !.over = @ \/ o.says]) BY <2>4, <2>6 DEF GoodOut
  <2>8. QED BY <1>1, <2>7 DEF Unwind, r
<1>2. CASE ~ (o.over /\ InSubflow(o.s) /\ o.s.status = "completed")
  BY <1>2 DEF Unwind
<1>3. QED BY <1>1, <1>2

-----------------------------------------------------------------------------
(* The invariant.                                                           *)

OneAtATime == \A t, u \in Turn : t = u

\* A turn that has read its block in a drawing keeps that drawing.
Standing(t) == OnBlock(t) /\ view[t][Place(working[t])] # 0

InTurn(t) ==
  /\ GoodRow(working[t]) /\ loaded[t] = session
  /\ turn[t] = "reply" /\ working[t].status = "completed" => Standing(t)
  /\ turn[t] = "filed" => Standing(t) /\ hops[t] < MaxInternalHops

ChatInv ==
  /\ ChatTypeOK
  /\ GoodRow(session) /\ current[Root] # 0
  /\ \A t \in Turn : turn[t] # "idle" => InTurn(t)

LEMMA DrawnIsDrawing ==
  ASSUME ChatInv, NEW t \in Turn
  PROVE  /\ Drawing(Drawn(t))
         /\ \A f \in Flow : Drawn(t)[f] = Shown(t, f) /\ Seen(t, f) \in Nat
                            /\ (Seen(t, f) # 0 => Seen(t, f) \in DOMAIN Saves[f])
         /\ Seen(t, Root) # 0
<1>1. \A f \in Flow : /\ view[t][f] \in Nat /\ current[f] \in Nat /\ view[t][f] <= Len(Saves[f])
                      /\ current[f] <= Len(Saves[f])
  BY DEF ChatInv, ChatTypeOK
<1>2. \A f \in Flow : Seen(t, f) \in Nat /\ Seen(t, f) <= Len(Saves[f]) BY <1>1 DEF Seen
<1>3. ASSUME NEW f \in Flow PROVE DOMAIN Saves[f] = 1 .. Len(Saves[f]) BY ChatAssumption
<1>4. \A f \in Flow : Seen(t, f) # 0 => Seen(t, f) \in DOMAIN Saves[f] BY <1>2, <1>3
<1>5. \A f \in Flow : Picture(Shown(t, f), f) BY <1>4 DEF Shown, Picture
<1>6. DOMAIN Drawn(t) = Flow /\ \A f \in Flow : Drawn(t)[f] = Shown(t, f) BY DEF Drawn
<1>7. Seen(t, Root) # 0 BY DEF Seen, ChatInv
<1>8. QED BY <1>2, <1>4, <1>5, <1>6, <1>7 DEF Drawing

\* What an action may use of the row it works on.
LEMMA AtWork ==
  ASSUME ChatInv, NEW t \in Turn, turn[t] # "idle"
  PROVE  /\ GoodRow(working[t]) /\ Framed(working[t]) /\ Place(working[t]) \in Flow
         /\ Drawing(Drawn(t)) /\ Graph(t) = Drawn(t)[Place(working[t])]
         /\ Picture(Graph(t), Place(working[t]))
         /\ (OnBlock(t) => working[t].node \in DOMAIN Graph(t) /\ working[t].node \in Block
                            /\ Here(t).stores \in Name \cup {Nothing})
<1>1. GoodRow(working[t]) BY DEF ChatInv, InTurn
<1>2. Framed(working[t]) /\ Place(working[t]) \in Flow BY <1>1, PlaceTyped DEF GoodRow, Framed
<1>3. Drawing(Drawn(t)) /\ Graph(t) = Drawn(t)[Place(working[t])]
  BY <1>2, DrawnIsDrawing DEF Graph
<1>4. Picture(Graph(t), Place(working[t])) BY <1>2, <1>3 DEF Drawing
<1>5. OnBlock(t) => working[t].node \in DOMAIN Graph(t) /\ working[t].node \in Block
                    /\ Here(t).stores \in Name \cup {Nothing}
  BY <1>2, <1>4, PictureFacts DEF OnBlock, Here
<1>6. QED BY <1>1, <1>2, <1>3, <1>4, <1>5

LEMMA StepsKeep ==
  ASSUME OneAtATime, ChatInv, NEW t \in Turn, turn[t] # "idle", NEW o, GoodOut(o),
         StepsTo(t, o), heard' \in [Turn -> Option \cup {"text"}],
         hops' \in [Turn -> 0 .. MaxInternalHops]
  PROVE  ChatInv'
<1>1. o.s \in Session BY DEF GoodOut, GoodRow, Framed
<1>2. /\ working' = [working EXCEPT ![t] = o.s] /\ turn' \in [Turn -> {"idle", "reply", "hop", "filed", "saving", "raised"}]
      /\ turn'[t] \in {"saving", "hop"}
  BY DEF StepsTo, ChatInv, ChatTypeOK
<1>3. working' \in [Turn -> Session] /\ working'[t] = o.s
  BY <1>1, <1>2 DEF ChatInv, ChatTypeOK
<1>4. /\ view' \in [Turn -> [Flow -> Nat]]
      /\ \A u \in Turn, f \in Flow : view'[u][f] <= Len(Saves[f])
  <2>1. \A f \in Flow : Seen(t, f) \in Nat /\ Seen(t, f) <= Len(Saves[f])
    BY DEF Seen, ChatInv, ChatTypeOK
  <2> DEFINE L == Looked(t, o.s)
  <2>2. view' = [view EXCEPT ![t] = [f \in Flow |-> IF f \in L THEN Seen(t, f) ELSE view[t][f]]]
    BY DEF StepsTo, Looks, ChatInv, ChatTypeOK
  <2> HIDE DEF L
  <2>3. view' \in [Turn -> [Flow -> Nat]] BY <2>1, <2>2 DEF ChatInv, ChatTypeOK
  <2>4. \A u \in Turn, f \in Flow : view'[u][f] <= Len(Saves[f])
    BY <2>1, <2>2 DEF ChatInv, ChatTypeOK
  <2>5. QED BY <2>3, <2>4
<1>5. UNCHANGED << session, current, outdated, loaded, cutOff, chatSpent >> BY DEF StepsTo
<1>6. ChatTypeOK' BY <1>2, <1>3, <1>4, <1>5 DEF ChatInv, ChatTypeOK
<1>7. GoodRow(session') /\ current'[Root] # 0 BY <1>5 DEF ChatInv
<1>8. GoodRow(working'[t]) /\ loaded'[t] = session'
  BY <1>3, <1>5 DEF GoodOut, ChatInv, InTurn
<1>9. ASSUME NEW u \in Turn PROVE InTurn(u)'
  <2>1. u = t BY DEF OneAtATime
  <2>2. QED BY <1>2, <1>8, <2>1 DEF InTurn
<1>10. QED BY <1>6, <1>7, <1>9 DEF ChatInv

LEMMA RepliesKeep ==
  ASSUME OneAtATime, ChatInv, NEW t \in Turn, turn[t] # "idle", NEW o, GoodOut(o), Replies(t, o)
  PROVE  ChatInv'
<1>1. heard' \in [Turn -> Option \cup {"text"}] /\ hops' \in [Turn -> 0 .. MaxInternalHops]
  BY DEF Replies, ChatInv, ChatTypeOK
<1>2. QED BY <1>1, StepsKeep DEF Replies

LEMMA HopsKeep ==
  ASSUME OneAtATime, ChatInv, NEW t \in Turn, turn[t] # "idle", hops[t] < MaxInternalHops,
         NEW o, GoodOut(o), Hops(t, o)
  PROVE  ChatInv'
<1>1. MaxInternalHops \in Nat BY ChatAssumption
<1>2. heard' \in [Turn -> Option \cup {"text"}] /\ hops' \in [Turn -> 0 .. MaxInternalHops]
  BY <1>1 DEF Hops, ChatInv, ChatTypeOK
<1>3. GoodOut(Unwind(Drawn(t), o)) BY AtWork, UnwindGood
<1>4. QED BY <1>2, <1>3, StepsKeep DEF Hops

-----------------------------------------------------------------------------
(* The actions that end in what a block or an answer leaves.                *)

LEMMA SaysGood == ASSUME NEW o, GoodOut(o) PROVE GoodOut(Say(o.s))
  BY DEF GoodOut, Say

LEMMA KeepGood ==
  ASSUME NEW s, GoodRow(s), NEW b, b.stores \in Name \cup {Nothing}, NEW n \in Block
  PROVE  /\ GoodOut(GoOn(s)) /\ GoodOut(Say(s))
         /\ GoodRow(Store(s, b)) /\ GoodOut(GoOn(Store(s, b))) /\ GoodOut(Say(Store(s, b)))
         /\ GoodOut(Say(Made(Store(s, b), n)))
<1>1. Framed(s) /\ OnItsFlow(s) BY DEF GoodRow
<1> DEFINE k == Store(s, b)
<1>2. Framed(k) /\ Place(k) = Place(s) /\ k.node = s.node /\ k.status = s.status
  BY <1>1, StoreGood
<1>3. GoodRow(k) BY <1>1, <1>2 DEF GoodRow, OnItsFlow
<1> HIDE DEF k
<1>4. GoodRow(Made(k, n))
  <2>1. /\ Framed(Made(k, n)) /\ Place(Made(k, n)) = Place(k) /\ Made(k, n).node = k.node
        /\ Made(k, n).status = k.status
    BY <1>2, MadeGood
  <2>2. QED BY <1>3, <2>1 DEF GoodRow, OnItsFlow
<1>5. QED BY <1>3, <1>4 DEF GoodOut, GoOn, Say, k

LEMMA CalleeGoneKeeps ==
  ASSUME OneAtATime, ChatInv, NEW t \in Turn, CalleeGone(t)
  PROVE  ChatInv'
<1>1. turn[t] # "idle" BY DEF CalleeGone, Replying
<1>2. InSubflow(working[t])
  <2>1. Seen(t, Root) # 0 BY DrawnIsDrawing
  <2>2. SUFFICES ASSUME working[t].stack = << >> PROVE FALSE BY DEF InSubflow
  <2>3. Place(working[t]) = Root BY <2>2 DEF Place, FlowAt, Depth
  <2>4. QED BY <2>1, <2>3 DEF CalleeGone
<1>3. GoodOut(ReturnFromCall(Drawn(t), working[t], "error")) BY <1>1, <1>2, AtWork, ReturnGood
<1>4. QED BY <1>1, <1>3, RepliesKeep DEF CalleeGone

LEMMA AnswerGraphKeeps ==
  ASSUME OneAtATime, ChatInv, NEW t \in Turn, AnswerGraph(t)
  PROVE  ChatInv'
<1> DEFINE w == working[t]
           s == [w EXCEPT !.asks = FALSE]
           k == Store(s, Here(t))
           o == AdvanceOrComplete(k, Graph(t), s.node, "default")
<1>1. turn[t] # "idle" /\ w.status = "active" BY DEF AnswerGraph, Replying
<1>2. /\ GoodRow(w) /\ Framed(w) /\ Drawing(Drawn(t)) /\ Graph(t) = Drawn(t)[Place(w)]
      /\ Picture(Graph(t), Place(w))
      /\ (OnBlock(t) => w.node \in DOMAIN Graph(t) /\ Here(t).stores \in Name \cup {Nothing})
  BY <1>1, AtWork
<1>3. Framed(s) /\ Place(s) = Place(w) /\ s.node = w.node /\ GoodRow(s)
  BY <1>2, AsksGood DEF GoodRow
<1> HIDE DEF s, w
<1>4. GoodOut(Say(w)) /\ GoodOut(GoOn(s)) BY <1>2, <1>3 DEF GoodOut, Say, GoOn
<1>5. GoodOut(EndOfFlow(s)) BY <1>3, EndGood
<1>6. ASSUME OnBlock(t) PROVE GoodOut(FailedStep(Drawn(t), s)) BY <1>2, <1>3, <1>6, FailedGood
<1>7. ASSUME OnBlock(t) PROVE GoodOut(o)
  <2>1. Framed(k) /\ Place(k) = Place(w) BY <1>2, <1>3, <1>7, StoreGood
  <2> HIDE DEF k
  <2>2. QED BY <1>2, <1>3, <1>7, <2>1, AdvanceStaysGood
<1> HIDE DEF o, k
<1>8. PICK x : GoodOut(x) /\ Replies(t, x)
  BY <1>4, <1>5, <1>6, <1>7 DEF AnswerGraph, o, k, s, w
<1>9. QED BY <1>1, <1>8, RepliesKeep

LEMMA DeliverKeeps ==
  ASSUME OneAtATime, ChatInv, NEW t \in Turn, Deliver(t)
  PROVE  ChatInv'
<1> DEFINE s == working[t]
           port == IF heard[t] = "text" THEN "default" ELSE heard[t]
           k == Store(s, Here(t))
           moved == [k EXCEPT !.node = Here(t).out[port]]
           kept == GoOn(IF port \in DOMAIN Here(t).out THEN moved ELSE k)
<1>1. turn[t] # "idle" BY DEF Deliver, Replying
<1>2. /\ GoodRow(s) /\ Framed(s) /\ Place(s) \in Flow /\ Picture(Graph(t), Place(s))
      /\ (OnBlock(t) => s.node \in DOMAIN Graph(t) /\ s.node \in Block
                         /\ Here(t).stores \in Name \cup {Nothing})
  BY <1>1, AtWork
<1>3. GoodOut(GoOn(s)) /\ GoodOut(Say(s)) BY <1>2 DEF GoodOut, GoOn, Say
<1>4. ASSUME OnBlock(t) PROVE GoodOut(kept)
  <2>1. Framed(k) /\ Place(k) = Place(s) /\ GoodRow(k)
    BY <1>2, <1>4, StoreGood, KeepGood
  <2>2. ASSUME port \in DOMAIN Here(t).out PROVE GoodRow(moved)
    <3>1. Here(t).out[port] \in BlocksOf[Place(s)] BY <1>2, <1>4, <2>2, PictureFacts DEF Here
    <3> HIDE DEF k, s, port
    <3>2. QED BY <2>1, <3>1, MoveGood
  <2> HIDE DEF k, moved, port
  <2>3. QED BY <2>1, <2>2 DEF GoodOut, GoOn
<1> HIDE DEF kept
<1>5. PICK x : GoodOut(x) /\ Replies(t, x)
  BY <1>3, <1>4 DEF Deliver, kept, moved, k, port, s
<1>6. QED BY <1>1, <1>5, RepliesKeep

\* What the block a turn is on may leave.
LEMMA BlockLeaves ==
  ASSUME ChatInv, NEW t \in Turn, turn[t] # "idle", OnBlock(t)
  PROVE  LET w == working[t]
         IN  /\ \A port : /\ GoodOut(AdvanceOrComplete(w, Graph(t), w.node, port))
                          /\ GoodOut(Say(AdvanceOrComplete(w, Graph(t), w.node, port).s))
             /\ GoodOut(AdvanceOrComplete(Store(w, Here(t)), Graph(t), w.node, "default"))
             /\ GoodOut(FailedStep(Drawn(t), w)) /\ GoodOut(Finished(t, w))
             /\ \A o \in AIAnswers(t) : GoodOut(o)
<1> DEFINE w == working[t]
           a(port) == AdvanceOrComplete(w, Graph(t), w.node, port)
           k == Store(w, Here(t))
           m == Made(k, w.node)
           z == a("default").s
<1>1. /\ Framed(w) /\ Place(w) \in Flow /\ Drawing(Drawn(t)) /\ Picture(Graph(t), Place(w))
      /\ Graph(t) = Drawn(t)[Place(w)]
      /\ w.node \in DOMAIN Graph(t) /\ w.node \in Block /\ Here(t).stores \in Name \cup {Nothing}
  BY AtWork
<1> HIDE DEF w
<1>2. ASSUME NEW port PROVE GoodOut(a(port)) /\ GoodOut(Say(a(port).s))
  <2>1. GoodOut(a(port)) BY <1>1, AdvanceStaysGood
  <2>2. QED BY <2>1, SaysGood
<1>3. Framed(k) /\ Place(k) = Place(w) BY <1>1, StoreGood
<1>4. Framed(m) /\ Place(m) = Place(w)
  <2> HIDE DEF k
  <2>1. QED BY <1>1, <1>3, MadeGood
<1>5. GoodOut(AdvanceOrComplete(k, Graph(t), w.node, "default"))
  <2> HIDE DEF k
  <2>1. QED BY <1>1, <1>3, AdvanceStaysGood
<1>6. GoodOut(AdvanceOrComplete(m, Graph(t), w.node, "default"))
  <2> HIDE DEF m
  <2>1. QED BY <1>1, <1>4, AdvanceStaysGood
<1>7. GoodOut(FailedStep(Drawn(t), w)) BY <1>1, FailedGood
<1>8. GoodOut(Say(z)) /\ GoodOut(Say(Store(z, Here(t)))) /\ GoodOut(Say(Made(Store(z, Here(t)), w.node)))
  <2>1. GoodRow(z) BY <1>2 DEF GoodOut
  <2> HIDE DEF z
  <2>2. QED BY <1>1, <2>1, KeepGood
<1>9. \A o \in AIAnswers(t) : GoodOut(o) BY <1>8 DEF AIAnswers, w
<1>10. QED BY <1>2, <1>5, <1>6, <1>7, <1>9 DEF Finished, w

\* Every block whose hop ends in one of these keeps the invariant.
LEMMA BlocksKeep ==
  ASSUME OneAtATime, ChatInv, NEW t \in Turn,
         \/ PlainStep(t) \/ SendMessage(t) \/ AIStep(t) \/ SendOrHandOver(t) \/ FileFails(t)
         \/ AwaitStep(t) \/ RunNoGraph(t) \/ RunGraph(t) \/ EndStep(t)
  PROVE  ChatInv'
<1> DEFINE w == working[t]
           q == [w EXCEPT !.asks = TRUE]
           a(port) == AdvanceOrComplete(w, Graph(t), w.node, port)
<1>1. turn[t] # "idle" /\ hops[t] < MaxInternalHops /\ OnBlock(t)
  BY DEF PlainStep, SendMessage, AIStep, SendOrHandOver, FileFails, AwaitStep, RunNoGraph,
         RunGraph, EndStep, HopOn
<1>2. GoodRow(w) /\ Framed(w) /\ Drawing(Drawn(t)) BY <1>1, AtWork
<1>3. /\ \A port : GoodOut(a(port)) /\ GoodOut(Say(a(port).s))
      /\ GoodOut(AdvanceOrComplete(Store(w, Here(t)), Graph(t), w.node, "default"))
      /\ GoodOut(FailedStep(Drawn(t), w)) /\ GoodOut(Finished(t, w))
      /\ \A o \in AIAnswers(t) : GoodOut(o)
  BY <1>1, BlockLeaves
<1> SUFFICES \E o : GoodOut(o) /\ Hops(t, o) BY <1>1, HopsKeep
<1>4. CASE PlainStep(t) BY <1>3, <1>4 DEF PlainStep
<1>5. CASE SendMessage(t) BY <1>3, <1>5 DEF SendMessage
<1>6. CASE AIStep(t) BY <1>3, <1>6 DEF AIStep
<1>7. CASE SendOrHandOver(t) BY <1>3, <1>7 DEF SendOrHandOver, Fails
<1>8. CASE FileFails(t) BY <1>3, <1>8 DEF FileFails, Fails
<1>9. CASE AwaitStep(t)
  <2>1. GoodOut(Say(w)) BY <1>2 DEF GoodOut, Say
  <2>2. QED BY <1>9, <2>1 DEF AwaitStep
<1>10. CASE RunNoGraph(t)
  <2>1. GoodOut(Say(EndOfFlow(w).s)) BY <1>2, EndGood
  <2>2. QED BY <1>10, <2>1 DEF RunNoGraph
<1>11. CASE RunGraph(t)
  <2>1. GoodOut(Say(q))
    <3>1. Framed(q) /\ OnItsFlow(q) BY <1>2, AsksGood DEF GoodRow
    <3> HIDE DEF q
    <3>2. QED BY <3>1 DEF GoodOut, GoodRow, Say
  <2>2. QED BY <1>3, <1>11, <2>1 DEF RunGraph, Fails
<1>12. CASE EndStep(t)
  <2> DEFINE o == IF InSubflow(w) THEN ReturnFromCall(Drawn(t), w, "default") ELSE EndOfFlow(w)
  <2>1. GoodOut(o) BY <1>2, ReturnGood, EndGood
  <2>2. GoodOut(Say(o.s)) BY <2>1, SaysGood
  <2>3. QED BY <1>12, <2>1, <2>2 DEF EndStep
<1>13. QED BY <1>4, <1>5, <1>6, <1>7, <1>8, <1>9, <1>10, <1>11, <1>12

LEMMA FileMadeKeeps ==
  ASSUME OneAtATime, ChatInv, NEW t \in Turn, FileMade(t)
  PROVE  ChatInv'
<1>1. turn[t] = "filed" /\ OnBlock(t) /\ hops[t] < MaxInternalHops
  BY DEF FileMade, ChatInv, InTurn, Standing
<1>2. GoodOut(Finished(t, working[t])) BY <1>1, BlockLeaves
<1>3. QED BY <1>1, <1>2, HopsKeep DEF FileMade

LEMMA AnswerAgainKeeps ==
  ASSUME OneAtATime, ChatInv, NEW t \in Turn, AnswerAgain(t)
  PROVE  ChatInv'
<1>1. turn[t] # "idle" /\ OnBlock(t) BY DEF AnswerAgain, ChatInv, InTurn, Standing
<1>2. PICK o \in AIAnswers(t) : Replies(t, o) BY DEF AnswerAgain
<1>3. GoodOut(o) BY <1>1, BlockLeaves
<1>4. QED BY <1>1, <1>2, <1>3, RepliesKeep

LEMMA RunFlowKeeps ==
  ASSUME OneAtATime, ChatInv, NEW t \in Turn, RunFlow(t)
  PROVE  ChatInv'
<1> DEFINE s == working[t]
           b == Here(t)
           f == b.calls
           u == [Tell(Push(s, b, s.node, f), f, ResolveInputs(b, s.told[Place(s)]))
                   EXCEPT !.node = StartOf(Drawn(t)[f])]
<1>1. turn[t] # "idle" /\ hops[t] < MaxInternalHops /\ OnBlock(t) BY DEF RunFlow, HopOn
<1>2. /\ Framed(s) /\ Place(s) \in Flow /\ Picture(Graph(t), Place(s))
      /\ s.node \in DOMAIN Graph(t)
  BY <1>1, AtWork
<1>3. /\ s.node \in BlocksOf[Place(s)] /\ f \in Flow \cup {Nothing}
      /\ b.inputs \subseteq (Name \cup {Nothing}) \X Name /\ b.outputs \subseteq Name \X Name
  BY <1>2, PictureFacts DEF Here
<1>4. CASE f # Nothing /\ current[f] # 0 /\ Saves[f][Seen(t, f)].callable /\ MayCall(s, f)
  <2>1. f \in Flow BY <1>3, <1>4
  <2>2. Seen(t, f) # 0 /\ Seen(t, f) \in DOMAIN Saves[f] /\ Drawn(t)[f] = Shown(t, f)
    <3>1. Seen(t, f) # 0 BY <1>4 DEF Seen
    <3>2. QED BY <2>1, <3>1, DrawnIsDrawing
  <2>3. Drawn(t)[f] = Saves[f][Seen(t, f)].graph BY <2>2 DEF Shown
  <2>4. StartOf(Drawn(t)[f]) \in BlocksOf[f] BY <2>1, <2>2, <2>3, StartFacts, SavedGraph
  <2> HIDE DEF f, b, s
  <2>5. f \notin OpenFlows(s) /\ Depth(s) < MaxCallDepth BY <1>4 DEF MayCall
  <2>6. GoodRow(u) BY <1>2, <1>3, <2>1, <2>4, <2>5, PushGood
  <2> HIDE DEF u
  <2>7. GoodOut(GoOn(u)) BY <2>6 DEF GoodOut, GoOn
  <2>8. Hops(t, GoOn(u)) BY <1>4 DEF RunFlow, u, f, b, s
  <2>9. QED BY <1>1, <2>7, <2>8, HopsKeep
<1>5. CASE ~ (f # Nothing /\ current[f] # 0 /\ Saves[f][Seen(t, f)].callable /\ MayCall(s, f))
  <2>1. Hops(t, FailedStep(Drawn(t), s)) BY <1>5 DEF RunFlow, Fails
  <2>2. GoodOut(FailedStep(Drawn(t), s)) BY <1>1, BlockLeaves
  <2>3. QED BY <1>1, <2>1, <2>2, HopsKeep
<1>6. QED BY <1>4, <1>5

LEMMA BlockGoneKeeps ==
  ASSUME OneAtATime, ChatInv, NEW t \in Turn, BlockGone(t)
  PROVE  ChatInv'
<1> DEFINE o == IF InSubflow(working[t]) THEN ReturnFromCall(Drawn(t), working[t], "error")
                ELSE EndOfFlow(working[t])
<1>1. turn[t] # "idle" /\ hops[t] < MaxInternalHops BY DEF BlockGone
<1>2. Framed(working[t]) /\ Drawing(Drawn(t)) BY <1>1, AtWork
<1>3. GoodOut(o) BY <1>2, ReturnGood, EndGood
<1>4. MaxInternalHops \in Nat BY ChatAssumption
<1>5. heard' \in [Turn -> Option \cup {"text"}] /\ hops' \in [Turn -> 0 .. MaxInternalHops]
  BY <1>1, <1>4 DEF BlockGone, ChatInv, ChatTypeOK
<1>6. StepsTo(t, o) BY DEF BlockGone
<1> HIDE DEF o
<1>7. QED BY <1>1, <1>3, <1>5, <1>6, StepsKeep

-----------------------------------------------------------------------------
(* The actions that do something else.                                      *)

\* A row that is nobody's, and one that starts over.
LEMMA EntryTyped == Entry(Saves[Root][1].graph) \in Session /\ GoodRow(Entry(Saves[Root][1].graph))
<1> DEFINE g == Saves[Root][1].graph
           s == Entry(g)
<1>1. Root \in Flow /\ 1 \in DOMAIN Saves[Root]
  <2>1. Root \in Flow BY ChatAssumption
  <2>2. PICK S : Saves[Root] \in Seq(S) BY <2>1, ChatAssumption
  <2>3. Saves[Root] # << >> BY <2>1, ChatAssumption
  <2>4. QED BY <2>1, <2>2, <2>3
<1>2. StartOf(g) \in BlocksOf[Root] /\ StartOf(g) \in Block
  BY <1>1, StartFacts, SavedGraph
<1>3. s.stack = << >> /\ s.scope = {} /\ s.told = [f \in Flow |-> {}] /\ s.node = StartOf(g)
  BY DEF Entry
<1>4. s \in Session
  <2>1. << >> \in Seq(Frame) OBVIOUS
  <2> HIDE DEF g
  <2>2. QED BY <1>2, <2>1 DEF Entry, Session
<1>5. GoodRow(s)
  <2>1. Depth(s) = 0 /\ Place(s) = Root /\ \A d \in 0 .. 0 : FlowAt(s, d) = Root
    BY <1>3 DEF Depth, Place, FlowAt
  <2>2. MaxCallDepth \in Nat BY ChatAssumption
  <2> HIDE DEF s, g
  <2>3. QED BY <1>1, <1>2, <1>3, <1>4, <2>1, <2>2 DEF GoodRow, Framed, OnItsFlow, Apart
<1>6. QED BY <1>4, <1>5

LEMMA RestartedGood ==
  ASSUME NEW s \in Session, NEW i \in DOMAIN Saves[Root]
  PROVE  LET u == Restarted(s, Saves[Root][i].graph)
         IN  GoodRow(u) /\ u \in Session /\ u.status = "active"
<1> DEFINE g == Saves[Root][i].graph
           u == Restarted(s, g)
<1>1. Root \in Flow /\ StartOf(g) \in BlocksOf[Root] /\ StartOf(g) \in Block
  BY ChatAssumption, StartFacts, SavedGraph
<1> HIDE DEF g
<1>2. /\ u \in Session /\ u.stack = << >> /\ u.scope = {} /\ u.told = [f \in Flow |-> {}]
      /\ u.node = StartOf(g) /\ u.status = "active"
  <2>1. << >> \in Seq(Frame) OBVIOUS
  <2>2. QED BY <1>1, <2>1 DEF Restarted, Session
<1>3. Depth(u) = 0 /\ Place(u) = Root /\ \A d \in 0 .. 0 : FlowAt(u, d) = Root
  BY <1>2 DEF Depth, Place, FlowAt
<1>4. MaxCallDepth \in Nat BY ChatAssumption
<1> HIDE DEF u
<1>5. GoodRow(u) BY <1>1, <1>2, <1>3, <1>4 DEF GoodRow, Framed, OnItsFlow, Apart
<1>6. QED BY <1>2, <1>5 DEF u, g

\* A commit of a turn that is alone writes the row it works on.
LEMMA CommittedIs ==
  ASSUME ChatInv, NEW t \in Turn, turn[t] # "idle"
  PROVE  Committed(t) = working[t]
<1>1. working[t] \in Session /\ loaded[t] = session
  BY DEF ChatInv, ChatTypeOK, InTurn
<1>2. \A c \in {"status", "node", "stack", "scope", "made", "asks", "told"} :
        Pick(t, c) = working[t][c]
  BY <1>1 DEF Pick
<1>3. QED BY <1>1, <1>2 DEF Committed, Session

LEMMA LeaveTyped ==
  ASSUME OneAtATime, ChatInv, NEW t \in Turn, Leave(t),
         GoodRow(session'), outdated' \in BOOLEAN,
         chatSpent' \in [{"messages", "edits", "losses"} -> Nat]
  PROVE  ChatInv'
<1> DEFINE nothing == Entry(Saves[Root][1].graph)
<1>1. nothing \in Session /\ session' \in Session BY EntryTyped DEF GoodRow, Framed
<1> HIDE DEF nothing
<1>2. working' = [working EXCEPT ![t] = nothing] /\ loaded' = [loaded EXCEPT ![t] = nothing]
  BY DEF Leave, nothing
<1>3. working' \in [Turn -> Session] /\ loaded' \in [Turn -> Session]
  BY <1>1, <1>2 DEF ChatInv, ChatTypeOK
<1>4. /\ view' \in [Turn -> [Flow -> Nat]]
      /\ \A u \in Turn, f \in Flow : view'[u][f] <= Len(Saves[f])
  <2>1. view' = [view EXCEPT ![t] = [f \in Flow |-> 0]] BY DEF Leave
  <2>2. \A f \in Flow : Len(Saves[f]) \in Nat BY ChatAssumption
  <2>3. QED BY <2>1, <2>2 DEF ChatInv, ChatTypeOK
<1>5. /\ turn' = [turn EXCEPT ![t] = "idle"] /\ heard' = [heard EXCEPT ![t] = "text"]
      /\ hops' = [hops EXCEPT ![t] = 0] /\ UNCHANGED << current, cutOff >>
  BY DEF Leave
<1>6. 0 \in 0 .. MaxInternalHops BY ChatAssumption
<1>7. ChatTypeOK' BY <1>1, <1>3, <1>4, <1>5, <1>6 DEF ChatInv, ChatTypeOK
<1>8. \A u \in Turn : turn'[u] = "idle" BY <1>5 DEF OneAtATime, ChatInv, ChatTypeOK
<1>9. QED BY <1>5, <1>7, <1>8 DEF ChatInv

LEMMA DatedTyped ==
  ASSUME ChatInv, NEW t \in Turn, Dated(t)
  PROVE  outdated' \in BOOLEAN
<1>1. CASE working[t] = loaded[t] BY <1>1 DEF Dated, ChatInv, ChatTypeOK
<1>2. CASE working[t] # loaded[t] BY <1>2 DEF Dated
<1>3. QED BY <1>1, <1>2

LEMMA ChatSpentTyped ==
  ASSUME ChatInv, NEW c \in {"messages", "edits", "losses"}
  PROVE  [chatSpent EXCEPT ![c] = @ + 1] \in [{"messages", "edits", "losses"} -> Nat]
<1>1. chatSpent \in [{"messages", "edits", "losses"} -> Nat] BY DEF ChatInv, ChatTypeOK
<1>2. chatSpent[c] + 1 \in Nat BY <1>1
<1>3. QED BY <1>1, <1>2

LEMMA SaveTurnKeeps ==
  ASSUME OneAtATime, ChatInv, NEW t \in Turn, SaveTurn(t)
  PROVE  ChatInv'
<1>1. turn[t] # "idle" /\ session' = Committed(t) /\ Leave(t) /\ UNCHANGED chatSpent
  BY DEF SaveTurn
<1>2. GoodRow(session') BY <1>1, CommittedIs, AtWork
<1>3. outdated' \in BOOLEAN BY DatedTyped DEF SaveTurn
<1>4. chatSpent' \in [{"messages", "edits", "losses"} -> Nat] BY <1>1 DEF ChatInv, ChatTypeOK
<1>5. QED BY <1>1, <1>2, <1>3, <1>4, LeaveTyped

LEMMA TurnDiesKeeps ==
  ASSUME OneAtATime, ChatInv, NEW t \in Turn, TurnDies(t)
  PROVE  ChatInv'
<1>1. Leave(t) /\ session' = session /\ outdated' = outdated BY DEF TurnDies
<1>2. GoodRow(session') BY <1>1 DEF ChatInv
<1>5. outdated' \in BOOLEAN BY <1>1 DEF ChatInv, ChatTypeOK
<1>3. chatSpent' \in [{"messages", "edits", "losses"} -> Nat]
  BY ChatSpentTyped DEF TurnDies
<1>4. QED BY <1>1, <1>2, <1>3, <1>5, LeaveTyped

LEMMA AIRaisesKeeps ==
  ASSUME OneAtATime, ChatInv, NEW t \in Turn, AIRaises(t)
  PROVE  ChatInv'
<1> DEFINE s == AdvanceOrComplete(working[t], Graph(t), working[t].node, "default").s
<1>1. turn[t] # "idle" /\ OnBlock(t) BY DEF AIRaises, HopOn, ChatInv, InTurn, Standing
<1>2. GoodRow(s) /\ s \in Session BY <1>1, BlockLeaves DEF GoodOut, GoodRow, Framed
<1>3. /\ working' = [working EXCEPT ![t] = s] /\ turn' = [turn EXCEPT ![t] = "raised"]
      /\ UNCHANGED << session, current, outdated, loaded, view, heard, hops, cutOff, chatSpent >>
  BY DEF AIRaises, ChatInv, ChatTypeOK
<1> HIDE DEF s
<1>4. ChatTypeOK' BY <1>2, <1>3 DEF ChatInv, ChatTypeOK
<1>5. ASSUME NEW u \in Turn PROVE InTurn(u)'
  <2>1. u = t BY DEF OneAtATime
  <2>2. working'[t] = s /\ turn'[t] = "raised" /\ loaded'[t] = session'
    BY <1>1, <1>3 DEF ChatInv, ChatTypeOK, InTurn
  <2>3. QED BY <1>2, <2>1, <2>2 DEF InTurn
<1>6. QED BY <1>3, <1>4, <1>5 DEF ChatInv

LEMMA BailOutKeeps ==
  ASSUME OneAtATime, ChatInv, NEW t \in Turn, BailOut(t)
  PROVE  ChatInv'
<1> DEFINE s == [working[t] EXCEPT !.status = "completed"]
<1>1. turn[t] # "idle" BY DEF BailOut
<1>2. GoodRow(s) /\ s \in Session BY <1>1, AtWork, EndGood DEF GoodRow, Framed
<1>3. /\ working' = [working EXCEPT ![t] = s] /\ turn' = [turn EXCEPT ![t] = "saving"]
      /\ UNCHANGED << session, current, outdated, loaded, view, heard, hops, chatSpent >>
      /\ cutOff' = TRUE
  BY DEF BailOut, ChatInv, ChatTypeOK
<1> HIDE DEF s
<1>4. ChatTypeOK' BY <1>2, <1>3 DEF ChatInv, ChatTypeOK
<1>5. ASSUME NEW u \in Turn PROVE InTurn(u)'
  <2>1. u = t BY DEF OneAtATime
  <2>2. working'[t] = s /\ turn'[t] = "saving" /\ loaded'[t] = session'
    BY <1>1, <1>3 DEF ChatInv, ChatTypeOK, InTurn
  <2>3. QED BY <1>2, <2>1, <2>2 DEF InTurn
<1>6. QED BY <1>3, <1>4, <1>5 DEF ChatInv

LEMMA ReadKeeps ==
  ASSUME OneAtATime, ChatInv, NEW t \in Turn, NEW reply \in Option \cup {"text"},
         Read(t, reply)
  PROVE  ChatInv'
<1> DEFINE g == Saves[Root][current[Root]].graph
           s == IF NeedsRestart(session, g) THEN Restarted(session, g) ELSE session
<1>1. /\ session \in Session /\ Root \in Flow /\ current[Root] \in Nat
      /\ current[Root] \in DOMAIN Saves[Root] /\ current[Root] <= Len(Saves[Root])
  <2>1. session \in Session /\ Root \in Flow /\ current \in [Flow -> Nat]
        /\ current[Root] <= Len(Saves[Root]) /\ current[Root] # 0
    BY ChatAssumption DEF ChatInv, ChatTypeOK
  <2>2. DOMAIN Saves[Root] = 1 .. Len(Saves[Root]) BY <2>1, ChatAssumption
  <2>3. QED BY <2>1, <2>2
<1>2. GoodRow(s) /\ s \in Session /\ (s.status # "active" => s = session)
  <2>1. CASE NeedsRestart(session, g) BY <1>1, <2>1, RestartedGood
  <2>2. CASE ~ NeedsRestart(session, g) BY <1>1, <2>2 DEF ChatInv
  <2>3. QED BY <2>1, <2>2
<1>3. /\ turn' = [turn EXCEPT ![t] = "reply"] /\ working' = [working EXCEPT ![t] = s]
      /\ loaded' = [loaded EXCEPT ![t] = session]
      /\ view' = [view EXCEPT ![t][Root] = current[Root]]
      /\ heard' = [heard EXCEPT ![t] = reply]
      /\ chatSpent' = [chatSpent EXCEPT !.messages = @ + 1]
      /\ UNCHANGED << session, current, outdated, hops, cutOff >>
      /\ (s.status = "active" \/ DeadEndAnswers(s, g))
  BY DEF Read
<1>4. chatSpent' \in [{"messages", "edits", "losses"} -> Nat] BY <1>3, ChatSpentTyped
<1>5. /\ view' \in [Turn -> [Flow -> Nat]] /\ view'[t][Root] = current[Root]
      /\ \A u \in Turn, f \in Flow : view'[u][f] <= Len(Saves[f])
  BY <1>1, <1>3 DEF ChatInv, ChatTypeOK
<1> HIDE DEF s, g
<1>6. ChatTypeOK' BY <1>1, <1>2, <1>3, <1>4, <1>5 DEF ChatInv, ChatTypeOK
<1>7. working'[t] = s /\ turn'[t] = "reply" /\ loaded'[t] = session'
  BY <1>3 DEF ChatInv, ChatTypeOK
<1>8. ASSUME s.status = "completed" PROVE Standing(t)'
  <2>1. s = session /\ DeadEndAnswers(s, g) BY <1>2, <1>3, <1>8
  <2>2. Place(s) = Root /\ s.node \in DOMAIN g
    BY <2>1 DEF DeadEndAnswers, InSubflow, Place, FlowAt, Depth
  <2>3. view'[t][Root] # 0 BY <1>5 DEF ChatInv
  <2>4. Graph(t)' = g BY <1>5, <1>7, <2>2, <2>3 DEF Graph, Shown, Seen, g
  <2>5. QED BY <1>7, <2>2, <2>3, <2>4 DEF Standing, OnBlock
<1>9. ASSUME NEW u \in Turn PROVE InTurn(u)'
  <2>1. u = t BY DEF OneAtATime
  <2>2. QED BY <1>2, <1>7, <1>8, <2>1 DEF InTurn
<1>10. GoodRow(session') /\ current'[Root] # 0 BY <1>3 DEF ChatInv
<1>11. QED BY <1>6, <1>9, <1>10 DEF ChatInv

LEMMA MakeFileKeeps ==
  ASSUME OneAtATime, ChatInv, NEW t \in Turn, MakeFile(t)
  PROVE  ChatInv'
<1> DEFINE w == working[t]
           p == Place(w)
<1>1. turn[t] # "idle" /\ hops[t] < MaxInternalHops /\ OnBlock(t) BY DEF MakeFile, HopOn
<1>2. GoodRow(w) /\ p \in Flow /\ Committed(t) = w /\ w \in Session /\ Depth(w) \in Nat
  BY <1>1, AtWork, CommittedIs, PlaceTyped DEF GoodRow, Framed
<1>3. /\ session' = w /\ loaded' = [loaded EXCEPT ![t] = w]
      /\ turn' = [turn EXCEPT ![t] = "filed"] /\ Looks(t, w)
      /\ UNCHANGED << current, working, heard, hops, cutOff, chatSpent >>
  BY <1>2 DEF MakeFile
<1>4. outdated' \in BOOLEAN BY DatedTyped DEF MakeFile
<1>5. Seen(t, p) # 0
  <2>1. DOMAIN << >> = {} OBVIOUS
  <2>2. QED BY <1>1, <2>1 DEF OnBlock, Graph, Shown
<1>6. p \in Looked(t, w)
  <2>1. p = FlowAt(w, Depth(w)) /\ Depth(w) \in 0 .. Depth(w) BY <1>2 DEF Place
  <2>2. QED BY <2>1 DEF Looked
<1> DEFINE L == Looked(t, w)
<1>7. view' = [view EXCEPT ![t] = [f \in Flow |-> IF f \in L THEN Seen(t, f) ELSE view[t][f]]]
  BY <1>3 DEF Looks, ChatInv, ChatTypeOK
<1> HIDE DEF L
<1>8. /\ view' \in [Turn -> [Flow -> Nat]]
      /\ \A u \in Turn, f \in Flow : view'[u][f] <= Len(Saves[f])
      /\ view'[t][p] = Seen(t, p)
  <2>1. \A f \in Flow : Seen(t, f) \in Nat /\ Seen(t, f) <= Len(Saves[f])
    BY DEF Seen, ChatInv, ChatTypeOK
  <2>2. view' \in [Turn -> [Flow -> Nat]] BY <1>7, <2>1 DEF ChatInv, ChatTypeOK
  <2>3. \A u \in Turn, f \in Flow : view'[u][f] <= Len(Saves[f])
    BY <1>7, <2>1 DEF ChatInv, ChatTypeOK
  <2>4. view'[t][p] = Seen(t, p) BY <1>2, <1>6, <1>7 DEF ChatInv, ChatTypeOK, L
  <2>5. QED BY <2>2, <2>3, <2>4
<1>9. ChatTypeOK' BY <1>2, <1>3, <1>4, <1>8 DEF ChatInv, ChatTypeOK
<1>10. Standing(t)'
  <2>1. working'[t] = w /\ Place(working'[t]) = p BY <1>3
  <2>2. Graph(t)' = Graph(t) BY <1>3, <1>5, <1>8, <2>1 DEF Graph, Shown, Seen
  <2>3. QED BY <1>1, <1>5, <1>8, <2>1, <2>2 DEF Standing, OnBlock
<1>11. working'[t] = w /\ turn'[t] = "filed" /\ loaded'[t] = session' /\ hops'[t] < MaxInternalHops
  BY <1>1, <1>3 DEF ChatInv, ChatTypeOK
<1>12. ASSUME NEW u \in Turn PROVE InTurn(u)'
  <2>1. u = t BY DEF OneAtATime
  <2> HIDE DEF w
  <2>2. QED BY <1>2, <1>10, <1>11, <2>1 DEF InTurn
<1>13. GoodRow(session') /\ current'[Root] # 0 BY <1>2, <1>3 DEF ChatInv
<1>14. QED BY <1>9, <1>12, <1>13 DEF ChatInv

\* What operators do between two steps of a turn.
LEMMA EditedKeeps ==
  ASSUME ChatInv, UNCHANGED << session, turn, working, loaded, view, heard, hops, cutOff >>,
         chatSpent' \in [{"messages", "edits", "losses"} -> Nat], outdated' \in BOOLEAN,
         current' \in [Flow -> Nat], \A f \in Flow : current'[f] <= Len(Saves[f]),
         current'[Root] # 0
  PROVE  ChatInv'
<1>1. ChatTypeOK' BY DEF ChatInv, ChatTypeOK
<1>2. ASSUME NEW t \in Turn, Standing(t) PROVE Standing(t)'
  <2>1. working' = working /\ view' = view /\ view[t][Place(working[t])] # 0
    BY <1>2 DEF Standing
  <2>2. Graph(t)' = Graph(t) BY <2>1 DEF Graph, Shown, Seen
  <2>3. QED BY <1>2, <2>1, <2>2 DEF Standing, OnBlock
<1>3. ASSUME NEW t \in Turn, turn[t] # "idle" PROVE InTurn(t)'
  <2>1. InTurn(t) BY <1>3 DEF ChatInv
  <2>2. QED BY <1>2, <2>1 DEF InTurn
<1>4. QED BY <1>1, <1>3 DEF ChatInv

LEMMA SaveFlowKeeps ==
  ASSUME ChatInv, NEW f \in Flow, SaveFlow(f)
  PROVE  ChatInv'
<1>1. /\ UNCHANGED << session, turn, working, loaded, view, heard, hops, cutOff >>
      /\ current' = [current EXCEPT ![f] = @ + 1] /\ current[f] < Len(Saves[f])
      /\ outdated' = (outdated \/ f = Root)
  BY DEF SaveFlow, Edits
<1>2. chatSpent' \in [{"messages", "edits", "losses"} -> Nat]
  BY ChatSpentTyped DEF SaveFlow, Edits
<1>3. outdated' \in BOOLEAN BY <1>1 DEF ChatInv, ChatTypeOK
<1>4. current \in [Flow -> Nat] /\ \A h \in Flow : current[h] <= Len(Saves[h])
  BY DEF ChatInv, ChatTypeOK
<1>5. Len(Saves[f]) \in Nat BY ChatAssumption
<1>6. current' \in [Flow -> Nat] BY <1>1, <1>4
<1>7. \A h \in Flow : current'[h] <= Len(Saves[h]) BY <1>1, <1>4, <1>5
<1>8. current'[Root] # 0 BY <1>1, <1>4, ChatAssumption DEF ChatInv
<1>9. QED BY <1>1, <1>2, <1>3, <1>6, <1>7, <1>8, EditedKeeps

LEMMA DeleteFlowKeeps ==
  ASSUME ChatInv, NEW f \in Flow, DeleteFlow(f)
  PROVE  ChatInv'
<1>1. /\ UNCHANGED << session, turn, working, loaded, view, heard, hops, cutOff >>
      /\ current' = [current EXCEPT ![f] = 0] /\ f # Root /\ outdated' = outdated
  BY DEF DeleteFlow, Edits
<1>2. chatSpent' \in [{"messages", "edits", "losses"} -> Nat]
  BY ChatSpentTyped DEF DeleteFlow, Edits
<1>3. outdated' \in BOOLEAN BY <1>1 DEF ChatInv, ChatTypeOK
<1>4. current \in [Flow -> Nat] /\ \A h \in Flow : current[h] <= Len(Saves[h])
  BY DEF ChatInv, ChatTypeOK
<1>5. Len(Saves[f]) \in Nat BY ChatAssumption
<1>6. current' \in [Flow -> Nat] BY <1>1, <1>4
<1>7. \A h \in Flow : current'[h] <= Len(Saves[h]) BY <1>1, <1>4, <1>5
<1>8. current'[Root] # 0 BY <1>1, <1>4 DEF ChatInv
<1>9. QED BY <1>1, <1>2, <1>3, <1>6, <1>7, <1>8, EditedKeeps

LEMMA SessionAgesKeeps ==
  ASSUME ChatInv, SessionAges
  PROVE  ChatInv'
<1>1. /\ UNCHANGED << session, turn, working, loaded, view, heard, hops, cutOff >>
      /\ UNCHANGED current /\ outdated' = TRUE
  BY DEF SessionAges, Edits
<1>2. chatSpent' \in [{"messages", "edits", "losses"} -> Nat]
  BY ChatSpentTyped DEF SessionAges, Edits
<1>3. /\ current' \in [Flow -> Nat] /\ current'[Root] # 0
      /\ \A h \in Flow : current'[h] <= Len(Saves[h])
  BY <1>1 DEF ChatInv, ChatTypeOK
<1>4. QED BY <1>1, <1>2, <1>3, EditedKeeps

-----------------------------------------------------------------------------
(* The theorems.                                                            *)

LEMMA ChatStarts == ChatInit => ChatInv
<1> SUFFICES ASSUME ChatInit PROVE ChatInv OBVIOUS
<1> DEFINE nothing == Entry(Saves[Root][1].graph)
<1>1. nothing \in Session /\ GoodRow(nothing) BY EntryTyped
<1> HIDE DEF nothing
<1>2. session = nothing /\ working = [t \in Turn |-> nothing] /\ loaded = working
      /\ turn = [t \in Turn |-> "idle"] /\ current = [f \in Flow |-> 1]
  BY DEF ChatInit, nothing
<1>3. ASSUME NEW f \in Flow PROVE Len(Saves[f]) \in Nat \ {0}
  <2>1. PICK S : Saves[f] \in Seq(S) BY ChatAssumption
  <2>2. Saves[f] # << >> BY ChatAssumption
  <2>3. QED BY <2>1, <2>2
<1>4. MaxInternalHops \in Nat /\ Root \in Flow BY ChatAssumption
<1>5. ChatTypeOK
  <2>1. session \in Session /\ working \in [Turn -> Session] /\ loaded \in [Turn -> Session]
    BY <1>1, <1>2
  <2>2. current \in [Flow -> Nat] /\ \A f \in Flow : current[f] <= Len(Saves[f])
    BY <1>2, <1>3
  <2>3. /\ view \in [Turn -> [Flow -> Nat]]
        /\ \A t \in Turn, f \in Flow : view[t][f] <= Len(Saves[f])
    BY <1>3 DEF ChatInit
  <2>4. hops \in [Turn -> 0 .. MaxInternalHops] BY <1>4 DEF ChatInit
  <2>5. /\ outdated \in BOOLEAN /\ cutOff \in BOOLEAN
        /\ turn \in [Turn -> {"idle", "reply", "hop", "filed", "saving", "raised"}]
        /\ heard \in [Turn -> Option \cup {"text"}]
    BY DEF ChatInit
  <2>6. chatSpent \in [{"messages", "edits", "losses"} -> Nat]
    <3>1. chatSpent = [messages |-> 0, edits |-> 0, losses |-> 0] BY DEF ChatInit
    <3>2. QED BY <3>1
  <2>7. QED BY <2>1, <2>2, <2>3, <2>4, <2>5, <2>6 DEF ChatTypeOK
<1>6. QED BY <1>1, <1>2, <1>4, <1>5 DEF ChatInv

LEMMA ChatKeeps == ASSUME OneAtATime, ChatInv, [ChatNext]_chatVars PROVE ChatInv'
<1>1. ASSUME NEW t \in Turn, TurnStep(t) PROVE ChatInv'
  BY <1>1, CalleeGoneKeeps, AnswerGraphKeeps, DeliverKeeps, AnswerAgainKeeps, BlocksKeep,
     AIRaisesKeeps, MakeFileKeeps, FileMadeKeeps, RunFlowKeeps, BlockGoneKeeps, BailOutKeeps,
     SaveTurnKeeps DEF TurnStep
<1>2. ASSUME NEW t \in Turn, TurnDies(t) PROVE ChatInv' BY <1>2, TurnDiesKeeps
<1>3. ASSUME NEW t \in Turn, NEW reply \in Option \cup {"text"}, Read(t, reply) PROVE ChatInv'
  BY <1>3, ReadKeeps
<1>4. ASSUME NEW f \in Flow, SaveFlow(f) \/ DeleteFlow(f) PROVE ChatInv'
  BY <1>4, SaveFlowKeeps, DeleteFlowKeeps
<1>5. ASSUME SessionAges PROVE ChatInv' BY <1>5, SessionAgesKeeps
<1>6. ASSUME UNCHANGED chatVars PROVE ChatInv'
  <2>1. /\ UNCHANGED << session, turn, working, loaded, view, heard, hops, cutOff >>
        /\ UNCHANGED << chatSpent, outdated, current >>
    BY <1>6 DEF chatVars
  <2>2. /\ chatSpent' \in [{"messages", "edits", "losses"} -> Nat] /\ outdated' \in BOOLEAN
        /\ current' \in [Flow -> Nat] /\ current'[Root] # 0
        /\ \A f \in Flow : current'[f] <= Len(Saves[f])
    BY <2>1 DEF ChatInv, ChatTypeOK
  <2>3. QED BY <2>1, <2>2, EditedKeeps
<1>7. QED BY <1>1, <1>2, <1>3, <1>4, <1>5, <1>6 DEF ChatNext

LEMMA ChatStands == ASSUME OneAtATime PROVE ChatSpec => []ChatInv
<1>1. ChatInv /\ [ChatNext]_chatVars => ChatInv' BY ChatKeeps
<1>2. QED BY ChatStarts, <1>1, PTL DEF ChatSpec

\* Type correctness, of the row, the copies of it and what a turn has read.
THEOREM ChatTypeCorrect == ASSUME OneAtATime PROVE ChatSpec => []ChatTypeOK
<1>1. ChatInv => ChatTypeOK BY DEF ChatInv
<1>2. QED BY ChatStands, <1>1, PTL

\* A conversation is in one place, whatever was edited, deleted or cut short
\* (push, pop, _fail_call, advance_flow_session).
THEOREM ConversationIsOnePlace == ASSUME OneAtATime PROVE ChatSpec => []RowIsOnePlace
<1>1. ChatInv => RowIsOnePlace BY GoodRowIs DEF ChatInv, InTurn, RowIsOnePlace
<1>2. QED BY ChatStands, <1>1, PTL

\* No flow gets to see another one's variables (push, pop).
THEOREM CallsKeepScopesApart == ASSUME OneAtATime PROVE ChatSpec => []ScopesApart
<1>1. ChatInv => ScopesApart BY GoodRowIs DEF ChatInv, InTurn, ScopesApart
<1>2. QED BY ChatStands, <1>1, PTL
=============================================================================
