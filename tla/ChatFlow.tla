------------------------------ MODULE ChatFlow ------------------------------
(***************************************************************************)
(* A visitor's conversation with a chatbot whose operator drew it as a     *)
(* flow: the session row, the turn that walks the flow's blocks hop by hop *)
(* in its own copy of the row and writes it back, the flows run as a step  *)
(* of another one, and the operators who save and delete flows meanwhile.  *)
(* What is said and what a variable holds are left out: a scope is the set *)
(* of the names that have a value.  One action is the code up to the next  *)
(* await at which another session can commit.                              *)
(***************************************************************************)
EXTENDS Integers, Sequences, FiniteSets

CONSTANTS
  Flow, Root,      \* the flows, and the one attached to the chatbot
  Saves,           \* what each save of a flow leaves in its row
  Name, Nothing,   \* variables, and the name of none
  Option,          \* options of menus, which are also the ports of their edges
  Turn,            \* requests that carry this visitor's messages
  MaxInternalHops, \* _MAX_INTERNAL_HOPS
  MaxCallDepth,    \* MAX_CALL_DEPTH
  MaxMessages,     \* bound: messages
  MaxEdits,        \* bound: saves and deletions of flows, and nights between messages
  MaxLosses        \* bound: turns whose process dies

BlocksOf    == [f \in Flow |-> UNION {DOMAIN Saves[f][i].graph : i \in DOMAIN Saves[f]}]
Block       == UNION {BlocksOf[f] : f \in Flow}
StartOf(g)  == CHOOSE n \in DOMAIN g : g[n].type = "start"

\* What _validate_graph lets an operator save.  Ids of two flows differ here.
ASSUME ChatAssumption ==
  /\ Root \in Flow /\ Nothing \notin Name \cup Flow
  /\ {MaxInternalHops, MaxCallDepth} \subseteq Nat \ {0}
  /\ {MaxMessages, MaxEdits, MaxLosses} \subseteq Nat
  /\ \A f \in Flow :
       /\ Saves[f] \in Seq([graph : {Saves[f][i].graph : i \in DOMAIN Saves[f]},
                            callable : BOOLEAN])
       /\ Saves[f] # << >>
       /\ \A h \in Flow \ {f} : BlocksOf[f] \cap BlocksOf[h] = {}
       /\ \A i \in DOMAIN Saves[f] :
            LET g == Saves[f][i].graph
            IN  /\ \E n \in DOMAIN g : g[n].type = "start"
                /\ \A n \in DOMAIN g :
                     /\ \A p \in DOMAIN g[n].out : g[n].out[p] \in DOMAIN g
                     /\ g[n].type = "goto" => "default" \in DOMAIN g[n].out
                     /\ g[n].stores \in Name \cup {Nothing}
                     /\ g[n].calls \in Flow \cup {Nothing}
                     /\ g[n].inputs \subseteq (Name \cup {Nothing}) \X Name
                     /\ g[n].outputs \subseteq Name \X Name
                     /\ g[n].takes \subseteq DOMAIN g

VARIABLES
  session,   \* the row of chatbot_flow_sessions
  current,   \* how often each flow has been saved; 0 once it is deleted
  outdated,  \* the row is older than the root flow's save, or than 12 hours
  turn,     \* where each turn is
  working,   \* its copy of the row, with what it has changed
  loaded,    \* the same as it was read or last written
  view,      \* the save of each flow it has read; 0 if none yet
  heard,     \* what the visitor typed or picked
  hops,
  cutOff,    \* history: a turn ran into the hop limit
  chatSpent

chatVars == << session, current, outdated, turn, working, loaded, view, heard, hops,
               cutOff, chatSpent >>

Frame == [flow : Flow, back : Block, scope : SUBSET Name, outputs : SUBSET (Name \X Name)]

\* A row's columns; told is history, the names each running flow may know of.
Session ==
  [status : {"active", "completed"}, node : Block, stack : Seq(Frame), scope : SUBSET Name,
   made : SUBSET Block, asks : BOOLEAN, told : [Flow -> SUBSET Name]]

FlowAt(s, d) == IF d = 0 THEN Root ELSE s.stack[d].flow
Depth(s)     == Len(s.stack)
Place(s)     == FlowAt(s, Depth(s))
InSubflow(s) == s.stack # << >>
OpenFlows(s)   == {FlowAt(s, d) : d \in 0 .. Depth(s)}

Entry(g) ==
  [status |-> "active", node |-> StartOf(g), stack |-> << >>, scope |-> {}, made |-> {},
   asks |-> FALSE, told |-> [f \in Flow |-> {}]]

ChatTypeOK ==
  /\ session \in Session
  /\ current \in [Flow -> Nat] /\ \A f \in Flow : current[f] <= Len(Saves[f])
  /\ outdated \in BOOLEAN /\ cutOff \in BOOLEAN
  /\ turn \in [Turn -> {"idle", "reply", "hop", "filed", "saving", "raised"}]
  /\ working \in [Turn -> Session] /\ loaded \in [Turn -> Session]
  /\ view \in [Turn -> [Flow -> Nat]] /\ \A t \in Turn, f \in Flow : view[t][f] <= Len(Saves[f])
  /\ heard \in [Turn -> Option \cup {"text"}]
  /\ hops \in [Turn -> 0 .. MaxInternalHops]
  /\ chatSpent \in [{"messages", "edits", "losses"} -> Nat]

ChatInit ==
  /\ session = Entry(Saves[Root][1].graph)
  /\ current = [f \in Flow |-> 1]
  /\ outdated = FALSE /\ cutOff = FALSE
  /\ turn = [t \in Turn |-> "idle"]
  /\ working = [t \in Turn |-> session] /\ loaded = working
  /\ view = [t \in Turn |-> [f \in Flow |-> 0]]
  /\ heard = [t \in Turn |-> "text"]
  /\ hops = [t \in Turn |-> 0]
  /\ chatSpent = [messages |-> 0, edits |-> 0, losses |-> 0]

-----------------------------------------------------------------------------
(* What a step leaves: the copy of the row, whether the turn is over, and  *)
(* whether the visitor is told something of the flow's own.                *)

GoOn(s)      == [s |-> s, over |-> FALSE, says |-> FALSE]
Say(s)       == [s |-> s, over |-> TRUE, says |-> TRUE]
EndOfFlow(s) == [s |-> [s EXCEPT !.status = "completed"], over |-> TRUE, says |-> FALSE]

AdvanceOrComplete(s, g, n, port) ==
  IF port \in DOMAIN g[n].out THEN GoOn([s EXCEPT !.node = g[n].out[port]])
  ELSE EndOfFlow([s EXCEPT !.node = n])

Store(s, b) ==
  IF b.stores = Nothing THEN s
  ELSE [s EXCEPT !.scope = @ \cup {b.stores}, !.told[Place(s)] = @ \cup {b.stores}]

Made(s, n) == [s EXCEPT !.made = @ \cup {n}]

(* The call stack.  A literal input has no name to be read from.            *)

ResolveInputs(b, scope) == {i[2] : i \in {j \in b.inputs : j[1] \in scope \cup {Nothing}}}
Brought(outputs, scope) == {o[2] : o \in {p \in outputs : p[1] \in scope}}

\* Mutations: the callee starts with what the caller knows, and the caller goes
\* on with what the callee knew.
PushKeepsScope(s, b, n, f) ==
  [s EXCEPT !.stack = Append(@, [flow |-> f, back |-> n, scope |-> s.scope,
                                 outputs |-> b.outputs]),
            !.scope = @ \cup ResolveInputs(b, @)]

Push(s, b, n, f) ==
  [s EXCEPT !.stack = Append(@, [flow |-> f, back |-> n, scope |-> s.scope,
                                 outputs |-> b.outputs]),
            !.scope = ResolveInputs(b, @)]

Pop(s) ==
  LET top == s.stack[Depth(s)]
  IN  [s EXCEPT !.stack = SubSeq(@, 1, Depth(s) - 1),
                !.scope = top.scope \cup Brought(top.outputs, @)]

\* History: what the callee is told, and what the caller is told by it.
Tell(s, f, names)   == [s EXCEPT !.told[f] = names]
TellBack(s, caller) ==
  LET top == s.stack[Depth(s)]
  IN  [s EXCEPT !.told[caller] = @ \cup Brought(top.outputs, s.told[top.flow]),
                !.told[top.flow] = {}]

\* The caller goes on after its Run Flow block, in the graph `drawn` shows of it.
ReturnFromCall(drawn, s, port) ==
  LET back   == s.stack[Depth(s)].back
      caller == FlowAt(s, Depth(s) - 1)
      popped == Pop(TellBack(s, caller))
  IN  IF back \in DOMAIN drawn[caller]
      THEN AdvanceOrComplete(popped, drawn[caller], back, port)
      ELSE EndOfFlow(popped)

FailedStep(drawn, s) ==
  LET b == drawn[Place(s)][s.node]
  IN  IF "error" \in DOMAIN b.out THEN GoOn([s EXCEPT !.node = b.out["error"]])
      ELSE IF InSubflow(s) THEN ReturnFromCall(drawn, s, "error")
      ELSE EndOfFlow(s)

\* A callee's path that ends without an End block ends the call.
Unwind(drawn, o) ==
  IF o.over /\ InSubflow(o.s) /\ o.s.status = "completed"
  THEN LET r == ReturnFromCall(drawn, [o.s EXCEPT !.status = "active"], "default")
       IN  [r EXCEPT !.over = @ \/ o.says]
  ELSE o

-----------------------------------------------------------------------------
(* What a turn sees of the flows.  Each is read once and kept.             *)

Seen(t, f)  == IF view[t][f] # 0 THEN view[t][f] ELSE current[f]
Shown(t, f) == IF Seen(t, f) = 0 THEN << >> ELSE Saves[f][Seen(t, f)].graph
Drawn(t)    == [f \in Flow |-> Shown(t, f)]
Graph(t)    == Shown(t, Place(working[t]))
Here(t)     == Graph(t)[working[t].node]
OnBlock(t)  == working[t].node \in DOMAIN Graph(t)

\* The flows read by a step of t that goes from its copy of the row to s.
Looked(t, s) ==
  {FlowAt(working[t], d) : d \in {k \in 0 .. Depth(working[t]) :
                                    k >= Depth(s) \/ k = Depth(working[t])}}
Looks(t, s) ==
  view' = [view EXCEPT ![t] = [f \in Flow |-> IF f \in Looked(t, s) THEN Seen(t, f) ELSE @[f]]]

StepsTo(t, o) ==
  /\ working' = [working EXCEPT ![t] = o.s]
  /\ turn' = [turn EXCEPT ![t] = IF o.over THEN "saving" ELSE "hop"]
  /\ Looks(t, o.s)
  /\ UNCHANGED << session, current, outdated, loaded, cutOff, chatSpent >>

Replies(t, o) == StepsTo(t, o) /\ heard' = [heard EXCEPT ![t] = "text"] /\ UNCHANGED hops

\* One round of the loop ends with what its block's handler returned.
Hops(t, o) ==
  /\ StepsTo(t, Unwind(Drawn(t), o))
  /\ hops' = [hops EXCEPT ![t] = @ + 1]
  /\ UNCHANGED heard

HopOn(t, types) ==
  turn[t] = "hop" /\ hops[t] < MaxInternalHops /\ OnBlock(t) /\ Here(t).type \in types

-----------------------------------------------------------------------------
(* A message arrives.                                                       *)

\* The question a graph asked is not forgotten.
Restarted(s, g) ==
  [s EXCEPT !.status = "active", !.node = StartOf(g), !.stack = << >>, !.scope = {},
            !.made = {}, !.told = [f \in Flow |-> {}]]

NeedsRestart(s, g) == outdated \/ (~ InSubflow(s) /\ s.node \notin DOMAIN g)

DeadEndAnswers(s, g) ==
  ~ InSubflow(s) /\ s.node \in DOMAIN g /\ g[s.node].type = "ai_fallback"

\* A conversation that is over is left as it is and answered by plain AI.
Read(t, reply) ==
  LET g == Saves[Root][current[Root]].graph
      s == IF NeedsRestart(session, g) THEN Restarted(session, g) ELSE session
  IN  /\ turn[t] = "idle" /\ chatSpent.messages < MaxMessages
      /\ s.status = "active" \/ DeadEndAnswers(s, g)
      /\ turn' = [turn EXCEPT ![t] = "reply"]
      /\ working' = [working EXCEPT ![t] = s]
      /\ loaded' = [loaded EXCEPT ![t] = session]
      /\ view' = [view EXCEPT ![t][Root] = current[Root]]
      /\ heard' = [heard EXCEPT ![t] = reply]
      /\ chatSpent' = [chatSpent EXCEPT !.messages = @ + 1]
      /\ UNCHANGED << session, current, outdated, hops, cutOff >>

Replying(t) == turn[t] = "reply" /\ working[t].status = "active"

\* The flow the visitor was in is deleted.
CalleeGone(t) ==
  /\ Replying(t) /\ Seen(t, Place(working[t])) = 0
  /\ Replies(t, ReturnFromCall(Drawn(t), working[t], "error"))

\* The message answers a question of a graph.
AnswerGraph(t) ==
  LET s == [working[t] EXCEPT !.asks = FALSE]
  IN  /\ Replying(t) /\ Seen(t, Place(s)) # 0 /\ working[t].asks
      /\ \/ Replies(t, Say(working[t]))
         \/ Replies(t, IF OnBlock(t) THEN FailedStep(Drawn(t), s) ELSE EndOfFlow(s))
         \/ Replies(t, IF OnBlock(t)
                       THEN AdvanceOrComplete(Store(s, Here(t)), Graph(t), s.node, "default")
                       ELSE GoOn(s))

Answers(t) ==
  \/ Here(t).type = "ask_input" /\ heard[t] = "text"
  \/ Here(t).type = "menu" /\ heard[t] \in DOMAIN Here(t).out

Deliver(t) ==
  LET s    == working[t]
      port == IF heard[t] = "text" THEN "default" ELSE heard[t]
      kept == Store(s, Here(t))
  IN  /\ Replying(t) /\ Seen(t, Place(s)) # 0 /\ ~ s.asks
      /\ IF OnBlock(t) /\ Answers(t)
         THEN Replies(t, GoOn(IF port \in DOMAIN Here(t).out
                              THEN [kept EXCEPT !.node = Here(t).out[port]] ELSE kept))
         ELSE IF OnBlock(t) /\ Here(t).type = "menu" /\ heard[t] \in Option
              THEN Replies(t, Say(s))
              ELSE Replies(t, GoOn(s))

-----------------------------------------------------------------------------
(* The blocks, one hop each.                                                *)

PlainStep(t) ==
  /\ HopOn(t, {"start", "goto", "if_else"})
  /\ \E port \in IF Here(t).type = "if_else" THEN {"true", "false"} ELSE {"default"} :
       Hops(t, AdvanceOrComplete(working[t], Graph(t), working[t].node, port))

AwaitStep(t) == HopOn(t, {"ask_input", "menu"}) /\ Hops(t, Say(working[t]))

SendMessage(t) ==
  LET o == AdvanceOrComplete(working[t], Graph(t), working[t].node, "default")
  IN  HopOn(t, {"send_message"}) /\ (Hops(t, o) \/ Hops(t, Say(o.s)))

EndStep(t) ==
  /\ HopOn(t, {"end"})
  /\ LET o == IF InSubflow(working[t]) THEN ReturnFromCall(Drawn(t), working[t], "default")
              ELSE EndOfFlow(working[t])
     IN  Hops(t, o) \/ Hops(t, Say(o.s))

\* What the AI answered; a table among it can be made a file of later.
AIAnswers(t) ==
  LET s == AdvanceOrComplete(working[t], Graph(t), working[t].node, "default").s
  IN  {Say(s), Say(Store(s, Here(t))), Say(Made(Store(s, Here(t)), working[t].node))}

AIStep(t) == HopOn(t, {"ai_fallback"}) /\ \E o \in AIAnswers(t) : Hops(t, o)

\* The visitor goes on with the AI block the flow came to its end on.
AnswerAgain(t) ==
  /\ turn[t] = "reply" /\ working[t].status = "completed"
  /\ \E o \in AIAnswers(t) : Replies(t, o)

\* The model's client raises something nobody planned for: the turn ends half done.
AIRaises(t) ==
  /\ HopOn(t, {"ai_fallback"}) \/ (turn[t] = "reply" /\ working[t].status = "completed")
  /\ turn' = [turn EXCEPT ![t] = "raised"]
  /\ working' = [working EXCEPT ![t] =
       AdvanceOrComplete(@, Graph(t), @.node, "default").s]
  /\ UNCHANGED << session, current, outdated, loaded, view, heard, hops, cutOff, chatSpent >>

Finished(t, s) ==
  AdvanceOrComplete(Made(Store(s, Here(t)), s.node), Graph(t), s.node, "default")

Fails(t) == Hops(t, FailedStep(Drawn(t), working[t]))

RunGraph(t) ==
  /\ HopOn(t, {"run_graph"})
  /\ \/ Hops(t, Say([working[t] EXCEPT !.asks = TRUE]))
     \/ Fails(t)
     \/ Hops(t, Finished(t, working[t]))

\* A run_graph whose graph nobody chose.
RunNoGraph(t) ==
  HopOn(t, {"run_no_graph"}) /\ Hops(t, Say(EndOfFlow(working[t]).s))

\* Mails, and hands over files: a file can only be one this conversation made.
SendOrHandOver(t) ==
  /\ HopOn(t, {"send_email", "download_file"})
  /\ \/ Fails(t)
     \/ /\ Here(t).type = "download_file" => Here(t).takes \cap working[t].made # {}
        /\ Hops(t, AdvanceOrComplete(Store(working[t], Here(t)), Graph(t), working[t].node,
                                     "default"))

Pick(t, c) == IF working[t][c] # loaded[t][c] THEN working[t][c] ELSE session[c]

\* Only the columns this turn changed are written.
Committed(t) ==
  [status |-> Pick(t, "status"), node |-> Pick(t, "node"), stack |-> Pick(t, "stack"),
   scope |-> Pick(t, "scope"), made |-> Pick(t, "made"), asks |-> Pick(t, "asks"),
   told |-> Pick(t, "told")]

\* A commit that is not the end of the turn dates the row to the beginning of
\* its transaction, before or after a save of the flow it did not see.
Dated(t) ==
  IF working[t] = loaded[t] THEN UNCHANGED outdated
  ELSE outdated' \in {FALSE, current[Root] # view[t][Root]}

\* file_crud.create commits the session of the turn.
MakeFile(t) ==
  /\ HopOn(t, {"create_file"}) /\ Here(t).takes \subseteq working[t].made
  /\ session' = Committed(t) /\ Dated(t)
  /\ loaded' = [loaded EXCEPT ![t] = working[t]]
  /\ turn' = [turn EXCEPT ![t] = "filed"] /\ Looks(t, working[t])
  /\ UNCHANGED << current, working, heard, hops, cutOff, chatSpent >>

FileFails(t) == HopOn(t, {"create_file"}) /\ Fails(t)

FileMade(t) == turn[t] = "filed" /\ Hops(t, Finished(t, working[t]))

\* Mutation: only the flow that calls counts as running.
OnlyNotItself(s, f) == f # Place(s) /\ Depth(s) < MaxCallDepth

\* A flow that runs further up is refused, and one that would be too deep.
MayCall(s, f) == f \notin OpenFlows(s) /\ Depth(s) < MaxCallDepth

RunFlow(t) ==
  LET s == working[t]
      b == Here(t)
      f == b.calls
  IN  /\ HopOn(t, {"run_flow"})
      /\ IF /\ f # Nothing /\ current[f] # 0
            /\ Saves[f][Seen(t, f)].callable /\ MayCall(s, f)
         THEN Hops(t, GoOn([Tell(Push(s, b, s.node, f), f, ResolveInputs(b, s.told[Place(s)]))
                              EXCEPT !.node = StartOf(Drawn(t)[f])]))
         ELSE Fails(t)

\* The block the turn is on is no longer drawn, or its flow is gone.
BlockGone(t) ==
  /\ turn[t] = "hop" /\ hops[t] < MaxInternalHops /\ ~ OnBlock(t)
  /\ StepsTo(t, IF InSubflow(working[t]) THEN ReturnFromCall(Drawn(t), working[t], "error")
                ELSE EndOfFlow(working[t]))
  /\ hops' = [hops EXCEPT ![t] = @ + 1] /\ UNCHANGED heard

BailOut(t) ==
  /\ turn[t] = "hop" /\ hops[t] = MaxInternalHops
  /\ turn' = [turn EXCEPT ![t] = "saving"]
  /\ working' = [working EXCEPT ![t].status = "completed"]
  /\ cutOff' = TRUE
  /\ UNCHANGED << session, current, outdated, loaded, view, heard, hops, chatSpent >>

-----------------------------------------------------------------------------
(* The end of a turn, and what happens to flows meanwhile.                  *)

Leave(t) ==
  LET nothing == Entry(Saves[Root][1].graph)
  IN  /\ turn' = [turn EXCEPT ![t] = "idle"]
      /\ working' = [working EXCEPT ![t] = nothing]
      /\ loaded' = [loaded EXCEPT ![t] = nothing]
      /\ view' = [view EXCEPT ![t] = [f \in Flow |-> 0]]
      /\ heard' = [heard EXCEPT ![t] = "text"]
      /\ hops' = [hops EXCEPT ![t] = 0]
      /\ UNCHANGED << current, cutOff >>

\* _persist_session dates the row itself; after an error the log's commit writes it.
SaveTurn(t) ==
  /\ turn[t] \in {"saving", "raised"}
  /\ session' = Committed(t)
  /\ IF turn[t] = "saving" THEN outdated' = FALSE ELSE Dated(t)
  /\ Leave(t) /\ UNCHANGED chatSpent

TurnDies(t) ==
  /\ turn[t] # "idle" /\ chatSpent.losses < MaxLosses
  /\ chatSpent' = [chatSpent EXCEPT !.losses = @ + 1]
  /\ Leave(t) /\ UNCHANGED << session, outdated >>

Edits ==
  /\ chatSpent.edits < MaxEdits
  /\ chatSpent' = [chatSpent EXCEPT !.edits = @ + 1]
  /\ UNCHANGED << session, turn, working, loaded, view, heard, hops, cutOff >>

SaveFlow(f) ==
  /\ Edits /\ current[f] # 0 /\ current[f] < Len(Saves[f])
  /\ current' = [current EXCEPT ![f] = @ + 1]
  /\ outdated' = (outdated \/ f = Root)

DeleteFlow(f) ==
  /\ Edits /\ f # Root /\ current[f] # 0
  /\ current' = [current EXCEPT ![f] = 0] /\ UNCHANGED outdated

\* Twelve hours pass between two messages.
SessionAges == Edits /\ ~ outdated /\ outdated' = TRUE /\ UNCHANGED current

TurnStep(t) ==
  \/ CalleeGone(t) \/ AnswerGraph(t) \/ Deliver(t) \/ AnswerAgain(t)
  \/ PlainStep(t) \/ AwaitStep(t) \/ SendMessage(t) \/ EndStep(t) \/ AIStep(t) \/ AIRaises(t)
  \/ RunGraph(t) \/ RunNoGraph(t) \/ SendOrHandOver(t)
  \/ MakeFile(t) \/ FileFails(t) \/ FileMade(t) \/ RunFlow(t)
  \/ BlockGone(t) \/ BailOut(t) \/ SaveTurn(t)

ChatNext ==
  \/ \E t \in Turn : TurnStep(t) \/ TurnDies(t) \/ \E reply \in Option \cup {"text"} : Read(t, reply)
  \/ \E f \in Flow : SaveFlow(f) \/ DeleteFlow(f)
  \/ SessionAges

ChatSpec == ChatInit /\ [][ChatNext]_chatVars

-----------------------------------------------------------------------------
(* What it promises to a visitor who sends one message at a time.           *)

\* A position and the stack it belongs to.
Sound(s) ==
  /\ Depth(s) <= MaxCallDepth
  /\ \A i \in 1 .. Depth(s) : s.stack[i].back \in BlocksOf[FlowAt(s, i - 1)]
  /\ \A i, j \in 0 .. Depth(s) : FlowAt(s, i) = FlowAt(s, j) => i = j
  /\ s.status = "active" => s.node \in BlocksOf[Place(s)]

\* Safety: the row says one place, whatever was edited or deleted, wherever a turn
\* died and although making a file commits half a turn: the visitor stands on a
\* block of the flow on top of the stack, every frame leads back to a block of the
\* flow below it, no flow is entered twice, and the stack keeps its limit.
RowIsOnePlace == Sound(session) /\ \A t \in Turn : turn[t] # "idle" => Sound(working[t])

\* What a flow knows while it runs, and while it waits for one it called.
Apart(s) ==
  /\ s.scope = s.told[Place(s)]
  /\ \A i \in 1 .. Depth(s) : s.stack[i].scope = s.told[FlowAt(s, i - 1)]

\* Safety: a flow knows what it collected, what it was given and what it got back,
\* and nothing else (push and pop keep the scopes of caller and callee apart, also
\* over messages, failures that cross calls and restarts).
ScopesApart == Apart(session) /\ \A t \in Turn : turn[t] # "idle" => Apart(working[t])

\* What _continue_dead_end_ai_fallback says of a conversation that is over: that it
\* ended outside every call, unless the hop limit ended it.
CompletedIsOutside == session.status = "completed" => session.stack = << >> \/ cutOff
=============================================================================
