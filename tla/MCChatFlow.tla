----------------------------- MODULE MCChatFlow -----------------------------
(***************************************************************************)
(* Three flows of a shop's chatbot.  `front` is the chatbot's own: it      *)
(* offers orders or an exit, runs `orders` for the first, and makes and    *)
(* hands over a file of what came back.  `orders` asks for a number, looks *)
(* it up in a graph and runs `mail`, whose second save runs `orders`.      *)
(***************************************************************************)
EXTENDS ChatFlow, TLC

CONSTANTS front, orders, mail, number, found

None == << >>

\* A block, its wires, and what it needs besides them.
B(type, out) ==
  [type |-> type, out |-> out, stores |-> Nothing, calls |-> Nothing, inputs |-> {},
   outputs |-> {}, takes |-> {}]
Keeps(b, name)  == [b EXCEPT !.stores = name]
Of(b, blocks)   == [b EXCEPT !.takes = blocks]
Calls(b, flow, inputs, outputs) ==
  [b EXCEPT !.calls = flow, !.inputs = inputs, !.outputs = outputs]

Front ==
  [f_start |-> B("start", [default |-> "f_menu"]),
   f_menu  |-> Keeps(B("menu", [look |-> "f_run", leave |-> "f_end"]), number),
   f_run   |-> Calls(B("run_flow", [default |-> "f_if", error |-> "f_say"]),
                     orders, {<< Nothing, found >>}, {<< found, found >>}),
   f_if    |-> B("if_else", [true |-> "f_ai", false |-> "f_again"]),
   f_again |-> B("goto", [default |-> "f_if"]),
   f_ai    |-> B("ai_fallback", [default |-> "f_file"]),
   f_file  |-> Of(B("create_file", [default |-> "f_hand", error |-> "f_say"]), {"f_ai"}),
   f_hand  |-> Of(B("download_file", [default |-> "f_last"]), {"f_file"}),
   f_say   |-> B("send_message", [default |-> "f_menu"]),
   f_last  |-> B("ai_fallback", None),
   f_end   |-> B("end", None)]

\* The second save takes the menu away.
FrontLater == [n \in DOMAIN Front \ {"f_menu", "f_say"} |->
  IF n = "f_start" THEN B("start", [default |-> "f_run"])
  ELSE IF n = "f_run" THEN [Front[n] EXCEPT !.out = [default |-> "f_ai"]]
  ELSE IF n = "f_file" THEN [Front[n] EXCEPT !.out = [default |-> "f_hand"]] ELSE Front[n]]

Orders ==
  [o_start |-> B("start", [default |-> "o_ask"]),
   o_ask   |-> Keeps(B("ask_input", [default |-> "o_graph"]), number),
   o_graph |-> Keeps(B("run_graph", [default |-> "o_run"]), found),
   o_run   |-> Calls(B("run_flow", [default |-> "o_end"]),
                     mail, {<< found, found >>}, {<< number, number >>}),
   o_end   |-> B("end", None)]

\* The second save ends in the graph.
OrdersLater == [n \in {"o_start", "o_ask", "o_graph"} |->
  IF n = "o_graph" THEN [Orders[n] EXCEPT !.out = None] ELSE Orders[n]]

Mail ==
  [m_start |-> B("start", [default |-> "m_mail"]),
   m_mail  |-> Keeps(B("send_email", None), number)]

MailLater ==
  [m_start |-> B("start", [default |-> "m_run"]),
   m_run   |-> Calls(B("run_flow", [error |-> "m_none"]), orders, {}, {}),
   m_none  |-> B("run_no_graph", None)]

Published(g) == [graph |-> g, callable |-> TRUE]
Private(g)   == [graph |-> g, callable |-> FALSE]

ShopSaves ==
  (front :> << Private(Front), Private(FrontLater) >>) @@
  (orders :> << Published(Orders), Published(OrdersLater) >>) @@
  (mail :> << Published(Mail), Published(MailLater), Private(MailLater) >>)
=============================================================================
