----------------------------- MODULE MCServices -----------------------------
(***************************************************************************)
(* Small instances of five parts that share no state: the building of      *)
(* export files, the runs of a flow that copies records, the renewal of a  *)
(* connection's token, the bucket that paces its requests and a visitor's  *)
(* conversation. They are checked side by side in one run: the first state *)
(* says which part moves, and the others stay as they began.               *)
(***************************************************************************)
EXTENDS ExportQueue, SyncRun, TokenRefresh, RateLimit, MCChatFlow

CONSTANTS e1, e2, report, ka, kb, kc

\* Two people export the same table on the same day in one session.
SameName == [e \in {e1, e2} |-> report]

\* The fourth and the fifth record are the first one again.
FiveRecords == << ka, kb, kc, ka, ka >>

\* No pages at all, page numbers, offsets and tokens. Page numbers a vendor counts
\* from one behave as those from nought whose walk begins where it was declared.
VendorRules == { [kind |-> "none", first |-> 1], [kind |-> "number", first |-> 0],
                 [kind |-> "offset", first |-> 0], [kind |-> "token", first |-> 1] }

VARIABLE part   \* the part that moves

servicesVars == << exportVars, syncVars, tokenVars, rateVars, chatVars, part >>

\* Type invariant: every part's rows, workers and hands keep their types, and
\* one part moves.
ServicesTypeOK ==
  /\ part \in {"export", "sync", "token", "rate", "chat"}
  /\ ExportTypeOK /\ SyncTypeOK /\ TokenTypeOK /\ RateTypeOK /\ ChatTypeOK

ServicesInit ==
  /\ part \in {"export", "sync", "token", "rate", "chat"}
  /\ ExportInit /\ SyncInit /\ TokenInit /\ RateInit /\ ChatInit
  /\ part # "sync" => walk.kind = "none" /\ operation = "plain"
  /\ part # "token" => ~ rotates

Moves(p) == part = p /\ part' = part

ServicesNext ==
  \/ Moves("export") /\ ExportNext /\ UNCHANGED << syncVars, tokenVars, rateVars, chatVars >>
  \/ Moves("sync") /\ SyncNext /\ UNCHANGED << exportVars, tokenVars, rateVars, chatVars >>
  \/ Moves("token") /\ TokenNext /\ UNCHANGED << exportVars, syncVars, rateVars, chatVars >>
  \/ Moves("rate") /\ RateNext /\ UNCHANGED << exportVars, syncVars, tokenVars, chatVars >>
  \/ Moves("chat") /\ ChatNext /\ UNCHANGED << exportVars, syncVars, tokenVars, rateVars >>

\* ExportFair, for the part that moves.
ServicesFair ==
  /\ \A w \in ExportWorkers :
       /\ WF_exportVars(part = "export" /\ BuildStep(w))
       /\ WF_exportVars(part = "export" /\ SaveCheckpoint(w))
       /\ WF_exportVars(part = "export" /\ Return(w))
  /\ \A e \in Exports : WF_exportVars(part = "export" /\ JobLapses(e))

ServicesSpec == ServicesInit /\ [][ServicesNext]_servicesVars /\ ServicesFair
=============================================================================
