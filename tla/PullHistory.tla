---------------------------- MODULE PullHistory ----------------------------
(***************************************************************************)
(* What a client that pulled at any time may still believe: for every row  *)
(* that is not shown any more, the number last drawn when it was.          *)
(***************************************************************************)
EXTENDS SyncServer

VARIABLE goneAfter  \* history, which no step reads; 0: shown, or never was

historyVars == <<serverVars, goneAfter>>

HistoryInit == ServerInit /\ goneAfter = [i \in Ids |-> 0]

HistoryStep(ops) ==
  /\ ServerStep(ops)
  /\ goneAfter' = [i \in Ids |-> IF Visible(rows', i) THEN 0
                                ELSE IF Visible(rows, i) THEN seq
                                ELSE goneAfter[i]]

HistorySpec == HistoryInit /\ [][HistoryStep(Ops)]_historyVars

----------------------------------------------------------------------------
(***************************************************************************)
(* A client that pulls from a cursor it is not refused for learns of       *)
(* everything it has missed.  A row that is shown it has, or is sent, and  *)
(* the cursor it ends at is not before the row.  Of a row that was shown   *)
(* when it took its cursor and is not now it gets the tombstone, or that   *)
(* of the task or tag that hides the row: pruning has taken none it still  *)
(* needs (sync.service.ts changesSince, prune.service.ts prunedThroughSeq).*)
(* And its next pull will not be refused.                                  *)
(***************************************************************************)
PullCoversEverything ==
  \A since \in 0..seq : ~Gone(since) =>
    LET answer == changesSince(since)
    IN  /\ ~Gone(answer.cursor)
        /\ \A i \in Ids :
             /\ Visible(rows, i) =>
                  /\ rows[i].seq <= answer.cursor
                  /\ rows[i].seq > since => i \in DOMAIN answer.changes
             /\ since \in 1..goneAfter[i] => Told(i, since)
=============================================================================
