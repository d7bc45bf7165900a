----------------------------- MODULE MCBatchSend -----------------------------
(* TLC instance of BatchSend: two objects, added or removed in batches of  *)
(* up to SeqLimit - 1 requests, and two errors.  The rule is so long that  *)
(* the error it meets fits the empty receive buffer, and no longer fits    *)
(* behind an acknowledgement.                                              *)
EXTENDS BatchSend, TLC

CONSTANTS table, rule

MCBodies   == {table, rule}
MCSizeOf   == table :> 12 @@ rule :> 80
MCKindOf   == table :> "Table" @@ rule :> "Rule"
MCFamilyOf == [b \in MCBodies |-> "Inet"]

==============================================================================
