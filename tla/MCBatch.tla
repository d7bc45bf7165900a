------------------------------- MODULE MCBatch -------------------------------
(* TLC instance of Batch: one object of each size class, among them one    *)
(* with no attribute at all.                                               *)
EXTENDS Batch, TLC

CONSTANTS table, chain, rule

MCBodies   == {table, chain, rule}
MCSizeOf   == table :> 12 @@ chain :> 0 @@ rule :> 20
MCKindOf   == table :> "Table" @@ chain :> "Chain" @@ rule :> "Rule"
MCFamilyOf == [b \in MCBodies |-> "Inet"]

==============================================================================
