-------------------------- MODULE MCTreasuryLedger --------------------------
(***************************************************************************)
(* TreasuryLedger with few accounts, a short time and few transfers.       *)
(***************************************************************************)
EXTENDS TreasuryLedger

CONSTANT MaxTransfers  \* bound on the transfers

VARIABLE transfers  \* how many there have been

MCInit == LedgerInit /\ transfers = 0

MCNext ==
  \/ transfers < MaxTransfers /\ transfers' = transfers + 1 /\ LedgerTransfers
  \/ LedgerDistributions /\ UNCHANGED transfers

MCSpec == MCInit /\ [][MCNext]_<<ledger_vars, transfers>>

=============================================================================
