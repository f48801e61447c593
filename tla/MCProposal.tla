----------------------------- MODULE MCProposal -----------------------------
(***************************************************************************)
(* Proposal over the records sorted by cost: their ids only break ties of   *)
(* the sort, so every other order is a renaming of one of these.           *)
(***************************************************************************)
EXTENDS Proposal

MCInit == /\ ProposalInit
          /\ \A r, s \in Records : r < s => SortsBefore(r, s)
MCSpec == MCInit /\ [][ProposalNext]_vars /\ WF_vars(ProposalNext)
=============================================================================
