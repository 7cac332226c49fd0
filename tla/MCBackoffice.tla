---------------------------- MODULE MCBackoffice ----------------------------
(***************************************************************************)
(* Instances for TLC of the components that share no state with one        *)
(* another.  They are explored one at a time: while one moves, the others  *)
(* are as they started.                                                    *)
(***************************************************************************)
EXTENDS Settlement, Exports, Publishing, Contracts, Tokens

CONSTANTS i1, e1, e2, p1, p2, w1, w2, t1, t2, x1, x2, c1, c2, d1, d2, f1

OneOfEach == [e \in Events |-> IF e = e1 THEN "succeeded" ELSE "failed"]
AllAboutOne == [e \in Events |-> i1]

BackofficeInit ==
    SettlementInit /\ ExportsInit /\ PublishingInit /\ ContractsInit /\ TokensInit

SettlementOnly == ExportsInit /\ PublishingInit /\ ContractsInit /\ TokensInit
    /\ SettlementNext /\ UNCHANGED <<exportVars, publishingVars, contractVars, tokenVars>>
ExportsOnly == SettlementInit /\ PublishingInit /\ ContractsInit /\ TokensInit
    /\ ExportsNext /\ UNCHANGED <<settlementVars, publishingVars, contractVars, tokenVars>>
PublishingOnly == SettlementInit /\ ExportsInit /\ ContractsInit /\ TokensInit
    /\ PublishingNext /\ UNCHANGED <<settlementVars, exportVars, contractVars, tokenVars>>
ContractsOnly == SettlementInit /\ ExportsInit /\ PublishingInit /\ TokensInit
    /\ ContractsNext /\ UNCHANGED <<settlementVars, exportVars, publishingVars, tokenVars>>
TokensOnly == SettlementInit /\ ExportsInit /\ PublishingInit /\ ContractsInit
    /\ TokensNext /\ UNCHANGED <<settlementVars, exportVars, publishingVars, contractVars>>

BackofficeSpec ==
    /\ BackofficeInit
    /\ [][SettlementOnly \/ ExportsOnly \/ PublishingOnly \/ ContractsOnly \/ TokensOnly]_
         <<settlementVars, exportVars, publishingVars, contractVars, tokenVars>>
    /\ SettlementFairness /\ ExportsFairness

BackofficeTypeOK == SettlementTypeOK /\ ExportsTypeOK /\ PublishingTypeOK
    /\ ContractsTypeOK /\ TokensTypeOK
=============================================================================
