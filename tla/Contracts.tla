------------------------------ MODULE Contracts ------------------------------
(***************************************************************************)
(* The contract of one supplier: SetContract reads the newest version,     *)
(* deactivates what is current and inserts the next version, and relies on *)
(* UNIQUE (supplier_id, version) against others that do the same.          *)
(*                                                                         *)
(* A request that read before another one committed finds the next version *)
(* taken and is rolled back, what it deactivated included: deactivating    *)
(* and inserting are one step.                                             *)
(***************************************************************************)
EXTENDS Naturals, FiniteSets

CONSTANTS
    Terms,          \* what a contract may say
    LastContract,   \* bound: versions ever minted
    Actors          \* concurrent requests

ASSUME LastContractAssumption == LastContract \in Nat /\ "none" \notin Terms

VARIABLES
    contract,   \* suppliers.supplier_contract: terms and is_current, by version
    minting     \* what each request has read

contractVars == <<contract, minting>>

-----------------------------------------------------------------------------
Versions == 1..LastContract

NoTerms == "none"
NoContract == [terms |-> NoTerms, current |-> FALSE]
NotMinting == [at |-> "idle"]

Minted == {n \in Versions : contract[n] # NoContract}
CurrentContractVersion == Cardinality(Minted)

ContractsInit ==
    /\ contract = [n \in Versions |-> NoContract]
    /\ minting = [a \in Actors |-> NotMinting]

SetContract(a, t) ==
    /\ minting[a] = NotMinting
    /\ minting' = [minting EXCEPT ![a] =
           [at |-> "mint", version |-> CurrentContractVersion + 1, terms |-> t]]
    /\ UNCHANGED contract

\* Test variant: the table has no UNIQUE (supplier_id, version).
MintAnyVersion(a) ==
    LET m == minting[a] IN
    /\ m.at = "mint" /\ m.version \in Versions
    /\ contract' = [n \in Versions |->
           IF n = m.version THEN [terms |-> m.terms, current |-> TRUE]
                            ELSE [terms |-> contract[n].terms, current |-> FALSE]]
    /\ minting' = [minting EXCEPT ![a] = NotMinting]

\* DeactivateCurrentContracts and CreateContractVersion.
MintContract(a) ==
    LET m == minting[a] IN
    /\ m.at = "mint" /\ m.version \in Versions
    /\ contract[m.version] = NoContract
    /\ contract' = [n \in Versions |->
           IF n = m.version THEN [terms |-> m.terms, current |-> TRUE]
                            ELSE [terms |-> contract[n].terms, current |-> FALSE]]
    /\ minting' = [minting EXCEPT ![a] = NotMinting]

\* The version is taken, or the request fails.
MintingFails(a) ==
    /\ minting[a] # NotMinting
    /\ minting' = [minting EXCEPT ![a] = NotMinting]
    /\ UNCHANGED contract

ContractsNext == \E a \in Actors :
    \/ \E t \in Terms : SetContract(a, t)
    \/ MintContract(a) \/ MintingFails(a)

ContractsSpec == ContractsInit /\ [][ContractsNext]_contractVars

-----------------------------------------------------------------------------
(* Properties *)

ContractsTypeOK ==
    /\ contract \in [Versions -> [terms : Terms \cup {NoTerms}, current : BOOLEAN]]
    /\ minting \in [Actors -> {NotMinting}
                              \cup [at : {"mint"}, version : Nat, terms : Terms]]

\* The terms that were agreed, in the order of their versions, and the version
\* that is current.
TermsLog == [n \in 1..CurrentContractVersion |-> contract[n].terms]
CurrentContracts == {n \in Versions : contract[n].current}

ContractLog == INSTANCE VersionLog
    WITH Texts <- Terms, log <- TermsLog, inForce <- CurrentContracts

\* SetContract mints immutable versions without gaps, of which exactly the
\* newest is current, however many requests set the contract at once.
ContractsAreALog == ContractLog!LogSpec
=============================================================================
