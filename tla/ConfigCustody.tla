---------------------------- MODULE ConfigCustody ----------------------------
(***************************************************************************)
(* What compiler.Service.Apply promises about the Mihomo main              *)
(* configuration, whatever fails on the way.  One apply at a time has      *)
(* custody of the file.  While it has, FlowCanvas' part of the file is     *)
(* either the overlay found when custody was taken or the overlay of that  *)
(* apply, never that of another request; "applied" is recorded only while  *)
(* Mihomo runs the new overlay, "rolled_back" only while it runs the old   *)
(* one again.  CompileApply implements this module.                        *)
(***************************************************************************)
EXTENDS Naturals

CONSTANTS Requests,   \* ids of the compilation records
          Nobody      \* custody is free (no request)

VARIABLES managed,    \* the overlay in the main file (0: none)
          live,       \* the overlay Mihomo runs
          custodian,  \* the request that has custody, or Nobody
          prior,      \* the overlay found by the custodian
          own,        \* the overlay of the custodian
          applied,    \* requests recorded as applied
          restored    \* requests recorded as rolled back

vars == <<managed, live, custodian, prior, own, applied, restored>>
ledger == <<applied, restored>>
terms == <<custodian, prior, own>>

Init == /\ managed = 0
        /\ live = 0
        /\ custodian = Nobody
        /\ prior = 0
        /\ own = 0
        /\ applied = {}
        /\ restored = {}

(* Custody is taken by a request that has no verdict yet. *)
Take(r) == /\ custodian = Nobody
           /\ r \notin applied \cup restored
           /\ custodian' = r
           /\ prior' = managed
           /\ own' \in Nat
           /\ UNCHANGED <<managed, live, ledger>>

Install == /\ custodian # Nobody
           /\ managed' = own
           /\ UNCHANGED <<live, terms, ledger>>

PutBack == /\ custodian # Nobody
           /\ managed' = prior
           /\ UNCHANGED <<live, terms, ledger>>

(* Mihomo loads the file, asked by the custodian or on its own account. *)
Load == /\ live' = managed
        /\ UNCHANGED <<managed, terms, ledger>>

LetGo == custodian' = Nobody /\ prior' = 0 /\ own' = 0

(* The two verdicts; each ends custody. *)
Commit == /\ custodian # Nobody
          /\ managed = own
          /\ live = own
          /\ applied' = applied \cup {custodian}
          /\ LetGo
          /\ UNCHANGED <<managed, live, restored>>

RollBack == /\ custodian # Nobody
            /\ managed = prior
            /\ live = prior
            /\ restored' = restored \cup {custodian}
            /\ LetGo
            /\ UNCHANGED <<managed, live, applied>>

(* Custody ends without a verdict: the audit write failed, the rollback    *)
(* failed, or the daemon died.                                             *)
Release == /\ LetGo
           /\ UNCHANGED <<managed, live, ledger>>

Next == \/ \E r \in Requests : Take(r)
        \/ Install \/ PutBack \/ Load \/ Commit \/ RollBack \/ Release

Spec == Init /\ [][Next]_vars
=============================================================================
