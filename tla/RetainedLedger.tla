---------------------------- MODULE RetainedLedger ----------------------------
(***************************************************************************)
(* What the audit log promises its readers, whatever the gateway does      *)
(* underneath: entries are added under identifiers that are used once,     *)
(* never change, and leave only in the order in which they were numbered,  *)
(* oldest first.                                                           *)
(***************************************************************************)
EXTENDS Naturals

CONSTANTS Ids,       \* the numbers an entry may be recorded under
          Contents   \* what an entry may say

VARIABLES ledger,    \* the entries that can be read: a function of their ids
          spent      \* every identifier an entry was ever recorded under

ledgerVars == <<ledger, spent>>

Init == /\ ledger = [i \in {} |-> {}]
        /\ spent = {}

(* One new entry, under an identifier never used before. *)
Append ==
    \E i \in Ids \ spent, c \in Contents :
        /\ ledger' = [j \in DOMAIN ledger \cup {i} |->
                          IF j = i THEN c ELSE ledger[j]]
        /\ spent' = spent \cup {i}

(* The oldest entries leave; no entry leaves before an older one. *)
Expire ==
    \E K \in SUBSET DOMAIN ledger :
        /\ \A i \in DOMAIN ledger \ K, k \in K : i < k
        /\ ledger' = [k \in K |-> ledger[k]]
        /\ UNCHANGED spent

Next == Append \/ Expire

Spec == Init /\ [][Next]_ledgerVars
===============================================================================
