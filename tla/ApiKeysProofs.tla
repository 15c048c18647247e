----------------------------- MODULE ApiKeysProofs -----------------------------
(***************************************************************************)
(* Theorems about ApiKeys, for any number of calls, people, raw keys and   *)
(* rows.  The heart of the invariant is that no raw key is in two rows,    *)
(* in whichever of their columns.                                          *)
(***************************************************************************)
EXTENDS ApiKeys, FiniteSetTheorems, TLAPS

(* The raw key of a row: in clear, as a hash, or both. *)
SecretsOf(i) == {keys[i].key, keys[i].key_hash} \ {NoSecret}

RowsDistinct == \A i, j \in Ids : i # j => SecretsOf(i) \cap SecretsOf(j) = {}

HandedMatches == \A h \in handed : h.secret \in SecretsOf(h.id)

(* A row without a hash is older than the provisioning of keys. *)
UnhashedHasNoPerson == \A i \in Ids : keys[i].key_hash = NoSecret => keys[i].ldap_dn = NoDN

KeysInv == /\ TypeOK
           /\ RowsDistinct
           /\ HandedMatches
           /\ UnhashedHasNoPerson
           /\ ProvisionedKeepsPlaintext

(* The part of the type invariant that is about the calls in flight. *)
CallsOK ==
    /\ pc \in [Calls -> {"idle", "provision", "touch"}]
    /\ dn \in [Calls -> People \cup {NoDN}]
    /\ secret \in [Calls -> Secrets \cup {NoSecret}]
    /\ found \in [Calls -> Ids \cup {0}]
    /\ \A c \in Calls : /\ dn[c] # NoDN <=> pc[c] = "provision"
                        /\ found[c] # 0 <=> pc[c] = "touch"

(* While a person's logins do not overlap, a call that is about to make a key
   for him is the only one, and he has none. *)
OneLogin ==
    \A p \in People \ overlapped :
        /\ \A i, j \in ActiveKeys(p) : i = j
        /\ \A c \in Calls : dn[c] = p => /\ ActiveKeys(p) = {}
                                         /\ \A d \in Calls : dn[d] = p => c = d

-------------------------------------------------------------------------------
(* The rows are numbered without gaps. *)
LEMMA RowCount ==
  ASSUME TypeOK
  PROVE  /\ Cardinality(Ids) \in Nat
         /\ Ids = 1..Cardinality(Ids)
         /\ keys \in [Ids -> Row]
<1>1. PICK n \in 0..MaxRows : keys \in [1..n -> Row]
  BY DEF TypeOK
<1>2. Ids = 1..n
  BY <1>1 DEF Ids
<1>3. Cardinality(1..n) = n
  BY <1>1, FS_Interval, RowsAssumption
<1> QED BY <1>1, <1>2, <1>3, RowsAssumption

(* An insertion adds one row, whose raw key is in no other. *)
LEMMA Insertion ==
  ASSUME TypeOK, NEW s \in Fresh, NEW person \in People \cup {NoDN},
         InsertAndHandOut(s, person)
  PROVE  \E i \in Nat :
            /\ i \notin Ids
            /\ Ids' = Ids \cup {i}
            /\ i \in 1..MaxRows /\ Ids' = 1..i
            /\ keys' \in [Ids' -> Row]
            /\ keys'[i] = NewRow(s, person)
            /\ \A j \in Ids : keys'[j] = keys[j]
            /\ handed' = handed \cup {[secret |-> s, id |-> i]}
<1> DEFINE i == Cardinality(Ids) + 1
<1>1. i \in Nat \ {0} /\ Ids = 1..(i - 1) /\ keys \in [Ids -> Row]
  BY RowCount
<1>2. i <= MaxRows /\ handed' = handed \cup {[secret |-> s, id |-> i]}
      /\ keys' = [j \in Ids \cup {i} |-> IF j = i THEN NewRow(s, person) ELSE keys[j]]
  BY DEF InsertAndHandOut
<1>3. NewRow(s, person) \in Row
  BY DEF NewRow, Row, Fresh
<1> HIDE DEF i
<1>4. i \notin Ids /\ Ids \cup {i} = 1..i /\ i \in 1..MaxRows
  BY <1>1, <1>2, RowsAssumption
<1>5. Ids' = Ids \cup {i}
  BY <1>2 DEF Ids
<1>6. keys' \in [Ids' -> Row]
  <2>1. \A j \in Ids \cup {i} : (IF j = i THEN NewRow(s, person) ELSE keys[j]) \in Row
    BY <1>1, <1>3
  <2> QED BY <1>2, <1>5, <2>1
<1> QED BY <1>1, <1>2, <1>4, <1>5, <1>6

(* ... and disturbs nothing that was said of the others. *)
LEMMA InsertionKeeps ==
  ASSUME KeysInv, NEW s \in Fresh, NEW person \in People \cup {NoDN},
         InsertAndHandOut(s, person),
         UNCHANGED <<selected, script, overlapped>>,
         CallsOK'
  PROVE  KeysInv'
<1> USE DEF KeysInv
<1>1. PICK i \in Nat :
            /\ i \notin Ids
            /\ Ids' = Ids \cup {i}
            /\ i \in 1..MaxRows /\ Ids' = 1..i
            /\ keys' \in [Ids' -> Row]
            /\ keys'[i] = NewRow(s, person)
            /\ \A j \in Ids : keys'[j] = keys[j]
            /\ handed' = handed \cup {[secret |-> s, id |-> i]}
  BY Insertion
<1>2. s \in Secrets /\ s # NoSecret /\ \A j \in Ids : s # keys[j].key /\ s # keys[j].key_hash
  BY NoneAssumption DEF Fresh
<1>3. TypeOK'
  <2>1. \E n \in 0..MaxRows : keys' \in [1..n -> Row]
    <3>1. i \in 0..MaxRows /\ keys' \in [1..i -> Row]
      BY <1>1, RowsAssumption
    <3> QED BY <3>1
  <2>2. selected' \subseteq {j \in Ids : keys[j].key # NoSecret /\ keys[j].key_hash = NoSecret}'
    BY <1>1 DEF TypeOK
  <2>3. handed' \subseteq [secret : Secrets, id : Ids]'
    BY <1>1, <1>2 DEF TypeOK
  <2> QED BY <1>1, <2>1, <2>2, <2>3 DEF TypeOK, CallsOK
<1>4. \A j \in Ids : SecretsOf(j)' = SecretsOf(j)
  BY <1>1 DEF SecretsOf
<1>5. SecretsOf(i)' = {s}
  BY <1>1, <1>2 DEF SecretsOf, NewRow
<1>6. RowsDistinct'
  <2>1. \A j \in Ids : s \notin SecretsOf(j)
    BY <1>2 DEF SecretsOf
  <2> QED BY <1>1, <1>4, <1>5, <2>1 DEF RowsDistinct
<1>7. HandedMatches'
  <2>1. \A h \in handed : h.id \in Ids
    BY DEF TypeOK
  <2>2. \A h \in handed : h.secret \in SecretsOf(h.id)'
    BY <1>4, <2>1 DEF HandedMatches
  <2>3. \A h \in handed' : h \in handed \/ h = [secret |-> s, id |-> i]
    BY <1>1
  <2> QED BY <1>5, <2>2, <2>3 DEF HandedMatches
<1>8. UnhashedHasNoPerson' /\ ProvisionedKeepsPlaintext'
  BY <1>1, <1>2 DEF UnhashedHasNoPerson, ProvisionedKeepsPlaintext, NewRow
<1> QED BY <1>3, <1>6, <1>7, <1>8

(* A step that changes only columns of existing rows, and neither the raw keys
   they stand for nor their persons, keeps the invariant. *)
LEMMA UpdateKeeps ==
  ASSUME KeysInv,
         keys' \in [Ids -> Row],
         \A i \in Ids : /\ SecretsOf(i)' = SecretsOf(i)
                        /\ keys'[i].ldap_dn = keys[i].ldap_dn
                        /\ keys'[i].key_hash = NoSecret => keys[i].key_hash = NoSecret
                        /\ keys[i].ldap_dn # NoDN => keys'[i].key # NoSecret,
         \A h \in handed' : h \in [secret : Secrets, id : Ids] /\ h.secret \in SecretsOf(h.id),
         script' \in {"ready", "running", "done"},
         selected' \subseteq {i \in Ids : keys'[i].key # NoSecret /\ keys'[i].key_hash = NoSecret},
         CallsOK',
         overlapped' \subseteq People
  PROVE  KeysInv'
<1> USE DEF KeysInv
<1>1. Ids' = Ids
  BY DEF Ids
<1>2. TypeOK'
  <2>1. PICK n \in 0..MaxRows : keys \in [1..n -> Row]
    BY DEF TypeOK
  <2>2. \E m \in 0..MaxRows : keys' \in [1..m -> Row]
    BY <2>1 DEF Ids
  <2>3. handed' \subseteq [secret : Secrets, id : Ids]
    OBVIOUS
  <2> QED BY <1>1, <2>2, <2>3 DEF TypeOK, CallsOK
<1>3. RowsDistinct' /\ HandedMatches'
  <2>1. RowsDistinct'
    BY <1>1 DEF RowsDistinct
  <2>2. \A h \in handed' : h.secret \in SecretsOf(h.id)'
    OBVIOUS
  <2> QED BY <2>1, <2>2 DEF HandedMatches
<1>4. UnhashedHasNoPerson' /\ ProvisionedKeepsPlaintext'
  BY <1>1 DEF UnhashedHasNoPerson, ProvisionedKeepsPlaintext
<1> QED BY <1>2, <1>3, <1>4

(* In particular, a step that leaves the table alone. *)
LEMMA QuietKeeps ==
  ASSUME KeysInv, UNCHANGED keys,
         \A h \in handed' : h \in [secret : Secrets, id : Ids] /\ h.secret \in SecretsOf(h.id),
         script' \in {"ready", "running", "done"},
         selected' \subseteq {i \in Ids : keys[i].key # NoSecret /\ keys[i].key_hash = NoSecret},
         CallsOK',
         overlapped' \subseteq People
  PROVE  KeysInv'
<1>1. keys' \in [Ids -> Row]
  BY RowCount DEF KeysInv
<1>2. \A i \in Ids : SecretsOf(i)' = SecretsOf(i)
  BY DEF SecretsOf
<1>3. \A i \in Ids : keys[i].ldap_dn # NoDN => keys'[i].key # NoSecret
  BY DEF KeysInv, ProvisionedKeepsPlaintext
<1> QED BY <1>1, <1>2, <1>3, UpdateKeeps

(* What the invariant says of the parts a step leaves unchanged. *)
LEMMA Kept ==
  ASSUME KeysInv
  PROVE  /\ \A h \in handed : h \in [secret : Secrets, id : Ids] /\ h.secret \in SecretsOf(h.id)
         /\ script \in {"ready", "running", "done"}
         /\ selected \subseteq {i \in Ids : keys[i].key # NoSecret /\ keys[i].key_hash = NoSecret}
         /\ CallsOK
         /\ overlapped \subseteq People
BY DEF KeysInv, TypeOK, HandedMatches, CallsOK

-------------------------------------------------------------------------------
(* The steps that insert. *)

(* An administrator's key is a new raw key of nobody. *)
LEMMA CreateKeyKeeps == KeysInv /\ CreateKey => KeysInv'
<1> SUFFICES ASSUME KeysInv, CreateKey PROVE KeysInv'
  OBVIOUS
<1>1. PICK s \in Fresh : /\ InsertAndHandOut(s, NoDN)
                         /\ UNCHANGED <<selected, script, calls, overlapped>>
  BY DEF CreateKey
<1>2. Ids \subseteq Ids'
  BY <1>1, Insertion DEF KeysInv
<1>3. CallsOK'
  BY <1>1, <1>2, Kept DEF CallsOK, calls
<1> QED BY <1>1, <1>3, InsertionKeeps

(* A provisioned row has its plaintext and its hash. *)
LEMMA ProvisionKeeps ==
  ASSUME KeysInv, NEW c \in Calls, Provision(c)
  PROVE  KeysInv'
<1>1. PICK s \in Fresh : /\ InsertAndHandOut(s, dn[c])
                         /\ Return(c)
                         /\ UNCHANGED <<selected, script, overlapped>>
  BY DEF Provision
<1>2. dn[c] \in People \cup {NoDN}
  BY Kept DEF CallsOK
<1>3. Ids \subseteq Ids'
  BY <1>1, <1>2, Insertion DEF KeysInv
<1>4. CallsOK'
  BY <1>1, <1>3, Kept DEF CallsOK, Return
<1> QED BY <1>1, <1>2, <1>4, InsertionKeeps

-------------------------------------------------------------------------------
(* The steps that write rows. *)

(* Deactivation touches neither column the raw key is in. *)
LEMMA DeactivateKeeps ==
  ASSUME KeysInv, NEW i \in Ids, DeactivateKey(i)
  PROVE  KeysInv'
<1>1. /\ keys \in [Ids -> Row]
      /\ keys' = [keys EXCEPT ![i].active = FALSE]
      /\ UNCHANGED <<selected, script, calls, handed, overlapped>>
  BY RowCount DEF KeysInv, DeactivateKey
<1>2. keys' \in [Ids -> Row]
  BY <1>1 DEF Row
<1>3. \A j \in Ids : /\ keys'[j].key = keys[j].key
                     /\ keys'[j].key_hash = keys[j].key_hash
                     /\ keys'[j].ldap_dn = keys[j].ldap_dn
  BY <1>1 DEF Row
<1>4. \A j \in Ids : SecretsOf(j)' = SecretsOf(j)
  BY <1>3 DEF SecretsOf
<1>5. \A j \in Ids : keys[j].ldap_dn # NoDN => keys'[j].key # NoSecret
  BY <1>3 DEF KeysInv, ProvisionedKeepsPlaintext
<1>6. CallsOK'
  BY <1>1, <1>2, Kept DEF CallsOK, calls, Ids
<1>7. selected' \subseteq {j \in Ids : keys'[j].key # NoSecret /\ keys'[j].key_hash = NoSecret}
  BY <1>1, <1>3, Kept
<1> QED BY <1>1, <1>2, <1>3, <1>4, <1>5, <1>6, <1>7, Kept, UpdateKeeps

(* Nor does authentication. *)
LEMMA TouchKeeps ==
  ASSUME KeysInv, NEW c \in Calls, Touch(c)
  PROVE  KeysInv'
<1>1. /\ keys \in [Ids -> Row]
      /\ keys' = [keys EXCEPT ![found[c]].used = TRUE]
      /\ Return(c)
      /\ UNCHANGED <<selected, script, handed, overlapped>>
  BY RowCount DEF KeysInv, Touch
<1>2. keys' \in [Ids -> Row]
  BY <1>1 DEF Row
<1>3. \A j \in Ids : /\ keys'[j].key = keys[j].key
                     /\ keys'[j].key_hash = keys[j].key_hash
                     /\ keys'[j].ldap_dn = keys[j].ldap_dn
  BY <1>1 DEF Row
<1>4. \A j \in Ids : SecretsOf(j)' = SecretsOf(j)
  BY <1>3 DEF SecretsOf
<1>5. \A j \in Ids : keys[j].ldap_dn # NoDN => keys'[j].key # NoSecret
  BY <1>3 DEF KeysInv, ProvisionedKeepsPlaintext
<1>6. CallsOK'
  BY <1>1, <1>2, Kept DEF CallsOK, Return, Ids
<1>7. selected' \subseteq {j \in Ids : keys'[j].key # NoSecret /\ keys'[j].key_hash = NoSecret}
  BY <1>1, <1>3, Kept
<1> QED BY <1>1, <1>2, <1>3, <1>4, <1>5, <1>6, <1>7, Kept, UpdateKeeps

(* The script moves a raw key from one column to the other, and only in rows
   of nobody. *)
LEMMA ScriptCommitKeeps ==
  ASSUME KeysInv, ScriptCommit
  PROVE  KeysInv'
<1>1. /\ keys \in [Ids -> Row]
      /\ keys' = [i \in Ids |->
                     IF i \in selected
                       THEN [keys[i] EXCEPT !.key_hash = keys[i].key, !.key = NoSecret]
                       ELSE keys[i]]
      /\ selected' = {} /\ script' = "done"
      /\ UNCHANGED <<calls, handed, overlapped>>
  BY RowCount DEF KeysInv, ScriptCommit
<1>2. \A i \in Ids :
         /\ keys'[i] \in Row
         /\ SecretsOf(i)' = SecretsOf(i)
         /\ keys'[i].ldap_dn = keys[i].ldap_dn
         /\ keys'[i].key_hash = NoSecret => keys[i].key_hash = NoSecret
         /\ keys[i].ldap_dn # NoDN => keys'[i].key # NoSecret
  <2> SUFFICES ASSUME NEW i \in Ids
               PROVE  /\ keys'[i] \in Row
                      /\ SecretsOf(i)' = SecretsOf(i)
                      /\ keys'[i].ldap_dn = keys[i].ldap_dn
                      /\ keys'[i].key_hash = NoSecret => keys[i].key_hash = NoSecret
                      /\ keys[i].ldap_dn # NoDN => keys'[i].key # NoSecret
    OBVIOUS
  <2>1. keys[i].ldap_dn # NoDN => keys[i].key # NoSecret
    BY DEF KeysInv, ProvisionedKeepsPlaintext
  <2>2. CASE i \notin selected
    <3>1. keys'[i] = keys[i] /\ keys[i] \in Row
      BY <1>1, <2>2
    <3> QED BY <2>1, <3>1 DEF SecretsOf
  <2>3. CASE i \in selected
    <3>1. keys[i].key # NoSecret /\ keys[i].key_hash = NoSecret
      BY <2>3, Kept
    <3>2. keys[i].ldap_dn = NoDN
      BY <3>1 DEF KeysInv, UnhashedHasNoPerson
    <3>3. /\ keys[i] \in Row
          /\ keys'[i] = [keys[i] EXCEPT !.key_hash = keys[i].key, !.key = NoSecret]
      BY <1>1, <2>3
    <3>4. /\ keys'[i] \in Row
          /\ keys'[i].key_hash = keys[i].key /\ keys'[i].key = NoSecret
          /\ keys'[i].ldap_dn = keys[i].ldap_dn
      BY <3>3 DEF Row
    <3> QED BY <3>1, <3>2, <3>4 DEF SecretsOf
  <2> QED BY <2>2, <2>3
<1>3. keys' \in [Ids -> Row]
  BY <1>1, <1>2
<1>4. CallsOK'
  BY <1>1, <1>3, Kept DEF CallsOK, calls, Ids
<1> QED BY <1>1, <1>2, <1>3, <1>4, Kept, UpdateKeeps

-------------------------------------------------------------------------------
(* The steps that leave the table alone. *)

(* The key handed out again is the one in the row. *)
LEMMA LoginAgainKeeps ==
  ASSUME KeysInv, NEW p \in People, LoginAgain(p)
  PROVE  KeysInv'
<1>1. PICK i \in KeysOf(p) :
         /\ keys[i].key # NoSecret
         /\ handed' = handed \cup {[secret |-> keys[i].key, id |-> i]}
         /\ UNCHANGED <<keys, selected, script, calls, overlapped>>
  BY DEF LoginAgain
<1>2. i \in Ids /\ keys[i].key \in Secrets /\ keys[i].key \in SecretsOf(i)
  BY <1>1, RowCount DEF KeysInv, KeysOf, Row, SecretsOf
<1>3. \A h \in handed' : h \in [secret : Secrets, id : Ids] /\ h.secret \in SecretsOf(h.id)
  BY <1>1, <1>2, Kept
<1>4. CallsOK'
  BY <1>1, Kept DEF CallsOK, calls, Ids
<1> QED BY <1>1, <1>3, <1>4, Kept, QuietKeeps

(* Lookups, and a provisioning that fails, change a call's locals only. *)
LEMMA CallStepKeeps ==
  ASSUME KeysInv, NEW c \in Calls,
         \/ \E p \in People : LoginFirst(c, p)
         \/ ProvisionFails(c)
         \/ \E s \in Secrets : Find(c, s)
  PROVE  KeysInv'
<1>1. /\ UNCHANGED <<keys, selected, script, handed>>
      /\ overlapped' \subseteq People
  BY Kept DEF LoginFirst, ProvisionFails, Find
<1>2. ASSUME NEW p \in People, LoginFirst(c, p) PROVE CallsOK'
  BY <1>1, <1>2, Kept, NoneAssumption DEF LoginFirst, CallsOK, Ids
<1>3. ASSUME ProvisionFails(c) PROVE CallsOK'
  BY <1>1, <1>3, Kept DEF ProvisionFails, Return, CallsOK, Ids
<1>4. ASSUME NEW s \in Secrets, Find(c, s) PROVE CallsOK'
  <2>1. PICK i \in Ids : found' = [found EXCEPT ![c] = i]
    BY <1>4 DEF Find, Matching
  <2>2. i # 0
    BY RowCount DEF KeysInv
  <2> QED BY <1>1, <1>4, <2>1, <2>2, Kept DEF Find, CallsOK, Ids
<1> QED BY <1>1, <1>2, <1>3, <1>4, Kept, QuietKeeps

(* The script selects rows that are not hashed, or forgets them. *)
LEMMA ScriptStepKeeps ==
  ASSUME KeysInv, ScriptSelect \/ ScriptFails
  PROVE  KeysInv'
<1>1. /\ UNCHANGED <<keys, calls, handed, overlapped>>
      /\ script' \in {"ready", "running", "done"}
      /\ selected' \subseteq {i \in Ids : keys[i].key # NoSecret /\ keys[i].key_hash = NoSecret}
  BY DEF ScriptSelect, ScriptFails
<1>2. CallsOK'
  BY <1>1, Kept DEF CallsOK, calls, Ids
<1> QED BY <1>1, <1>2, Kept, QuietKeeps

-------------------------------------------------------------------------------
(* The older keys are distinct, and each is in its row. *)
LEMMA KeysInit == Init => KeysInv
<1> SUFFICES ASSUME Init PROVE KeysInv
  OBVIOUS
<1>1. PICK n \in 0..MaxRows : Legacy \in [1..n -> Secrets]
  BY LegacyAssumption
<1>2. /\ Ids = 1..n
      /\ \A i \in Ids : Legacy[i] \in Secrets /\ keys[i] = LegacyRow(Legacy[i])
      /\ keys = [i \in 1..n |-> LegacyRow(Legacy[i])]
  BY <1>1 DEF Init, Ids
<1>3. \A i \in Ids : keys[i] \in Row /\ SecretsOf(i) = {Legacy[i]}
  BY <1>2, NoneAssumption DEF LegacyRow, Row, SecretsOf
<1>4. TypeOK
  <2>1. keys \in [1..n -> Row]
    BY <1>2, <1>3
  <2>2. handed \subseteq [secret : Secrets, id : Ids]
    BY <1>1, <1>2 DEF Init
  <2>3. CallsOK
    BY NoneAssumption DEF Init, CallsOK
  <2> QED BY <2>1, <2>2, <2>3 DEF Init, TypeOK, CallsOK
<1>5. RowsDistinct
  BY <1>1, <1>2, <1>3, LegacyAssumption DEF RowsDistinct
<1>6. HandedMatches
  BY <1>1, <1>2, <1>3 DEF Init, HandedMatches
<1>7. UnhashedHasNoPerson /\ ProvisionedKeepsPlaintext
  BY <1>2 DEF LegacyRow, UnhashedHasNoPerson, ProvisionedKeepsPlaintext
<1> QED BY <1>4, <1>5, <1>6, <1>7 DEF KeysInv

(* One case for each action. *)
LEMMA KeysNext == KeysInv /\ [Next]_vars => KeysInv'
<1> SUFFICES ASSUME KeysInv, [Next]_vars PROVE KeysInv'
  OBVIOUS
<1>1. CASE UNCHANGED vars
  <2>1. UNCHANGED <<keys, selected, script, handed, overlapped>> /\ CallsOK'
    BY <1>1, Kept DEF vars, calls, CallsOK, Ids
  <2> QED BY <2>1, Kept, QuietKeeps
<1>2. CASE Next
  BY <1>2, CreateKeyKeeps, DeactivateKeeps, LoginAgainKeeps, ProvisionKeeps, CallStepKeeps,
     TouchKeeps, ScriptStepKeeps, ScriptCommitKeeps DEF Next
<1> QED BY <1>1, <1>2

(* Hence the invariant holds for ever. *)
LEMMA KeysInvariant == Spec => []KeysInv
<1>1. KeysInv /\ [Next]_vars => KeysInv'
  BY KeysNext
<1> QED BY KeysInit, <1>1, PTL DEF Spec

(* TypeOK: rows are numbered without gaps, what the script selected is still
   unhashed, and every call in flight knows its row or its person. *)
THEOREM KeysTypeCorrect == Spec => []TypeOK
<1>1. KeysInv => TypeOK
  BY DEF KeysInv
<1> QED BY KeysInvariant, <1>1, PTL

(* HandedOutIsFound: authenticate finds exactly the row a raw key was made
   for, whatever the script did to it. *)
THEOREM KeysKeepWorking == Spec => []HandedOutIsFound
<1>1. KeysInv => HandedOutIsFound
  <2> SUFFICES ASSUME KeysInv, NEW h \in handed PROVE Matching(h.secret) = {h.id}
    BY DEF HandedOutIsFound
  <2>1. h.secret \in Secrets /\ h.id \in Ids /\ h.secret \in SecretsOf(h.id)
    BY Kept
  <2>2. \A i \in Ids : i \in Matching(h.secret) <=> h.secret \in SecretsOf(i)
    BY <2>1, NoneAssumption DEF Matching, SecretsOf
  <2>3. \A i \in Ids : h.secret \in SecretsOf(i) => i = h.id
    BY <2>1 DEF KeysInv, RowsDistinct
  <2> QED BY <2>1, <2>2, <2>3 DEF Matching
<1> QED BY KeysInvariant, <1>1, PTL

(* ProvisionedKeepsPlaintext: the script never takes the plaintext of a key
   that a login must return. *)
THEOREM LoginFindsPlaintext == Spec => []ProvisionedKeepsPlaintext
<1>1. KeysInv => ProvisionedKeepsPlaintext
  BY DEF KeysInv
<1> QED BY KeysInvariant, <1>1, PTL

(* StaysDeactivated: no step, of a request being authenticated while the key is
   deactivated or of the script, makes a key active again. *)
THEOREM DeactivationIsFinal == Spec => StaysDeactivated
<1> DEFINE Kill == \A i \in Ids : ~keys[i].active => i \in Ids' /\ ~keys'[i].active
<1>1. ASSUME KeysInv, [Next]_vars PROVE [Kill]_vars
  <2> USE <1>1
  <2>1. keys \in [Ids -> Row] /\ CallsOK /\ TypeOK
    BY RowCount, Kept DEF KeysInv
  <2>2. CASE UNCHANGED keys
    BY <2>2 DEF Ids
  <2>3. ASSUME NEW s \in Fresh, NEW person \in People \cup {NoDN}, InsertAndHandOut(s, person)
        PROVE  Kill
    BY <2>1, <2>3, Insertion
  <2>4. ASSUME CreateKey PROVE Kill
    BY <2>3, <2>4 DEF CreateKey
  <2>5. ASSUME NEW c \in Calls, Provision(c) PROVE Kill
    BY <2>1, <2>3, <2>5 DEF Provision, CallsOK
  <2>6. ASSUME NEW i \in Ids, DeactivateKey(i) PROVE Kill
    BY <2>1, <2>6 DEF DeactivateKey, Ids, Row
  <2>7. ASSUME NEW c \in Calls, Touch(c) PROVE Kill
    BY <2>1, <2>7 DEF Touch, Ids, Row
  <2>8. ASSUME ScriptCommit PROVE Kill
    <3>1. Ids' = Ids /\ \A i \in Ids : keys'[i].active = keys[i].active
      BY <2>1, <2>8 DEF ScriptCommit, Ids, Row
    <3> QED BY <3>1
  <2>9. CASE Next
    <3>1. \/ CreateKey \/ ScriptCommit \/ UNCHANGED keys
          \/ \E i \in Ids : DeactivateKey(i)
          \/ \E c \in Calls : Provision(c) \/ Touch(c)
      BY <2>9 DEF Next, LoginAgain, LoginFirst, ProvisionFails, Find, ScriptSelect, ScriptFails
    <3> QED BY <3>1, <2>2, <2>4, <2>5, <2>6, <2>7, <2>8
  <2> QED BY <2>2, <2>9 DEF vars
<1> QED BY KeysInvariant, <1>1, PTL DEF Spec, StaysDeactivated

-------------------------------------------------------------------------------
(* One key for each person. *)

(* A step that gives nobody a key and starts no login keeps OneLogin. *)
LEMMA OneLoginQuiet ==
  ASSUME OneLogin,
         \A p \in People : ActiveKeys(p)' \subseteq ActiveKeys(p),
         \A p \in People, c \in Calls : dn'[c] = p => dn[c] = p,
         overlapped \subseteq overlapped'
  PROVE  OneLogin'
BY DEF OneLogin

(* A lookup that finds no key starts the only login of its person, or marks
   him as one whose logins overlapped. *)
LEMMA OneLoginFirst ==
  ASSUME KeysInv, OneLogin, NEW c \in Calls, NEW p \in People, LoginFirst(c, p)
  PROVE  OneLogin'
<1>1. \A q \in People : ActiveKeys(q)' = ActiveKeys(q)
  BY DEF LoginFirst, ActiveKeys, Ids
<1>2. ActiveKeys(p) = {}
  BY DEF LoginFirst, KeysOf, ActiveKeys
<1>3. \A d \in Calls : dn'[d] = IF d = c THEN p ELSE dn[d]
  BY Kept DEF LoginFirst, CallsOK
<1>4. /\ overlapped \subseteq overlapped'
      /\ p \in overlapped' \/ \A d \in Calls : dn[d] # p
  BY DEF LoginFirst
<1> QED BY <1>1, <1>2, <1>3, <1>4 DEF OneLogin

(* The only login of a person without a key gives him one. *)
LEMMA OneLoginProvision ==
  ASSUME KeysInv, OneLogin, NEW c \in Calls, Provision(c)
  PROVE  OneLogin'
<1>1. PICK s \in Fresh : /\ InsertAndHandOut(s, dn[c])
                         /\ Return(c)
                         /\ UNCHANGED overlapped
  BY DEF Provision
<1>2. dn[c] \in People
  BY Kept DEF CallsOK, Provision
<1>3. PICK i \in Nat : /\ i \notin Ids
                       /\ Ids' = Ids \cup {i}
                       /\ keys'[i] = NewRow(s, dn[c])
                       /\ \A j \in Ids : keys'[j] = keys[j]
  BY <1>1, <1>2, Insertion DEF KeysInv
<1>4. \A p \in People : ActiveKeys(p)' = ActiveKeys(p) \cup (IF p = dn[c] THEN {i} ELSE {})
  BY <1>3 DEF ActiveKeys, NewRow
<1>5. \A d \in Calls : dn'[d] = IF d = c THEN NoDN ELSE dn[d]
  BY <1>1, Kept DEF Return, CallsOK
<1> QED BY <1>1, <1>2, <1>4, <1>5, NoneAssumption DEF OneLogin

(* One case for each action. *)
LEMMA OneLoginNext == KeysInv /\ OneLogin /\ [Next]_vars => OneLogin'
<1> SUFFICES ASSUME KeysInv, OneLogin, [Next]_vars PROVE OneLogin'
  OBVIOUS
<1>1. CallsOK /\ keys \in [Ids -> Row]
  BY Kept, RowCount DEF KeysInv
<1>2. ASSUME UNCHANGED <<keys, overlapped>>,
             \A p \in People, c \in Calls : dn'[c] = p => dn[c] = p
      PROVE  OneLogin'
  BY <1>2, OneLoginQuiet DEF ActiveKeys, Ids
<1>3. ASSUME CreateKey PROVE OneLogin'
  <2>1. PICK s \in Fresh : /\ InsertAndHandOut(s, NoDN)
                           /\ UNCHANGED <<calls, overlapped>>
    BY <1>3 DEF CreateKey
  <2>2. PICK i \in Nat : /\ i \notin Ids
                         /\ Ids' = Ids \cup {i}
                         /\ keys'[i] = NewRow(s, NoDN)
                         /\ \A j \in Ids : keys'[j] = keys[j]
    BY <2>1, Insertion DEF KeysInv
  <2>3. \A p \in People : ActiveKeys(p)' \subseteq ActiveKeys(p)
    BY <2>2, NoneAssumption DEF ActiveKeys, NewRow
  <2> QED BY <2>1, <2>3, OneLoginQuiet DEF calls
<1>4. ASSUME NEW i \in Ids, DeactivateKey(i) PROVE OneLogin'
  <2>1. \A p \in People : ActiveKeys(p)' \subseteq ActiveKeys(p)
    BY <1>1, <1>4 DEF DeactivateKey, ActiveKeys, Ids, Row
  <2> QED BY <1>4, <2>1, OneLoginQuiet DEF DeactivateKey, calls
<1>5. ASSUME NEW c \in Calls, Touch(c) PROVE OneLogin'
  <2>1. \A p \in People : ActiveKeys(p)' \subseteq ActiveKeys(p)
    BY <1>1, <1>5 DEF Touch, ActiveKeys, Ids, Row
  <2>2. \A p \in People, d \in Calls : dn'[d] = p => dn[d] = p
    BY <1>1, <1>5, NoneAssumption DEF Touch, Return, CallsOK
  <2> QED BY <1>5, <2>1, <2>2, OneLoginQuiet DEF Touch
<1>6. ASSUME ScriptCommit PROVE OneLogin'
  <2>1. Ids' = Ids /\ \A i \in Ids : /\ keys'[i].active = keys[i].active
                                     /\ keys'[i].ldap_dn = keys[i].ldap_dn
    BY <1>1, <1>6 DEF ScriptCommit, Ids, Row
  <2>2. \A p \in People : ActiveKeys(p)' \subseteq ActiveKeys(p)
    BY <2>1 DEF ActiveKeys
  <2> QED BY <1>6, <2>2, OneLoginQuiet DEF ScriptCommit, calls
<1>7. ASSUME NEW c \in Calls, ProvisionFails(c) \/ \E s \in Secrets : Find(c, s) PROVE OneLogin'
  BY <1>1, <1>2, <1>7, NoneAssumption DEF ProvisionFails, Return, Find, CallsOK
<1>8. CASE (\E p \in People : LoginAgain(p)) \/ ScriptSelect \/ ScriptFails \/ UNCHANGED vars
  BY <1>2, <1>8 DEF LoginAgain, ScriptSelect, ScriptFails, vars, calls
<1> QED BY <1>3, <1>4, <1>5, <1>6, <1>7, <1>8, OneLoginFirst, OneLoginProvision DEF Next

(* OneKeyEach: a person whose logins never overlapped has one active key at
   most, through any failures and deactivations. *)
THEOREM OneKeyForEach == Spec => []OneKeyEach
<1>1. Init => OneLogin
  <2> SUFFICES ASSUME Init PROVE OneLogin
    OBVIOUS
  <2>1. \A p \in People : ActiveKeys(p) = {}
    BY NoneAssumption DEF Init, ActiveKeys, Ids, LegacyRow
  <2>2. \A c \in Calls : dn[c] = NoDN
    BY DEF Init
  <2> QED BY <2>1, <2>2, NoneAssumption DEF OneLogin
<1>2. KeysInv /\ OneLogin => OneKeyEach
  <2> SUFFICES ASSUME OneLogin, NEW p \in People \ overlapped
               PROVE  Cardinality(ActiveKeys(p)) <= 1
    BY DEF OneKeyEach
  <2>1. CASE ActiveKeys(p) = {}
    BY <2>1, FS_EmptySet
  <2>2. CASE ActiveKeys(p) # {}
    <3>1. PICK i : ActiveKeys(p) = {i}
      BY <2>2 DEF OneLogin
    <3>2. Cardinality({i}) = 1
      BY FS_Singleton
    <3> QED BY <3>1, <3>2
  <2> QED BY <2>1, <2>2
<1> QED BY KeysInvariant, OneLoginNext, <1>1, <1>2, PTL DEF Spec
===============================================================================
