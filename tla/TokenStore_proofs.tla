-------------------------- MODULE TokenStore_proofs --------------------------
(***************************************************************************)
(* Proofs about TokenStore, for any ids, any tokens of an older version    *)
(* and any number of requests, crashes and faults.                         *)
(***************************************************************************)
EXTENDS TokenStore, TLAPS

(***************************************************************************)
(* The inductive invariant.  The open migration holds the digests of some  *)
(* issued tokens and has the others still to insert; nothing is served     *)
(* before it has committed.                                                *)
(***************************************************************************)
IInv ==
    /\ issued \subseteq TokenRecord
    /\ \A t \in issued : t.value \in Presented
    /\ userVersion \in {0, 1}
    /\ MarkerTellsFormat
    /\ server = "serving" => userVersion = 1
    /\ server = "migrating" =>
          /\ userVersion = 0
          /\ remaining \subseteq issued
          /\ rebuilt \cup HashedAll(remaining) = HashedAll(issued)

-----------------------------------------------------------------------------
(* What a token is stored under says which token it is.                    *)
LEMMA HashInjective ==
    ASSUME NEW v \in Text, NEW w \in Text, hashToken(v) = hashToken(w)
    PROVE  v = w
<1>1. PICK a \in Legacy \cup Add, m \in Nat : v = <<a, m>>
  BY DEF Text
<1>2. PICK b \in Legacy \cup Add, n \in Nat : w = <<b, n>>
  BY DEF Text
<1>3. a = b /\ m + 1 = n + 1
  BY <1>1, <1>2 DEF hashToken
<1> QED  BY <1>1, <1>2, <1>3

(* Hashing changes the value of a record and nothing else.                 *)
LEMMA HashedFields ==
    ASSUME NEW t \in TokenRecord
    PROVE  /\ Hashed(t).id = t.id /\ Hashed(t).permission = t.permission
           /\ Hashed(t).value = hashToken(t.value)
BY DEF Hashed, TokenRecord

(* Deleting an id from the digests deletes it from the tokens.             *)
LEMMA DeletionCommutes ==
    ASSUME NEW T \in SUBSET TokenRecord, NEW id
    PROVE  {h \in HashedAll(T) : h.id # id} = HashedAll({t \in T : t.id # id})
<1>1. \A t \in T : Hashed(t).id = t.id
  BY HashedFields
<1> QED  BY <1>1 DEF HashedAll

LEMMA InitEstablishes == Init => IInv
<1> SUFFICES ASSUME Init PROVE IInv
  OBVIOUS
<1>1. PICK T \in SUBSET LegacyRow : tokens = T /\ issued = T
  BY DEF Init
<1>2. LegacyRow \subseteq TokenRecord /\ \A t \in LegacyRow : t.value \in Presented
  BY DEF LegacyRow, TokenRecord, Text, Presented
<1>3. userVersion = 0 /\ server = "down"
  BY DEF Init
<1> QED  BY <1>1, <1>2, <1>3 DEF IInv, MarkerTellsFormat

LEMMA NextPreserves == IInv /\ [Next]_vars => IInv'
<1> SUFFICES ASSUME IInv, [Next]_vars PROVE IInv'
  OBVIOUS
<1>1. CASE Opened
  <2>1. /\ UNCHANGED <<tokens, userVersion, issued>>
        /\ \/ userVersion >= 1 /\ server' = "serving"
           \/ ~(userVersion >= 1) /\ server' = "migrating"
              /\ rebuilt' = {} /\ remaining' = tokens
    BY <1>1 DEF Opened
  <2>2. CASE userVersion >= 1 /\ server' = "serving"
    BY <2>1, <2>2 DEF IInv, MarkerTellsFormat, HashedAll
  <2>3. CASE ~(userVersion >= 1) /\ server' = "migrating"
             /\ rebuilt' = {} /\ remaining' = tokens
    <3>1. userVersion = 0 /\ tokens = issued
      BY <2>3 DEF IInv, MarkerTellsFormat
    <3> QED  BY <2>1, <2>3, <3>1 DEF IInv, MarkerTellsFormat, HashedAll
  <2> QED  BY <2>1, <2>2, <2>3
<1>2. CASE RowRehashed
  <2>1. PICK t \in remaining :
          \/ /\ rebuilt' = rebuilt \cup {Hashed(t)}
             /\ remaining' = remaining \ {t}
             /\ UNCHANGED server
          \/ server' = "down"
    BY <1>2 DEF RowRehashed
  <2>2. server = "migrating" /\ UNCHANGED <<tokens, userVersion, issued>>
    BY <1>2 DEF RowRehashed
  <2>3. rebuilt \cup HashedAll(remaining)
          = (rebuilt \cup {Hashed(t)}) \cup HashedAll(remaining \ {t})
    BY DEF HashedAll
  <2>4. MarkerTellsFormat'
    BY <2>2 DEF IInv, MarkerTellsFormat, HashedAll
  <2>5. HashedAll(remaining \ {t})' = HashedAll(remaining' \ {t})
    BY DEF HashedAll
  <2>6. CASE server' = "down"
    BY <2>2, <2>4, <2>6 DEF IInv
  <2>7. CASE rebuilt' = rebuilt \cup {Hashed(t)} /\ remaining' = remaining \ {t}
             /\ UNCHANGED server
    <3>1. HashedAll(remaining)' = HashedAll(remaining \ {t}) /\ HashedAll(issued)' = HashedAll(issued)
      BY <2>2, <2>7 DEF HashedAll
    <3> QED  BY <2>2, <2>3, <2>4, <2>7, <3>1 DEF IInv
  <2> QED  BY <2>1, <2>6, <2>7
<1>3. CASE MigrationCommitted
  <2>1. /\ remaining = {} /\ tokens' = rebuilt /\ userVersion' = 1
        /\ server' = "serving" /\ server = "migrating" /\ issued' = issued
    BY <1>3 DEF MigrationCommitted
  <2>2. HashedAll(remaining) = {}
    BY <2>1 DEF HashedAll
  <2>3. tokens' = HashedAll(issued)
    BY <2>1, <2>2 DEF IInv
  <2> QED  BY <2>1, <2>3 DEF IInv, MarkerTellsFormat, HashedAll
<1>4. CASE Crash
  <2>1. server' = "down" /\ UNCHANGED <<tokens, userVersion, issued>>
    BY <1>4 DEF Crash
  <2> QED  BY <2>1 DEF IInv, MarkerTellsFormat, HashedAll
<1>5. ASSUME NEW a \in Add, TokenInserted(a) PROVE IInv'
  <2>1. server = "serving" /\ server' = "serving" /\ userVersion' = userVersion
    BY <1>5 DEF TokenInserted, Answer
  <2>2. CASE UNCHANGED <<tokens, issued>>
    BY <2>1, <2>2 DEF IInv, MarkerTellsFormat, HashedAll
  <2>3. ASSUME NEW id \in Id, NEW p \in Permission, NEW new,
               new = [id |-> id, value |-> <<a, 0>>, permission |-> p],
               tokens' = tokens \cup {Hashed(new)}, issued' = issued \cup {new}
        PROVE  IInv'
    <3>1. new \in TokenRecord /\ new.value \in Presented
      BY <2>3 DEF TokenRecord, Text, Presented
    <3>2. HashedAll(issued)' = HashedAll(issued) \cup {Hashed(new)}
      BY <2>3 DEF HashedAll
    <3>3. userVersion = 1 /\ tokens = HashedAll(issued)
      BY <2>1 DEF IInv, MarkerTellsFormat
    <3> QED  BY <2>1, <2>3, <3>1, <3>2, <3>3 DEF IInv, MarkerTellsFormat
  <2> QED  BY <1>5, <2>2, <2>3 DEF TokenInserted, Answer
<1>6. ASSUME NEW id \in Id, TokenDeleted(id) PROVE IInv'
  <2>1. /\ server = "serving" /\ server' = "serving" /\ userVersion' = userVersion
        /\ tokens' = {t \in tokens : t.id # id}
        /\ issued' = {t \in issued : t.id # id}
    BY <1>6 DEF TokenDeleted
  <2>2. userVersion = 1 /\ tokens = HashedAll(issued) /\ issued \in SUBSET TokenRecord
    BY <2>1 DEF IInv, MarkerTellsFormat
  <2>3. tokens' = HashedAll({t \in issued : t.id # id})
    BY <2>1, <2>2, DeletionCommutes
  <2>4. HashedAll(issued)' = HashedAll({t \in issued : t.id # id})
    BY <2>1 DEF HashedAll
  <2> QED  BY <2>1, <2>2, <2>3, <2>4 DEF IInv, MarkerTellsFormat
<1>7. CASE UNCHANGED <<tokens, userVersion, server, rebuilt, remaining, issued>>
  BY <1>7 DEF IInv, MarkerTellsFormat, HashedAll
<1>8. CASE \E a \in Add : AddArrives(a) \/ BodyParsed(a)
  BY <1>7, <1>8 DEF AddArrives, BodyParsed, Answer
<1>9. CASE \E c \in Client : Authenticated(c)
  BY <1>7, <1>9 DEF Authenticated
<1>10. CASE UNCHANGED vars
  BY <1>7, <1>10 DEF vars
<1> QED  BY <1>1, <1>2, <1>3, <1>4, <1>5, <1>6, <1>8, <1>9, <1>10 DEF Next

THEOREM Invariance == Spec => []IInv
BY InitEstablishes, NextPreserves, PTL DEF Spec

-----------------------------------------------------------------------------
(***************************************************************************)
(* The committed table is wholly in the format its marker tells, at every  *)
(* moment and after every crash (token-storage.ts:48-53).                  *)
(***************************************************************************)
THEOREM TableIsNeverHalfMigrated == Spec => []MarkerTellsFormat
BY Invariance, PTL DEF IInv

(* While the server serves, what a text finds is the token it is.          *)
LEMMA FoundAreIssued ==
    ASSUME IInv, server = "serving", NEW v \in Text
    PROVE  findToken(v) = HashedAll({t \in issued : t.value = v})
<1>1. tokens = HashedAll(issued) /\ issued \subseteq TokenRecord
  BY DEF IInv, MarkerTellsFormat
<1>2. \A t \in issued : t.value \in Text /\ Hashed(t).value = hashToken(t.value)
  BY <1>1, HashedFields DEF TokenRecord
<1>3. \A t \in issued : Hashed(t).value = hashToken(v) <=> t.value = v
  BY <1>2, HashInjective
<1> QED  BY <1>1, <1>3 DEF findToken, HashedAll

(***************************************************************************)
(* A text authenticates exactly when it is a token that was handed out and *)
(* not deleted, and with the id and permission it was given (token-        *)
(* storage.ts:45-76, 145-151).                                             *)
(***************************************************************************)
THEOREM LookupsAreRight == Spec => []LookupMatchesIssued
<1>1. IInv => LookupMatchesIssued
  <2> SUFFICES ASSUME IInv, server = "serving", NEW v \in Presented
               PROVE  Summaries(findToken(v)) = Summaries({t \in issued : t.value = v})
    BY DEF LookupMatchesIssued
  <2>1. v \in Text
    BY DEF Presented, Text
  <2>2. findToken(v) = HashedAll({t \in issued : t.value = v})
    BY <2>1, FoundAreIssued
  <2>3. \A t \in issued : Hashed(t).id = t.id /\ Hashed(t).permission = t.permission
    BY HashedFields DEF IInv
  <2> QED  BY <2>2, <2>3 DEF Summaries, HashedAll
<1> QED  BY <1>1, Invariance, PTL

(* The client whose entry changed is the one that was resolved.            *)
LEMMA AuthOfOne ==
    ASSUME NEW c \in Client, \E d \in Client : Authenticated(d), auth'[c] # auth[c]
    PROVE  \E v \in Presented \cup {AdminToken, NoToken} : auth'[c] \in Resolved(v)
<1>1. PICK d \in Client, v \in Presented \cup {AdminToken, NoToken} :
        \E resolved \in Resolved(v) : auth' = [auth EXCEPT ![d] = resolved]
  BY DEF Authenticated
<1>2. PICK resolved \in Resolved(v) : auth' = [auth EXCEPT ![d] = resolved]
  BY <1>1
<1> QED  BY <1>2

(***************************************************************************)
(* Only a guess counts as an authentication failure, whatever the database *)
(* does (resolve-token.ts:24-34).                                          *)
(***************************************************************************)
THEOREM OnlyGuessesCount ==
    Spec => FailuresAreGuesses
<1> DEFINE Guesses ==
      \A c \in Client : auth'[c] # auth[c] /\ auth'[c].authFailed =>
         /\ auth'[c].token # AdminToken
         /\ \A t \in issued : t.value # auth'[c].token
<1>1. IInv /\ [Next]_vars => [Guesses]_vars
  <2> SUFFICES ASSUME IInv, [Next]_vars, NEW c \in Client,
                      auth'[c] # auth[c], auth'[c].authFailed
               PROVE  /\ auth'[c].token # AdminToken
                      /\ \A t \in issued : t.value # auth'[c].token
    OBVIOUS
  <2>1. \E d \in Client : Authenticated(d)
    BY DEF Next, vars, Opened, RowRehashed, MigrationCommitted, Crash, AddArrives,
           BodyParsed, TokenInserted, TokenDeleted, Answer
  <2>2. server = "serving"
    BY <2>1 DEF Authenticated
  <2>3. PICK v \in Presented \cup {AdminToken, NoToken} : auth'[c] \in Resolved(v)
    BY <2>1, AuthOfOne
  <2>4. CASE v = NoToken
    <3>1. auth'[c].token = NoToken
      BY <2>3, <2>4, SecretsAssumption DEF Resolved, Unauthenticated
    <3> QED  BY <3>1, SecretsAssumption DEF IInv
  <2>5. CASE v = AdminToken
    <3>1. ~auth'[c].authFailed
      BY <2>3, <2>5, SecretsAssumption DEF Resolved, Admitted
    <3> QED  BY <3>1
  <2>6. CASE v \in Presented
    <3>1. v # NoToken /\ v # AdminToken /\ v \in Text
      BY <2>6, SecretsAssumption DEF Presented, Text
    <3>2. Resolved(v) =
            {IF findToken(v) = {} THEN Unauthenticated(v)
                ELSE Admitted(v, {t.permission : t \in findToken(v)})}
            \cup {Admitted(v, {}) : f \in Faults \cap {"db"}}
      BY <2>6, <3>1 DEF Resolved
    <3>3. \A P : ~Admitted(v, P).authFailed
      BY DEF Admitted
    <3>4. findToken(v) = {} /\ auth'[c] = Unauthenticated(v)
      BY <2>3, <3>2, <3>3
    <3>5. auth'[c].token = v
      BY <3>4 DEF Unauthenticated
    <3>6. HashedAll({t \in issued : t.value = v}) = {}
      BY <2>2, <3>1, <3>4, FoundAreIssued
    <3>7. \A t \in issued : t.value # v
      BY <3>6 DEF HashedAll
    <3> QED  BY <3>1, <3>5, <3>7
  <2> QED  BY <2>3, <2>4, <2>5, <2>6
<1> QED  BY <1>1, Invariance, PTL DEF Spec, FailuresAreGuesses
=============================================================================
