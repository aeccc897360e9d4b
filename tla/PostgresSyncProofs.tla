------------------------- MODULE PostgresSyncProofs -------------------------
(***************************************************************************)
(* Proofs about PostgresSync, for every set of commands, lineages and rows *)
(* and every bound.  IInv is inductive: a step leaves the tables alone, or *)
(* is a commit of a whole plan made under the lineage's lock.              *)
(***************************************************************************)
EXTENDS PostgresSync, TLAPS

USE BoundsAssumption, SourceAssumption

\* The plan, applied over the hashes it was made from, yields the revision's rows.
LEMMA DeltaReachesSource ==
    ASSUME NEW l \in Lineages, NEW r \in Revisions, digests \in [Lineages -> RowMaps]
    PROVE  /\ Delta(l, r) \in [Keys -> Payloads \cup {NoRow, Keep}]
           /\ Over(Delta(l, r), digests[l]) = SourceRows[l][r]
<1> DEFINE s == SourceRows[l][r]
           d == digests[l]
<1>1. s \in [Keys -> Payloads \cup {NoRow}] /\ d \in [Keys -> Payloads \cup {NoRow}]
  BY DEF RowMaps
<1>2. Delta(l, r) = [k \in Keys |-> IF s[k] = d[k] THEN Keep ELSE s[k]]
  BY DEF Delta
<1> HIDE DEF s, d
<1>3. Delta(l, r) \in [Keys -> Payloads \cup {NoRow, Keep}]
  BY <1>1, <1>2
<1>4. Over(Delta(l, r), d) = [k \in Keys |-> s[k]]
  <2>1. \A k \in Keys : s[k] # Keep
    BY <1>1
  <2> QED BY <1>1, <1>2, <2>1 DEF Over
<1> QED BY <1>1, <1>3, <1>4 DEF s, d

\* A transaction that wrote nothing sees what is committed.
LEMMA NothingOverRows ==
    ASSUME NEW rows \in RowMaps
    PROVE  Over(Nothing, rows) = rows
BY DEF Over, Nothing, RowMaps

LEMMA InitIInv == Init => IInv
<1> SUFFICES ASSUME Init PROVE IInv
  OBVIOUS
<1> USE DEF Init, NoDeclaration
<1>1. TypeOK
  <2>1. NoRows \in RowMaps /\ Nothing \in [Keys -> Payloads \cup {NoRow, Keep}]
    BY DEF NoRows, Nothing, RowMaps
  <2>2. /\ consumer \in [Lineages -> RowMaps] /\ digests \in [Lineages -> RowMaps]
        /\ wrote \in [Syncers -> [Keys -> Payloads \cup {NoRow, Keep}]]
        /\ wroteDigests \in [Syncers -> [Keys -> Payloads \cup {NoRow, Keep}]]
    BY <2>1
  <2>3. NoDeclaration \in [Lineages -> 0..MaxRevisions]
    OBVIOUS
  <2>4. snapshot \in [Syncers -> [Lineages -> 0..MaxRevisions]]
    BY <2>3
  <2>5. building \in BOOLEAN
    BY Zenon
  <2> QED BY <2>2, <2>3, <2>4, <2>5 DEF TypeOK
<1>2. CommandOK
  BY DEF CommandOK, Locked
<1>3. TransactionOK
  BY DEF TransactionOK, TransactionOf
<1>4. LocksExclude
  BY DEF LocksExclude, Locked
<1>5. ServedIsPublished
  BY DEF ServedIsPublished, RowsOf
<1>6. SchemaAgrees
  BY DEF SchemaAgrees
<1>7. HandledIsCurrent
  BY DEF HandledIsCurrent, Handled
<1> QED BY <1>1, <1>2, <1>3, <1>4, <1>5, <1>6, <1>7 DEF IInv

\* A command whose transaction a step leaves alone.
Undisturbed(q) ==
    /\ pc'[q] = pc[q] /\ cur'[q] = cur[q] /\ snapshot'[q] = snapshot[q]
    /\ wrote'[q] = wrote[q] /\ wroteDigests'[q] = wroteDigests[q] /\ nextState'[q] = nextState[q]

LEMMA UndisturbedTransaction ==
    ASSUME TransactionOK, NEW q \in Syncers, Undisturbed(q), UNCHANGED <<digests, state, catalog>>
    PROVE  TransactionOf(q)'
<1>1. TransactionOf(q)
  BY DEF TransactionOK
<1>2. Delta(cur[q], snapshot[q][cur[q]])' = Delta(cur[q], snapshot[q][cur[q]])
  BY DEF Undisturbed, Delta
<1> QED BY <1>1, <1>2 DEF TransactionOf, Undisturbed

\* Outside of the table-writing steps a transaction must have written nothing.
LEMMA EmptyTransaction ==
    ASSUME NEW p \in Syncers, pc'[p] \in {"idle", "certify", "next", "lock", "read"},
           wrote'[p] = Nothing, wroteDigests'[p] = Nothing, nextState'[p] = 0
    PROVE  TransactionOf(p)'
BY DEF TransactionOf

\* ... and before them it has.
LEMMA NothingWritten ==
    ASSUME TransactionOK, NEW p \in Syncers,
           pc[p] \in {"idle", "certify", "next", "lock", "read", "rows"}
    PROVE  wrote[p] = Nothing /\ wroteDigests[p] = Nothing /\ nextState[p] = 0
BY DEF TransactionOK, TransactionOf

\* A step of one command keeps the others' transactions.
LEMMA StepTransactions ==
    ASSUME TransactionOK, NEW p \in Syncers, UNCHANGED <<digests, state, catalog>>,
           \A q \in Syncers \ {p} : Undisturbed(q), TransactionOf(p)'
    PROVE  TransactionOK'
<1> SUFFICES ASSUME NEW q \in Syncers PROVE TransactionOf(q)'
  BY DEF TransactionOK
<1> QED BY UndisturbedTransaction

\* A step of one command that neither replaces rows nor is done with a lineage.
LEMMA NothingNewHandled ==
    ASSUME HandledIsCurrent, NEW p \in Syncers, UNCHANGED state,
           \A q \in Syncers \ {p} :
               /\ pc'[q] = pc[q] /\ todo'[q] = todo[q] /\ snapshot'[q] = snapshot[q]
               /\ displaced'[q] = displaced[q],
           \/ pc'[p] \in {"idle", "certify"}
           \/ \A l \in Lineages : snapshot'[p][l] # 0 => l \in todo'[p]
           \/ /\ pc[p] \notin {"idle", "certify"} /\ todo'[p] = todo[p]
              /\ snapshot'[p] = snapshot[p] /\ displaced'[p] = displaced[p]
    PROVE  HandledIsCurrent'
<1> SUFFICES ASSUME NEW q \in Syncers, NEW l \in Lineages,
                    l \in Handled(q)', l \notin displaced'[q]
             PROVE  state'[l] = snapshot'[q][l]
  BY DEF HandledIsCurrent, Handled
<1>1. l \in Handled(q) /\ snapshot'[q] = snapshot[q] /\ displaced'[q] = displaced[q]
  BY DEF Handled
<1> QED BY <1>1 DEF HandledIsCurrent

\* Steps of others than the commands that leave hashes, checkpoints and schemas alone.
LEMMA CommandsUndisturbed ==
    ASSUME TransactionOK, LocksExclude, HandledIsCurrent,
           UNCHANGED <<commandVars, digests, state, catalog, displaced>>
    PROVE  TransactionOK' /\ LocksExclude' /\ HandledIsCurrent'
<1> USE DEF commandVars, txVars
<1>1. \A q \in Syncers : Undisturbed(q)
  BY DEF Undisturbed
<1>2. TransactionOK'
  <2> SUFFICES ASSUME NEW q \in Syncers PROVE TransactionOf(q)'
    BY DEF TransactionOK
  <2> QED BY <1>1, UndisturbedTransaction
<1>3. LocksExclude'
  BY DEF LocksExclude
<1>4. HandledIsCurrent'
  BY DEF HandledIsCurrent, Handled
<1> QED BY <1>2, <1>3, <1>4

\* Ending a command, for whatever reason, keeps the invariant: its writes vanish.
LEMMA EndIInv ==
    ASSUME IInv, NEW p \in Syncers, End(p),
           UNCHANGED <<goldVars, tableVars, drift, externals>>, faults' \in 0..MaxFaults
    PROVE  IInv'
<1> USE DEF IInv, End, Rollback, goldVars, tableVars
<1>1. TypeOK'
  BY DEF TypeOK, Nothing, NoDeclaration
<1>2. CommandOK'
  BY DEF CommandOK, Locked, NoDeclaration, TypeOK
<1>3. TransactionOK'
  <2>1. \A q \in Syncers \ {p} : Undisturbed(q)
    BY DEF Undisturbed, TypeOK
  <2>2. TransactionOf(p)'
    BY EmptyTransaction DEF TypeOK
  <2> QED BY <2>1, <2>2, StepTransactions
<1>4. LocksExclude'
  BY DEF LocksExclude, Locked, TypeOK
<1>5. ServedIsPublished'
  BY DEF ServedIsPublished, RowsOf
<1>6. SchemaAgrees'
  BY DEF SchemaAgrees
<1>7. HandledIsCurrent'
  BY NothingNewHandled DEF TypeOK
<1> QED BY <1>1, <1>2, <1>3, <1>4, <1>5, <1>6, <1>7

LEMMA GoldIInv ==
    ASSUME IInv, Gold
    PROVE  IInv'
<1> USE DEF IInv, tableVars, commandVars, txVars, NoDeclaration
<1>1. CASE GoldBegin
  <2> USE <1>1 DEF GoldBegin
  <2>1. TypeOK'
    BY DEF TypeOK
  <2>2. CommandOK'
    BY DEF CommandOK, TypeOK
  <2>3. ServedIsPublished' /\ SchemaAgrees'
    BY DEF ServedIsPublished, RowsOf, SchemaAgrees
  <2> QED BY <2>1, <2>2, <2>3, CommandsUndisturbed
<1>2. ASSUME NEW success \in BOOLEAN, GoldEnd(success)
      PROVE  IInv'
  <2> USE <1>2 DEF GoldEnd
  <2>1. TypeOK'
    <3>1. declared' \in [Lineages -> 0..MaxRevisions]
      <4>1. CASE success
        BY <4>1 DEF TypeOK
      <4>2. CASE ~success
        BY <4>2 DEF TypeOK
      <4> QED BY <4>1, <4>2
    <3>2. building' \in BOOLEAN
      BY Zenon
    <3> QED BY <3>1, <3>2 DEF TypeOK
  <2>2. CommandOK'
    BY DEF CommandOK, TypeOK
  <2>3. ServedIsPublished' /\ SchemaAgrees'
    BY DEF ServedIsPublished, RowsOf, SchemaAgrees
  <2> QED BY <2>1, <2>2, <2>3, CommandsUndisturbed
<1>3. ASSUME NEW l \in Lineages, GoldPublish(l)
      PROVE  IInv'
  <2> USE <1>3 DEF GoldPublish
  <2>1. TypeOK'
    BY DEF TypeOK
  <2>2. \A m \in Lineages : published[m] <= published'[m]
    BY DEF TypeOK
  <2>3. CommandOK'
    BY <2>2 DEF CommandOK, TypeOK
  <2>4. ServedIsPublished'
    BY <2>2 DEF ServedIsPublished, RowsOf, TypeOK
  <2>5. SchemaAgrees'
    BY DEF SchemaAgrees
  <2> QED BY <2>1, <2>3, <2>4, <2>5, CommandsUndisturbed
<1>4. ASSUME NEW l \in Lineages, GoldReuse(l)
      PROVE  IInv'
  <2> USE <1>4 DEF GoldReuse
  <2>1. TypeOK'
    BY DEF TypeOK
  <2>2. CommandOK'
    BY DEF CommandOK, TypeOK
  <2>3. ServedIsPublished' /\ SchemaAgrees'
    BY DEF ServedIsPublished, RowsOf, SchemaAgrees
  <2> QED BY <2>1, <2>2, <2>3, CommandsUndisturbed
<1> QED BY <1>1, <1>2, <1>3, <1>4 DEF Gold

\* Steps that change neither Gold nor the tables keep what readers see.
LEMMA ReadersUndisturbed ==
    ASSUME IInv, UNCHANGED <<goldVars, consumer, digests, state, catalog, drift>>
    PROVE  ServedIsPublished' /\ SchemaAgrees'
BY DEF IInv, ServedIsPublished, RowsOf, SchemaAgrees, goldVars

LEMMA StartIInv ==
    ASSUME IInv, NEW p \in Syncers, StartDeclared(p) \/ StartCurrent(p)
    PROVE  IInv'
<1>1. PICK selection \in [Lineages -> 0..MaxRevisions] :
          /\ Start(p, selection)
          /\ \A l \in Lineages : selection[l] <= published[l]
  <2>1. declared \in [Lineages -> 0..MaxRevisions] /\ published \in [Lineages -> 0..MaxRevisions]
    BY DEF IInv, TypeOK
  <2>2. \A l \in Lineages : declared[l] <= published[l] /\ published[l] <= published[l]
    BY <2>1 DEF IInv, CommandOK
  <2> QED BY <2>1, <2>2 DEF StartDeclared, StartCurrent
<1> USE <1>1 DEF IInv, Start, Goto, goldVars, tableVars, txVars
<1>2. TypeOK'
  BY DEF TypeOK
<1>3. CommandOK'
  BY DEF CommandOK, Locked, TypeOK
<1>4. TransactionOK'
  <2>1. \A q \in Syncers \ {p} : Undisturbed(q)
    BY DEF Undisturbed, TypeOK
  <2>2. TransactionOf(p)'
    BY NothingWritten, EmptyTransaction DEF TypeOK
  <2> QED BY <2>1, <2>2, StepTransactions
<1>5. LocksExclude'
  BY DEF LocksExclude, Locked, TypeOK
<1>6. HandledIsCurrent'
  BY NothingNewHandled DEF TypeOK
<1> QED BY <1>2, <1>3, <1>4, <1>5, <1>6, ReadersUndisturbed

LEMMA CertifyIInv ==
    ASSUME IInv, NEW p \in Syncers, Certify(p)
    PROVE  IInv'
<1> USE DEF IInv
<1>1. PICK l \in First(todo[p]) :
          \/ End(p)
          \/ /\ \/ /\ Goto(p, "next")
                   /\ todo' = [todo EXCEPT ![p] = {m \in Lineages : snapshot[p][m] # 0}]
                \/ /\ todo' = [todo EXCEPT ![p] = @ \ {l}]
                   /\ UNCHANGED pc
             /\ UNCHANGED <<snapshot, txVars>>
  BY DEF Certify
<1>2. pc[p] = "certify" /\ UNCHANGED <<goldVars, tableVars, drift, faults, externals>>
  BY DEF Certify
<1>3. CASE End(p)
  BY <1>2, <1>3, EndIInv DEF TypeOK
<1>4. CASE ~End(p)
  <2>0. /\ \/ /\ pc' = [pc EXCEPT ![p] = "next"]
              /\ todo' = [todo EXCEPT ![p] = {m \in Lineages : snapshot[p][m] # 0}]
           \/ /\ todo' = [todo EXCEPT ![p] = @ \ {l}]
              /\ UNCHANGED pc
        /\ UNCHANGED <<snapshot, txVars>>
    BY <1>1, <1>4 DEF Goto
  <2> USE <1>2 DEF goldVars, tableVars, txVars
  <2>1. /\ todo' \in [Syncers -> SUBSET Lineages]
        /\ \A q \in Syncers : \A m \in todo'[q] : snapshot'[q][m] # 0
    <3>1. CASE todo' = [todo EXCEPT ![p] = {m \in Lineages : snapshot[p][m] # 0}]
      BY <2>0, <3>1 DEF TypeOK, CommandOK
    <3>2. CASE todo' = [todo EXCEPT ![p] = @ \ {l}]
      BY <2>0, <3>2 DEF TypeOK, CommandOK
    <3> QED BY <2>0, <3>1, <3>2
  <2>2. /\ pc' \in [Syncers -> {"idle", "certify", "next", "lock"} \cup Locked]
        /\ pc'[p] \in {"certify", "next"}
        /\ \A q \in Syncers \ {p} : pc'[q] = pc[q]
    BY <2>0 DEF TypeOK
  <2>3. UNCHANGED <<snapshot, cur, wrote, wroteDigests, nextState>>
    BY <2>0
  <2>4. TypeOK'
    BY <2>1, <2>2, <2>3 DEF TypeOK
  <2>5. CommandOK'
    BY <2>1, <2>2, <2>3 DEF CommandOK, Locked, TypeOK
  <2>6. TransactionOK'
    <3>1. \A q \in Syncers \ {p} : Undisturbed(q)
      BY <2>2, <2>3 DEF Undisturbed
    <3>2. TransactionOf(p)'
      BY <2>2, <2>3, NothingWritten, EmptyTransaction
    <3> QED BY <3>1, <3>2, StepTransactions
  <2>7. LocksExclude'
    BY <2>2, <2>3 DEF LocksExclude, Locked, TypeOK
  <2>8. HandledIsCurrent'
    <3>1. \/ pc'[p] = "certify"
          \/ \A m \in Lineages : snapshot'[p][m] # 0 => m \in todo'[p]
      BY <2>0 DEF TypeOK
    <3>2. \A q \in Syncers \ {p} : todo'[q] = todo[q]
      BY <2>0 DEF TypeOK
    <3> QED BY <2>2, <2>3, <3>1, <3>2, NothingNewHandled
  <2> QED BY <2>4, <2>5, <2>6, <2>7, <2>8, ReadersUndisturbed
<1> QED BY <1>3, <1>4

LEMMA OpenIInv ==
    ASSUME IInv, NEW p \in Syncers, Open(p)
    PROVE  IInv'
<1> USE DEF IInv
<1>1. PICK l \in First(todo[p]) :
          \/ End(p)
          \/ /\ Goto(p, "lock")
             /\ cur' = [cur EXCEPT ![p] = l]
             /\ UNCHANGED <<todo, snapshot, wrote, wroteDigests, nextState>>
  BY DEF Open
<1>2. pc[p] = "next" /\ UNCHANGED <<goldVars, tableVars, drift, faults, externals>>
  BY DEF Open
<1>3. CASE End(p)
  BY <1>2, <1>3, EndIInv DEF TypeOK
<1>4. CASE ~End(p)
  <2>0. /\ pc' = [pc EXCEPT ![p] = "lock"]
        /\ cur' = [cur EXCEPT ![p] = l]
        /\ UNCHANGED <<todo, snapshot, wrote, wroteDigests, nextState>>
    BY <1>1, <1>4 DEF Goto
  <2> USE <1>2, <2>0 DEF goldVars, tableVars
  <2>1. l \in todo[p] /\ l \in Lineages /\ l # 0
    BY DEF First, TypeOK
  <2>2. TypeOK'
    BY <2>1 DEF TypeOK
  <2>3. CommandOK'
    BY <2>1 DEF CommandOK, Locked, TypeOK
  <2>4. TransactionOK'
    <3>1. \A q \in Syncers \ {p} : Undisturbed(q)
      BY DEF Undisturbed, TypeOK
    <3>2. TransactionOf(p)'
      BY NothingWritten, EmptyTransaction DEF TypeOK
    <3> QED BY <3>1, <3>2, StepTransactions
  <2>5. LocksExclude'
    BY DEF LocksExclude, Locked, TypeOK
  <2>6. HandledIsCurrent'
    BY NothingNewHandled DEF TypeOK
  <2> QED BY <2>2, <2>3, <2>4, <2>5, <2>6, ReadersUndisturbed
<1> QED BY <1>3, <1>4

LEMMA LockIInv ==
    ASSUME IInv, NEW p \in Syncers, Lock(p)
    PROVE  IInv'
<1> USE DEF IInv, Lock, Goto, goldVars, tableVars, txVars
<1>1. TypeOK'
  BY DEF TypeOK, Locked
<1>2. CommandOK'
  BY DEF CommandOK, Locked, TypeOK
<1>3. TransactionOK'
  <2>1. \A q \in Syncers \ {p} : Undisturbed(q)
    BY DEF Undisturbed, TypeOK
  <2>2. TransactionOf(p)'
    BY NothingWritten, EmptyTransaction DEF TypeOK
  <2> QED BY <2>1, <2>2, StepTransactions
<1>4. LocksExclude'
  BY DEF LocksExclude, Locked, TypeOK
<1>5. HandledIsCurrent'
  BY NothingNewHandled DEF TypeOK
<1> QED BY <1>1, <1>2, <1>3, <1>4, <1>5, ReadersUndisturbed

LEMMA ReadIInv ==
    ASSUME IInv, NEW p \in Syncers, Read(p)
    PROVE  IInv'
<1> USE DEF IInv
<1> DEFINE l == cur[p]
           r == snapshot[p][l]
<1>1. pc[p] = "read" /\ UNCHANGED <<goldVars, tableVars, drift, faults, externals>>
  BY DEF Read
<1>2. CASE End(p)
  BY <1>1, <1>2, EndIInv DEF TypeOK
<1>3. CASE ~End(p)
  <2>1. /\ catalog[l] = SchemaOf[l][r]
        /\ \/ pc' = [pc EXCEPT ![p] = "verify"] /\ state[l] = r
           \/ pc' = [pc EXCEPT ![p] = "rows"]
        /\ UNCHANGED <<todo, snapshot, txVars>>
    BY <1>3 DEF Read, TargetAccepted, Goto
  <2> USE <1>1, <2>1 DEF goldVars, tableVars, txVars
  <2>2. TypeOK'
    BY DEF TypeOK, Locked
  <2>3. CommandOK'
    BY DEF CommandOK, Locked, TypeOK
  <2>4. TransactionOK'
    <3>1. \A q \in Syncers \ {p} : Undisturbed(q)
      BY DEF Undisturbed, TypeOK
    <3>2. pc'[p] = "rows" \/ (pc'[p] = "verify" /\ state[l] = r)
      BY DEF TypeOK
    <3>3. TransactionOf(p)'
      BY <3>2, NothingWritten DEF TransactionOf
    <3> QED BY <3>1, <3>3, StepTransactions
  <2>5. LocksExclude'
    <3>1. \A q \in Syncers : pc'[q] \in Locked => pc[q] \in Locked
      BY DEF Locked, TypeOK
    <3> QED BY <3>1 DEF LocksExclude
  <2>6. ServedIsPublished' /\ SchemaAgrees'
    BY ReadersUndisturbed
  <2>7. HandledIsCurrent'
    BY NothingNewHandled DEF TypeOK
  <2> QED BY <2>2, <2>3, <2>4, <2>5, <2>6, <2>7
<1> QED BY <1>2, <1>3

\* A command in a transaction works on a lineage, towards a published revision.
LEMMA OpenTransaction ==
    ASSUME TypeOK, CommandOK, NEW p \in Syncers, pc[p] \in Locked
    PROVE  /\ cur[p] \in Lineages
           /\ snapshot[p][cur[p]] \in Revisions
           /\ snapshot[p][cur[p]] <= published[cur[p]]
<1>1. cur[p] # 0
  BY DEF CommandOK
<1>2. cur[p] \in Lineages
  BY <1>1 DEF TypeOK
<1>3. snapshot[p][cur[p]] # 0 /\ snapshot[p][cur[p]] <= published[cur[p]]
  BY <1>1, <1>2 DEF CommandOK
<1>4. snapshot[p] \in [Lineages -> 0..MaxRevisions]
  BY DEF TypeOK
<1>5. snapshot[p][cur[p]] \in 0..MaxRevisions
  BY <1>2, <1>4
<1> QED BY <1>2, <1>3, <1>5 DEF Revisions

LEMMA ApplyRowsIInv ==
    ASSUME IInv, NEW p \in Syncers, ApplyRows(p)
    PROVE  IInv'
<1> USE DEF IInv
<1> DEFINE l == cur[p]
           r == snapshot[p][l]
<1>1. pc[p] = "rows" /\ UNCHANGED <<goldVars, tableVars, drift, faults, externals>>
  BY DEF ApplyRows
<1>2. CASE End(p)
  BY <1>1, <1>2, EndIInv DEF TypeOK
<1>3. CASE ~End(p)
  <2>1. /\ wrote' = [wrote EXCEPT ![p] = Delta(l, r)]
        /\ pc' = [pc EXCEPT ![p] = "digests"]
        /\ UNCHANGED <<todo, snapshot, cur, wroteDigests, nextState>>
    BY <1>3 DEF ApplyRows, Goto
  <2>2. l \in Lineages /\ r \in Revisions
    BY <1>1, OpenTransaction DEF Locked
  <2>3. Delta(l, r) \in [Keys -> Payloads \cup {NoRow, Keep}]
    BY <2>2, DeltaReachesSource DEF TypeOK
  <2> HIDE DEF l, r
  <2> USE <1>1, <2>1 DEF goldVars, tableVars
  <2>4. TypeOK'
    BY <2>3 DEF TypeOK, Locked
  <2>5. CommandOK'
    BY DEF CommandOK, Locked, TypeOK
  <2>6. TransactionOK'
    <3>1. \A q \in Syncers \ {p} : Undisturbed(q)
      BY DEF Undisturbed, TypeOK
    <3>2. /\ pc'[p] = "digests" /\ wrote'[p] = Delta(l, r)
          /\ wroteDigests'[p] = Nothing /\ nextState'[p] = 0
      BY NothingWritten DEF TypeOK
    <3>3. catalog'[l] = SchemaOf[l][r] /\ Delta(cur[p], snapshot[p][cur[p]])' = Delta(l, r)
      BY DEF TransactionOK, TransactionOf, Delta, l, r
    <3>4. TransactionOf(p)'
      BY <3>2, <3>3 DEF TransactionOf, l, r
    <3> QED BY <3>1, <3>4, StepTransactions
  <2>7. LocksExclude'
    BY DEF LocksExclude, Locked, TypeOK
  <2>8. HandledIsCurrent'
    BY NothingNewHandled DEF TypeOK
  <2> QED BY <2>4, <2>5, <2>6, <2>7, <2>8, ReadersUndisturbed
<1> QED BY <1>2, <1>3

LEMMA ApplyDigestsIInv ==
    ASSUME IInv, NEW p \in Syncers, ApplyDigests(p)
    PROVE  IInv'
<1> USE DEF IInv
<1> DEFINE l == cur[p]
           r == snapshot[p][l]
<1>1. /\ pc[p] = "digests" /\ UNCHANGED <<goldVars, tableVars, drift, faults, externals>>
      /\ wroteDigests' = [wroteDigests EXCEPT ![p] = Delta(l, r)]
      /\ nextState' = [nextState EXCEPT ![p] = r]
      /\ pc' = [pc EXCEPT ![p] = "verify"]
      /\ UNCHANGED <<todo, snapshot, cur, wrote>>
  BY DEF ApplyDigests, Goto
<1>2. l \in Lineages /\ r \in Revisions
  BY <1>1, OpenTransaction DEF Locked
<1>3. Delta(l, r) \in [Keys -> Payloads \cup {NoRow, Keep}]
  BY <1>2, DeltaReachesSource DEF TypeOK
<1> HIDE DEF l, r
<1> USE <1>1 DEF goldVars, tableVars
<1>4. TypeOK'
  <2>1. nextState' \in [Syncers -> 0..MaxRevisions]
    BY <1>2 DEF TypeOK, Revisions
  <2>2. wroteDigests' \in [Syncers -> [Keys -> Payloads \cup {NoRow, Keep}]]
    BY <1>3 DEF TypeOK
  <2> QED BY <2>1, <2>2 DEF TypeOK, Locked
<1>5. CommandOK'
  BY DEF CommandOK, Locked, TypeOK
<1>6. TransactionOK'
  <2>1. \A q \in Syncers \ {p} : Undisturbed(q)
    BY DEF Undisturbed, TypeOK
  <2>2. TransactionOf(p)'
    <3>1. /\ pc'[p] = "verify" /\ cur'[p] = l /\ snapshot'[p][l] = r
          /\ wroteDigests'[p] = Delta(l, r) /\ nextState'[p] = r
      BY DEF TypeOK, l, r
    <3>2. wrote'[p] = Delta(l, r) /\ catalog'[l] = SchemaOf[l][r]
      BY DEF TransactionOK, TransactionOf, l, r
    <3>3. Delta(cur[p], snapshot[p][cur[p]])' = Delta(l, r)
      BY DEF Delta, l, r
    <3> QED BY <3>1, <3>2, <3>3 DEF TransactionOf
  <2> QED BY <2>1, <2>2, StepTransactions
<1>7. LocksExclude'
  BY DEF LocksExclude, Locked, TypeOK
<1>8. HandledIsCurrent'
  BY NothingNewHandled DEF TypeOK
<1> QED BY <1>4, <1>5, <1>6, <1>7, <1>8, ReadersUndisturbed

LEMMA VerifyIInv ==
    ASSUME IInv, NEW p \in Syncers, Verify(p)
    PROVE  IInv'
<1> USE DEF IInv
<1>1. pc[p] = "verify" /\ UNCHANGED <<goldVars, tableVars, drift, faults, externals>>
  BY DEF Verify
<1>2. CASE End(p)
  BY <1>1, <1>2, EndIInv DEF TypeOK
<1>3. CASE ~End(p)
  <2>1. pc' = [pc EXCEPT ![p] = "commit"] /\ UNCHANGED <<todo, snapshot, txVars>>
    BY <1>3 DEF Verify, Goto
  <2> USE <1>1, <2>1 DEF goldVars, tableVars, txVars
  <2>2. TypeOK'
    BY DEF TypeOK, Locked
  <2>3. CommandOK'
    BY DEF CommandOK, Locked, TypeOK
  <2>4. TransactionOK'
    <3>1. \A q \in Syncers \ {p} : Undisturbed(q)
      BY DEF Undisturbed, TypeOK
    <3>2. TransactionOf(p) /\ pc'[p] = "commit"
      BY DEF TransactionOK, TypeOK
    <3>3. Delta(cur[p], snapshot[p][cur[p]])' = Delta(cur[p], snapshot[p][cur[p]])
      BY DEF Delta
    <3>4. TransactionOf(p)'
      BY <3>2, <3>3 DEF TransactionOf
    <3> QED BY <3>1, <3>4, StepTransactions
  <2>5. LocksExclude'
    BY DEF LocksExclude, Locked, TypeOK
  <2>6. HandledIsCurrent'
    BY NothingNewHandled DEF TypeOK
  <2> QED BY <2>2, <2>3, <2>4, <2>5, <2>6, ReadersUndisturbed
<1> QED BY <1>2, <1>3

LEMMA OverRows ==
    ASSUME NEW writes \in [Keys -> Payloads \cup {NoRow, Keep}], NEW rows \in RowMaps
    PROVE  Over(writes, rows) \in RowMaps
<1>1. \A k \in Keys : writes[k] # Keep => writes[k] \in Payloads \cup {NoRow}
  OBVIOUS
<1> QED BY <1>1 DEF Over, RowMaps

\* A commit publishes nothing new or the whole of the revision it planned, and
\* leaves the other lineages alone.
LEMMA DurableTables ==
    ASSUME IInv, NEW p \in Syncers, pc[p] = "commit", Durable(p),
           UNCHANGED <<published, catalog, drift>>
    PROVE  /\ consumer' \in [Lineages -> RowMaps]
           /\ digests' \in [Lineages -> RowMaps]
           /\ state' \in [Lineages -> 0..MaxRevisions]
           /\ \A m \in Lineages \ {cur[p]} : digests'[m] = digests[m] /\ state'[m] = state[m]
           /\ state'[cur[p]] = snapshot[p][cur[p]]
           /\ ServedIsPublished'
           /\ SchemaAgrees'
<1> DEFINE l == cur[p]
           r == snapshot[p][l]
<1>1. /\ TypeOK /\ TransactionOf(p) /\ ServedIsPublished /\ SchemaAgrees
      /\ consumer \in [Lineages -> RowMaps] /\ digests \in [Lineages -> RowMaps]
      /\ state \in [Lineages -> 0..MaxRevisions]
  BY DEF IInv, TransactionOK, TypeOK
<1>2. l \in Lineages /\ r \in Revisions /\ r <= published[l]
  BY OpenTransaction DEF IInv, Locked
<1>3. /\ consumer' = [consumer EXCEPT ![l] = Over(wrote[p], consumer[l])]
      /\ digests' = [digests EXCEPT ![l] = Over(wroteDigests[p], digests[l])]
      /\ state' = [state EXCEPT ![l] = IF nextState[p] = 0 THEN state[l] ELSE nextState[p]]
  BY DEF Durable, RowsSeen, DigestsSeen, StateSeen
<1>4. catalog[l] = SchemaOf[l][r]
  BY <1>1 DEF TransactionOf
<1>5. CASE wrote[p] = Nothing /\ wroteDigests[p] = Nothing /\ nextState[p] = 0 /\ state[l] = r
  <2>1. consumer[l] \in RowMaps /\ digests[l] \in RowMaps
    BY <1>1, <1>2
  <2>2. consumer' = consumer /\ digests' = digests /\ state' = state
    BY <1>1, <1>2, <1>3, <1>5, <2>1, NothingOverRows
  <2> QED BY <1>1, <1>5, <2>2 DEF ServedIsPublished, SchemaAgrees, RowsOf
<1>6. CASE wrote[p] = Delta(l, r) /\ wroteDigests[p] = Delta(l, r) /\ nextState[p] = r
  <2>1. Delta(l, r) \in [Keys -> Payloads \cup {NoRow, Keep}]
        /\ Over(Delta(l, r), digests[l]) = SourceRows[l][r]
    BY <1>1, <1>2, DeltaReachesSource
  <2>2. consumer[l] \in RowMaps /\ SourceRows[l][r] \in RowMaps
    <3>1. SourceRows[l] \in [Revisions -> RowMaps]
      BY <1>2
    <3> QED BY <1>1, <1>2, <3>1
  <2>3. Over(Delta(l, r), consumer[l]) \in RowMaps
    BY <2>1, <2>2, OverRows
  <2>4. r # 0 /\ r \in 0..MaxRevisions
    BY <1>2 DEF Revisions
  <2>5. consumer' = [consumer EXCEPT ![l] = Over(Delta(l, r), consumer[l])]
        /\ digests' = [digests EXCEPT ![l] = SourceRows[l][r]]
        /\ state' = [state EXCEPT ![l] = r]
    BY <1>3, <1>6, <2>1, <2>4
  <2> HIDE DEF l, r
  <2>6. consumer' \in [Lineages -> RowMaps] /\ digests' \in [Lineages -> RowMaps]
        /\ state' \in [Lineages -> 0..MaxRevisions]
    BY <1>1, <2>2, <2>3, <2>4, <2>5
  <2>7. \A m \in Lineages \ {l} :
            digests'[m] = digests[m] /\ consumer'[m] = consumer[m] /\ state'[m] = state[m]
    BY <1>1, <2>5
  <2>8. digests'[l] = SourceRows[l][r] /\ state'[l] = r
        /\ consumer'[l] = Over(Delta(l, r), consumer[l])
    BY <1>1, <1>2, <2>5
  <2>9. l \notin drift => consumer'[l] = SourceRows[l][r]
    <3>1. l \notin drift => consumer[l] = digests[l]
      BY <1>1, <1>2 DEF ServedIsPublished
    <3> QED BY <2>1, <2>8, <3>1
  <2>10. ServedIsPublished'
    <3> SUFFICES ASSUME NEW m \in Lineages, m \notin drift
                 PROVE  /\ state'[m] <= published[m]
                        /\ consumer'[m] = RowsOf(m, state'[m])
                        /\ digests'[m] = RowsOf(m, state'[m])
      BY DEF ServedIsPublished, RowsOf
    <3>1. CASE m = l
      BY <3>1, <1>2, <2>4, <2>8, <2>9 DEF RowsOf
    <3>2. CASE m # l
      BY <3>2, <1>1, <2>7 DEF ServedIsPublished, RowsOf
    <3> QED BY <3>1, <3>2
  <2>11. SchemaAgrees'
    <3> SUFFICES ASSUME NEW m \in Lineages, state'[m] # 0
                 PROVE  SchemaOf[m][state'[m]] = catalog[m]
      BY DEF SchemaAgrees
    <3>1. CASE m = l
      BY <3>1, <1>4, <2>8
    <3>2. CASE m # l
      BY <3>2, <1>1, <2>7 DEF SchemaAgrees
    <3> QED BY <3>1, <3>2
  <2> QED BY <2>6, <2>7, <2>8, <2>10, <2>11 DEF l, r
<1> QED BY <1>1, <1>5, <1>6 DEF TransactionOf

\* Both outcomes of a commit leave the transaction, and nobody else planned from
\* the hashes it replaced.
LEMMA LeaveCommitIInv ==
    ASSUME IInv, NEW p \in Syncers, pc[p] = "commit", Durable(p), Rollback(p),
           NEW point \in {"idle", "next"}, pc' = [pc EXCEPT ![p] = point],
           NEW rest \in SUBSET todo[p], todo' = [todo EXCEPT ![p] = rest],
           NEW selection \in {snapshot[p], NoDeclaration},
           snapshot' = [snapshot EXCEPT ![p] = selection],
           rest # {} => selection = snapshot[p],
           point = "next" => rest = todo[p] \ {cur[p]} /\ selection = snapshot[p],
           UNCHANGED <<goldVars, catalog, drift, externals>>, faults' \in 0..MaxFaults
    PROVE  IInv'
<1> USE DEF goldVars, Rollback
<1>1. TypeOK /\ CommandOK /\ TransactionOK /\ LocksExclude
  BY DEF IInv
<1>2. /\ consumer' \in [Lineages -> RowMaps]
      /\ digests' \in [Lineages -> RowMaps]
      /\ state' \in [Lineages -> 0..MaxRevisions]
      /\ \A m \in Lineages \ {cur[p]} : digests'[m] = digests[m] /\ state'[m] = state[m]
      /\ state'[cur[p]] = snapshot[p][cur[p]]
      /\ ServedIsPublished'
      /\ SchemaAgrees'
  BY DurableTables
<1>0. /\ cur[p] \in Lineages /\ displaced' \in [Syncers -> SUBSET Lineages]
      /\ \A q \in Syncers : displaced[q] \subseteq displaced'[q]
      /\ \A q \in Syncers : cur[p] \in Handled(q) =>
             cur[p] \in displaced'[q] \/ state'[cur[p]] = state[cur[p]]
  <2>1. cur[p] \in Lineages
    BY <1>1, OpenTransaction DEF Locked
  <2>2. CASE nextState[p] = 0
    BY <1>1, <2>1, <2>2 DEF Durable, StateSeen, TypeOK
  <2>3. CASE nextState[p] # 0
    <3>1. displaced' = [q \in Syncers |-> IF cur[p] \in Handled(q) THEN displaced[q] \cup {cur[p]}
                                          ELSE displaced[q]]
      BY <2>3 DEF Durable, Displace
    <3> QED BY <1>1, <2>1, <3>1 DEF TypeOK
  <2> QED BY <2>2, <2>3
<1>3. TypeOK'
  BY <1>0, <1>1, <1>2 DEF TypeOK, Nothing, NoDeclaration, Locked
<1>4. CommandOK'
  BY <1>1 DEF CommandOK, Locked, NoDeclaration, TypeOK
<1>5. LocksExclude'
  BY <1>1 DEF LocksExclude, Locked, TypeOK
<1>6. TransactionOK'
  <2> SUFFICES ASSUME NEW q \in Syncers PROVE TransactionOf(q)'
    BY DEF TransactionOK
  <2>1. CASE q = p
    BY <1>1, <2>1 DEF TransactionOf, TypeOK
  <2>2. CASE q # p
    <3>1. /\ pc'[q] = pc[q] /\ cur'[q] = cur[q] /\ snapshot'[q] = snapshot[q]
          /\ wrote'[q] = wrote[q] /\ wroteDigests'[q] = wroteDigests[q]
          /\ nextState'[q] = nextState[q]
      BY <1>1, <2>2 DEF TypeOK
    <3>2. TransactionOf(q)
      BY <1>1 DEF TransactionOK
    <3>3. pc[q] \in Locked => cur[q] \in Lineages /\ cur[q] # cur[p]
      BY <1>1, <2>2, OpenTransaction DEF LocksExclude, Locked
    <3>4. pc[q] \in Locked =>
              /\ Delta(cur[q], snapshot[q][cur[q]])' = Delta(cur[q], snapshot[q][cur[q]])
              /\ state'[cur[q]] = state[cur[q]]
      BY <1>2, <3>1, <3>3 DEF Delta
    <3> QED BY <3>1, <3>2, <3>4 DEF TransactionOf, Locked
  <2> QED BY <2>1, <2>2
<1>7. HandledIsCurrent'
  <2> SUFFICES ASSUME NEW q \in Syncers, NEW l \in Lineages,
                      l \in Handled(q)', l \notin displaced'[q]
               PROVE  state'[l] = snapshot'[q][l]
    BY DEF HandledIsCurrent, Handled
  <2>1. HandledIsCurrent
    BY DEF IInv
  <2>2. CASE q # p
    <3>1. l \in Handled(q) /\ snapshot'[q] = snapshot[q]
      BY <1>1, <2>2 DEF Handled, TypeOK
    <3>2. l \notin displaced[q]
      BY <1>0
    <3>3. state[l] = snapshot[q][l]
      BY <2>1, <3>1, <3>2 DEF HandledIsCurrent
    <3>4. state'[l] = state[l]
      BY <1>0, <1>2, <3>1
    <3> QED BY <3>1, <3>3, <3>4
  <2>3. CASE q = p /\ l = cur[p]
    BY <1>1, <1>2, <2>3 DEF Handled, TypeOK
  <2>4. CASE q = p /\ l # cur[p]
    <3>1. point = "next" /\ snapshot'[p] = snapshot[p] /\ todo'[p] = todo[p] \ {cur[p]}
      BY <1>1, <2>4 DEF Handled, TypeOK
    <3>2. l \in Handled(p)
      BY <2>4, <3>1 DEF Handled
    <3>3. l \notin displaced[p]
      BY <1>0, <2>4
    <3>4. state[l] = snapshot[p][l]
      BY <2>1, <3>2, <3>3 DEF HandledIsCurrent
    <3> QED BY <1>2, <2>4, <3>1, <3>4
  <2> QED BY <2>2, <2>3, <2>4
<1> QED BY <1>2, <1>3, <1>4, <1>5, <1>6, <1>7 DEF IInv

LEMMA CommitIInv ==
    ASSUME IInv, NEW p \in Syncers, Commit(p) \/ CommitUnacknowledged(p)
    PROVE  IInv'
<1>1. TypeOK
  BY DEF IInv
<1>2. CASE Commit(p)
  <2>1. /\ todo[p] \ {cur[p]} \in SUBSET todo[p]
        /\ todo' = [todo EXCEPT ![p] = todo[p] \ {cur[p]}]
        /\ snapshot' = [snapshot EXCEPT ![p] = snapshot[p]]
        /\ faults' \in 0..MaxFaults
    BY <1>1, <1>2 DEF Commit, TypeOK
  <2> QED BY <1>2, <2>1, LeaveCommitIInv DEF Commit, Goto
<1>3. CASE CommitUnacknowledged(p)
  <2>1. {} \in SUBSET todo[p] /\ faults' \in 0..MaxFaults
    BY <1>1, <1>3 DEF CommitUnacknowledged, TypeOK
  <2> QED BY <1>3, <2>1, LeaveCommitIInv DEF CommitUnacknowledged, End
<1> QED BY <1>2, <1>3

LEMMA ExternalWriteIInv ==
    ASSUME IInv, NEW l \in Lineages, NEW k \in Keys, NEW v \in Payloads \cup {NoRow},
           ExternalWrite(l, k, v)
    PROVE  IInv'
<1> USE DEF IInv, ExternalWrite, goldVars, commandVars, txVars
<1>1. TypeOK'
  <2> DEFINE rows == [consumer[l] EXCEPT ![k] = v]
  <2>1. consumer[l] \in [Keys -> Payloads \cup {NoRow}]
    BY DEF TypeOK, RowMaps
  <2>2. rows \in RowMaps
    BY <2>1 DEF RowMaps
  <2>3. consumer' = [consumer EXCEPT ![l] = rows] /\ consumer \in [Lineages -> RowMaps]
    BY DEF TypeOK
  <2> HIDE DEF rows
  <2>4. consumer' \in [Lineages -> RowMaps]
    BY <2>2, <2>3
  <2> QED BY <2>4 DEF TypeOK
<1>2. CommandOK' /\ TransactionOK' /\ LocksExclude' /\ SchemaAgrees'
  BY DEF CommandOK, TransactionOK, TransactionOf, Delta, LocksExclude, SchemaAgrees
<1>3. ServedIsPublished'
  BY DEF ServedIsPublished, RowsOf, TypeOK
<1>4. HandledIsCurrent'
  BY DEF HandledIsCurrent, Handled
<1> QED BY <1>1, <1>2, <1>3, <1>4

LEMMA ReconstructIInv ==
    ASSUME IInv, NEW l \in Lineages, NEW schema \in Schemas, Reconstruct(l, schema)
    PROVE  IInv'
<1> USE DEF IInv, Reconstruct, goldVars, commandVars, txVars
<1>1. TypeOK'
  <2>1. NoRows \in RowMaps
    BY DEF NoRows, RowMaps
  <2>2. displaced' \in [Syncers -> SUBSET Lineages]
    BY DEF Displace, TypeOK
  <2> QED BY <2>1, <2>2 DEF TypeOK
<1>2. CommandOK' /\ LocksExclude'
  BY DEF CommandOK, LocksExclude
<1>3. TransactionOK'
  <2> SUFFICES ASSUME NEW q \in Syncers PROVE TransactionOf(q)'
    BY DEF TransactionOK
  <2>1. pc[q] \in Locked => cur[q] \in Lineages \ {l}
    BY OpenTransaction
  <2>2. pc[q] \in Locked =>
            /\ digests'[cur[q]] = digests[cur[q]]
            /\ state'[cur[q]] = state[cur[q]]
            /\ catalog'[cur[q]] = catalog[cur[q]]
    BY <2>1 DEF TypeOK
  <2>3. pc[q] \in Locked =>
            Delta(cur[q], snapshot[q][cur[q]])' = Delta(cur[q], snapshot[q][cur[q]])
    BY <2>2 DEF Delta
  <2> QED BY <2>2, <2>3 DEF TransactionOK, TransactionOf, Locked
<1>4. ServedIsPublished'
  <2>1. consumer'[l] = NoRows /\ digests'[l] = NoRows /\ state'[l] = 0
    BY DEF TypeOK
  <2>2. published[l] \in 0..MaxRevisions
    BY DEF TypeOK
  <2>3. \A m \in Lineages \ {l} :
            consumer'[m] = consumer[m] /\ digests'[m] = digests[m] /\ state'[m] = state[m]
    BY DEF TypeOK
  <2> SUFFICES ASSUME NEW m \in Lineages, m \notin drift'
               PROVE  /\ state'[m] <= published[m]
                      /\ consumer'[m] = RowsOf(m, state'[m])
                      /\ digests'[m] = RowsOf(m, state'[m])
    BY DEF ServedIsPublished, RowsOf
  <2>4. CASE m = l
    BY <2>1, <2>2, <2>4 DEF RowsOf
  <2>5. CASE m # l
    BY <2>3, <2>5 DEF ServedIsPublished, RowsOf
  <2> QED BY <2>4, <2>5
<1>5. SchemaAgrees'
  BY DEF SchemaAgrees, TypeOK
<1>6. HandledIsCurrent'
  <2> SUFFICES ASSUME NEW q \in Syncers, NEW m \in Lineages,
                      m \in Handled(q)', m \notin displaced'[q]
               PROVE  state'[m] = snapshot'[q][m]
    BY DEF HandledIsCurrent, Handled
  <2>1. m \in Handled(q) /\ snapshot' = snapshot
    BY DEF Handled
  <2>2. m # l /\ m \notin displaced[q]
    BY <2>1 DEF Displace
  <2> QED BY <2>1, <2>2 DEF HandledIsCurrent, TypeOK
<1> QED BY <1>1, <1>2, <1>3, <1>4, <1>5, <1>6

\* The commands that end without a commit: nothing left to do, or a fault.
LEMMA FinishAbortIInv ==
    ASSUME IInv, NEW p \in Syncers, Finish(p) \/ Abort(p)
    PROVE  IInv'
<1>1. faults' \in 0..MaxFaults
  BY DEF Finish, Abort, IInv, TypeOK
<1> QED BY <1>1, EndIInv DEF Finish, Abort

LEMMA NextIInv == IInv /\ [Next]_vars => IInv'
<1> SUFFICES ASSUME IInv, [Next]_vars PROVE IInv'
  OBVIOUS
<1>1. CASE Gold
  BY <1>1, GoldIInv
<1>2. CASE Operator
  BY <1>2, ExternalWriteIInv, ReconstructIInv DEF Operator
<1>3. ASSUME NEW p \in Syncers, Sync(p)
      PROVE  IInv'
  <2>1. CASE StartDeclared(p) \/ StartCurrent(p)
    BY <2>1, StartIInv
  <2>2. CASE Certify(p)
    BY <2>2, CertifyIInv
  <2>3. CASE Open(p)
    BY <2>3, OpenIInv, SMTT(30)
  <2>4. CASE Lock(p)
    BY <2>4, LockIInv
  <2>5. CASE Read(p)
    BY <2>5, ReadIInv
  <2>6. CASE ApplyRows(p)
    BY <2>6, ApplyRowsIInv
  <2>7. CASE ApplyDigests(p)
    BY <2>7, ApplyDigestsIInv
  <2>8. CASE Verify(p)
    BY <2>8, VerifyIInv
  <2>9. CASE Commit(p) \/ CommitUnacknowledged(p)
    BY <2>9, CommitIInv
  <2>10. CASE Finish(p) \/ Abort(p)
    BY <2>10, FinishAbortIInv
  <2> QED BY <1>3, <2>1, <2>2, <2>3, <2>4, <2>5, <2>6, <2>7, <2>8, <2>9, <2>10
          DEF Sync, Advance
<1>4. CASE UNCHANGED vars
  BY <1>4 DEF vars, goldVars, tableVars, commandVars, txVars, IInv, TypeOK, CommandOK,
              TransactionOK, TransactionOf, Delta, LocksExclude, HandledIsCurrent, Handled,
              ServedIsPublished, RowsOf, SchemaAgrees
<1> QED BY <1>1, <1>2, <1>3, <1>4 DEF Next

\* The inductive invariant holds of every reachable state.
LEMMA SpecIInv == Spec => []IInv
BY InitIInv, NextIInv, PTL DEF Spec

\* Every variable of the tables, the commands and the Gold build keeps its type.
THEOREM TypeCorrectness == Spec => []TypeOK
<1>1. IInv => TypeOK
  BY DEF IInv
<1> QED BY <1>1, SpecIInv, PTL

\* Whatever commands overlap, fail, crash or lose an acknowledgement, a lineage
\* nobody edited by hand shows exactly one published revision (reconcile_lineage).
THEOREM ServedRevisionsAreWhole == Spec => []ServedIsPublished
<1>1. IInv => ServedIsPublished
  BY DEF IInv
<1> QED BY <1>1, SpecIInv, PTL

\* Rows are never served under another schema than the one they were written for.
THEOREM NoSchemaMixing == Spec => []SchemaAgrees
<1>1. IInv => SchemaAgrees
  BY DEF IInv
<1> QED BY <1>1, SpecIInv, PTL

\* What a command is done with is served as it selected it, until somebody else
\* replaces it: a command that ends well has served its whole selection
\* (synchronize_gold_root, reconcile_lineage).
THEOREM HandledLineagesAreServed == Spec => []HandledIsServed
<1>1. IInv => HandledIsServed
  <2> SUFFICES ASSUME IInv, NEW p \in Syncers, NEW l \in Lineages,
                      l \in Handled(p), l \notin displaced[p]
               PROVE  /\ state[l] = snapshot[p][l]
                      /\ l \notin drift => consumer[l] = SourceRows[l][snapshot[p][l]]
    BY DEF HandledIsServed, Handled
  <2>1. state[l] = snapshot[p][l] /\ snapshot[p][l] # 0
    BY DEF IInv, HandledIsCurrent, Handled
  <2> QED BY <2>1 DEF IInv, ServedIsPublished, RowsOf
<1> QED BY <1>1, SpecIInv, PTL

-----------------------------------------------------------------------------
\* A command past reading a lineage found its two tables equal, so no transaction of
\* a step that starts in quarantine is past it either.
LEMMA SyncKeepsQuarantine ==
    ASSUME IInv, NEW l \in Lineages, Quarantined(l), NEW p \in Syncers, Sync(p)
    PROVE  Quarantined(l)'
<1>1. TypeOK /\ CommandOK
  BY DEF IInv
<1>2. l # 0 /\ (cur[p] = l => pc[p] \in {"lock", "read"})
  BY DEF Quarantined
<1> USE DEF goldVars, tableVars, txVars, commandVars
<1>3. SUFFICES /\ consumer'[l] = consumer[l] /\ digests'[l] = digests[l]
               /\ \A q \in Syncers : q # p => pc'[q] = pc[q] /\ cur'[q] = cur[q]
               /\ cur'[p] = l => pc'[p] \in {"lock", "read"}
  BY DEF Quarantined
<1>4. CASE End(p) /\ UNCHANGED tableVars
  BY <1>1, <1>2, <1>4 DEF End, Rollback, TypeOK
<1>5. CASE StartDeclared(p) \/ StartCurrent(p)
  BY <1>1, <1>2, <1>5 DEF StartDeclared, StartCurrent, Start, Goto, CommandOK, TypeOK, Locked
<1>6. CASE Certify(p)
  <2>1. cur[p] = 0
    BY <1>1, <1>6 DEF Certify, CommandOK, Locked
  <2>2. CASE ~End(p)
    BY <1>1, <1>2, <1>6, <2>1, <2>2 DEF Certify, Goto, TypeOK
  <2> QED BY <1>4, <1>6, <2>2 DEF Certify
<1>7. CASE Open(p)
  <2>1. CASE ~End(p)
    BY <1>1, <1>2, <1>7, <2>1 DEF Open, Goto, TypeOK
  <2> QED BY <1>4, <1>7, <2>1 DEF Open
<1>8. CASE Lock(p)
  BY <1>1, <1>2, <1>8 DEF Lock, Goto, TypeOK
<1>9. CASE Read(p) /\ ~End(p)
  <2>1. Integrity(consumer[cur[p]], digests[cur[p]], cur[p], state[cur[p]])
    BY <1>9 DEF Read, TargetAccepted
  <2>2. cur[p] # l
    BY <2>1 DEF Integrity, Quarantined
  <2> QED BY <1>1, <1>2, <1>9, <2>2 DEF Read, Goto, TypeOK
<1>10. CASE (ApplyRows(p) \/ ApplyDigests(p) \/ Verify(p)) /\ ~End(p)
  BY <1>1, <1>2, <1>10 DEF ApplyRows, ApplyDigests, Verify, Goto, TypeOK
<1>11. CASE Commit(p) \/ CommitUnacknowledged(p)
  BY <1>1, <1>2, <1>11
     DEF Commit, CommitUnacknowledged, Durable, End, Rollback, Goto, TypeOK
<1>12. CASE (Read(p) \/ ApplyRows(p) \/ ApplyDigests(p) \/ Verify(p)
             \/ Finish(p) \/ Abort(p)) /\ End(p)
  <2>1. UNCHANGED tableVars
    BY <1>12 DEF Read, ApplyRows, ApplyDigests, Verify, Finish, Abort
  <2> QED BY <1>4, <1>12, <2>1
<1> QED BY <1>5, <1>6, <1>7, <1>8, <1>9, <1>10, <1>11, <1>12
        DEF Sync, Advance, Finish, Abort

\* Only operators end the quarantine of a lineage whose tables disagree: no command
\* overwrites or adopts its rows (_verify_integrity).
THEOREM DriftIsNeverAdopted == Spec => OnlyOperatorsLiftQuarantine
<1>1. IInv /\ [Next]_vars =>
          [\A l \in Lineages :
              Quarantined(l) => Quarantined(l)' \/ externals' # externals]_vars
  <2> SUFFICES ASSUME IInv, Next, NEW l \in Lineages, Quarantined(l), externals' = externals
               PROVE  Quarantined(l)'
    OBVIOUS
  <2>1. CASE Gold
    BY <2>1 DEF Gold, GoldBegin, GoldPublish, GoldReuse, GoldEnd, tableVars, commandVars,
                txVars, Quarantined
  <2>2. CASE Operator
    <3>1. externals \in Nat
      BY DEF IInv, TypeOK
    <3>2. externals' = externals + 1
      BY <2>2 DEF Operator, ExternalWrite, Reconstruct
    <3> QED BY <3>1, <3>2
  <2>3. CASE \E p \in Syncers : Sync(p)
    BY <2>3, SyncKeepsQuarantine
  <2> QED BY <2>1, <2>2, <2>3 DEF Next
<1> QED BY <1>1, SpecIInv, PTL DEF Spec, OnlyOperatorsLiftQuarantine

-----------------------------------------------------------------------------
\* What a reader is promised of a lineage depends on the lineage's own tables only.
LEMMA SameView ==
    ASSUME UNCHANGED <<consumer, state, drift>>
    PROVE  UNCHANGED PromisedView
BY DEF PromisedView, RowsOf

\* A commit is one atomic replacement of a lineage by a published revision, or
\* changes nothing a reader is promised.
LEMMA CommitServes ==
    ASSUME IInv, NEW p \in Syncers, pc[p] = "commit", Durable(p),
           UNCHANGED <<published, catalog, drift>>
    PROVE  \/ Serving!Serve(cur[p], snapshot[p][cur[p]])
           \/ UNCHANGED <<published, PromisedView, state>>
<1> DEFINE l == cur[p]
           r == snapshot[p][l]
<1>1. /\ TypeOK /\ TransactionOf(p)
      /\ consumer \in [Lineages -> RowMaps] /\ state \in [Lineages -> 0..MaxRevisions]
  BY DEF IInv, TransactionOK, TypeOK
<1>2. l \in Lineages /\ r \in Revisions /\ r <= published[l]
  BY OpenTransaction DEF IInv, Locked
<1>3. /\ consumer' = [consumer EXCEPT ![l] = Over(wrote[p], consumer[l])]
      /\ state' = [state EXCEPT ![l] = IF nextState[p] = 0 THEN state[l] ELSE nextState[p]]
  BY DEF Durable, RowsSeen, StateSeen
<1>4. CASE wrote[p] = Nothing /\ nextState[p] = 0
  <2>1. consumer[l] \in RowMaps
    BY <1>1, <1>2
  <2>2. consumer' = consumer /\ state' = state
    BY <1>1, <1>2, <1>3, <1>4, <2>1, NothingOverRows
  <2> QED BY <2>2, SameView
<1>5. CASE nextState[p] = r
  <2>1. r # 0 /\ r \in 1..published[l]
    BY <1>1, <1>2 DEF Revisions, TypeOK
  <2>2. state' = [state EXCEPT ![l] = r] /\ state'[l] = r
    BY <1>1, <1>2, <1>3, <1>5, <2>1
  <2>3. \A m \in Lineages \ {l} : consumer'[m] = consumer[m] /\ state'[m] = state[m]
    BY <1>1, <1>3
  <2>4. PromisedView'[l] = SourceRows[l][r]
    <3>1. l \notin drift => consumer'[l] = RowsOf(l, r)
      BY <1>2, <2>2, DurableTables DEF ServedIsPublished, RowsOf
    <3> QED BY <1>2, <2>1, <2>2, <3>1 DEF PromisedView, RowsOf
  <2>5. \A m \in Lineages \ {l} : PromisedView'[m] = PromisedView[m]
    BY <2>3 DEF PromisedView, RowsOf
  <2>6. PromisedView' = [PromisedView EXCEPT ![l] = SourceRows[l][r]]
    <3>1. PromisedView = [m \in Lineages |-> PromisedView[m]]
          /\ PromisedView' = [m \in Lineages |-> PromisedView'[m]]
      BY DEF PromisedView
    <3> QED BY <2>4, <2>5, <3>1
  <2> QED BY <2>1, <2>2, <2>6 DEF Serving!Serve
<1> QED BY <1>1, <1>4, <1>5 DEF TransactionOf

\* Only commits and operators touch the tables a sync command works on.
LEMMA StepServes ==
    ASSUME IInv, Next
    PROVE  Serving!Next \/ UNCHANGED <<published, PromisedView, state>>
<1> USE DEF goldVars, tableVars
<1>1. TypeOK
  BY DEF IInv
<1>2. CASE Gold
  <2>1. UNCHANGED PromisedView /\ UNCHANGED state
    BY <1>2, SameView DEF Gold, GoldBegin, GoldPublish, GoldReuse, GoldEnd
  <2>2. ASSUME NEW l \in Lineages, GoldPublish(l)
        PROVE  Serving!Next
    BY <2>1, <2>2 DEF GoldPublish, Serving!Publish, Serving!Next
  <2>3. CASE ~\E l \in Lineages : GoldPublish(l)
    BY <1>2, <2>1, <2>3 DEF Gold, GoldBegin, GoldReuse, GoldEnd
  <2> QED BY <2>2, <2>3
<1>3. ASSUME NEW l \in Lineages, NEW k \in Keys, NEW v \in Payloads \cup {NoRow},
             ExternalWrite(l, k, v)
      PROVE  UNCHANGED <<published, PromisedView, state>>
  <2>1. UNCHANGED <<published, state>> /\ drift' = drift \cup {l}
    BY <1>3 DEF ExternalWrite
  <2>2. \A m \in Lineages \ {l} : consumer'[m] = consumer[m]
    BY <1>1, <1>3 DEF ExternalWrite, TypeOK
  <2>3. l \notin drift => consumer[l] = RowsOf(l, state[l])
    BY DEF IInv, ServedIsPublished
  <2>4. \A m \in Lineages : (IF m \in drift' THEN RowsOf(m, state[m]) ELSE consumer'[m])
                           = (IF m \in drift THEN RowsOf(m, state[m]) ELSE consumer[m])
    BY <2>1, <2>2, <2>3
  <2>5. PromisedView' = PromisedView
    BY <2>1, <2>4 DEF PromisedView, RowsOf
  <2> QED BY <2>1, <2>5
<1>4. ASSUME NEW l \in Lineages, NEW schema \in Schemas, Reconstruct(l, schema)
      PROVE  Serving!Reset(l)
  <2>1. /\ UNCHANGED published /\ drift' = drift \ {l}
        /\ state' = [state EXCEPT ![l] = 0]
        /\ consumer' = [consumer EXCEPT ![l] = NoRows]
    BY <1>4 DEF Reconstruct
  <2>2. PromisedView' = [PromisedView EXCEPT ![l] = NoRows]
    BY <1>1, <2>1 DEF PromisedView, RowsOf, TypeOK
  <2> QED BY <2>1, <2>2 DEF Serving!Reset
<1>5. ASSUME NEW p \in Syncers, Commit(p) \/ CommitUnacknowledged(p)
      PROVE  Serving!Next \/ UNCHANGED <<published, PromisedView, state>>
  <2>1. pc[p] = "commit" /\ Durable(p) /\ UNCHANGED <<published, catalog, drift>>
    BY <1>5 DEF Commit, CommitUnacknowledged
  <2>2. cur[p] \in Lineages /\ snapshot[p][cur[p]] \in 1..MaxRevisions
    BY <2>1, OpenTransaction DEF IInv, Locked, Revisions
  <2> QED BY <2>1, <2>2, CommitServes DEF Serving!Next
<1>6. ASSUME NEW p \in Syncers, Sync(p), ~Commit(p), ~CommitUnacknowledged(p)
      PROVE  UNCHANGED <<published, PromisedView, state>>
  <2>1. UNCHANGED <<published, consumer, state, drift>>
    BY <1>6 DEF Sync, Advance, StartDeclared, StartCurrent, Start, Certify, Open, Finish,
                Lock, Read, ApplyRows, ApplyDigests, Verify, Abort
  <2> QED BY <2>1, SameView
<1> QED BY <1>2, <1>3, <1>4, <1>5, <1>6 DEF Next, Operator, Serving!Next

\* Whatever commands, Gold builds and operators do, readers of what nobody edited by
\* hand see one atomic step of GoldServing at a time (reconcile_lineage).
THEOREM SyncServes == Spec => ImplementsServing
<1>1. Init => Serving!Init
  BY DEF Init, Serving!Init, PromisedView, NoDeclaration, RowsOf
<1>2. IInv /\ [Next]_vars => [Serving!Next]_(Serving!servingVars)
  <2> SUFFICES ASSUME IInv, [Next]_vars
               PROVE  Serving!Next \/ UNCHANGED <<published, PromisedView, state>>
    BY DEF Serving!servingVars
  <2>1. CASE UNCHANGED vars
    BY <2>1, SameView DEF vars, goldVars, tableVars
  <2> QED BY <2>1, StepServes
<1> QED BY <1>1, <1>2, SpecIInv, PTL DEF Spec, ImplementsServing, Serving!Spec
=============================================================================
