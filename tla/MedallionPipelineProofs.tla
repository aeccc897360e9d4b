---------------------- MODULE MedallionPipelineProofs ----------------------
(***************************************************************************)
(* Proofs about MedallionPipeline, for any pipelines, commands by hand,    *)
(* datasets and rows.                                                      *)
(***************************************************************************)
EXTENDS MedallionPipeline, NumberLemmas

USE PipelineAssumption, FramesAssumption

Selecting == {"gold_publish", "gold_fan_out", "sync"}

\* Functions keep their domains, the layers their form.
Formed ==
    /\ DOMAIN pc = Processes /\ DOMAIN seen = Processes
    /\ DOMAIN owed = Pipelines /\ DOMAIN disturbed = Pipelines
    /\ silver = Content(silver.rows, silver.frame)

\* A pipeline at work holds the lock, which is free otherwise.
LockHeld == \A p \in Pipelines : pc[p] \in Idle \/ lock = p

\* The Bronze lake only grows, so whatever was read from it is still there.
ReadsStand ==
    /\ \A p \in Pipelines : owed[p] \subseteq bronze
    /\ \A p \in Processes :
        /\ pc[p] \in SilverSteps => seen[p].rows \subseteq bronze
        /\ pc[p] \in Selecting => \A id \in DOMAIN seen[p] : seen[p][id].rows \subseteq bronze

\* What a command builds are minute datasets it knows, in Gold as soon as it has published,
\* all of them from one reading of Silver.
Selected ==
    \A p \in Processes : pc[p] \in Selecting =>
        /\ DOMAIN seen[p] \subseteq (Ids \cup IF p \in ByHand THEN LibraryIds ELSE {}) \ DOMAIN M1Of
        /\ pc[p] # "gold_publish" => DOMAIN seen[p] \subseteq DOMAIN gold
        /\ \A i, j \in DOMAIN seen[p] : seen[p][i].rows = seen[p][j].rows

\* The rows a pipeline owes are in what it has read, and in the layer it goes on from,
\* unless another command has replaced that layer.
CarriesOwed ==
    \A p \in Pipelines :
        /\ pc[p] \in SilverSteps => owed[p] \subseteq seen[p].rows
        /\ "silver" \notin disturbed[p] =>
            /\ pc[p] \in {"silver_derive", "gold"} => owed[p] \subseteq silver.rows
            /\ pc[p] \in Selecting => \A id \in DOMAIN seen[p] : owed[p] \subseteq seen[p][id].rows
            /\ "gold" \notin disturbed[p] /\ pc[p] = "gold_fan_out" =>
                \A id \in DOMAIN seen[p] : owed[p] \subseteq gold[id].rows

\* The publication result a pipeline is about to serve declares what it built, and the
\* coarser timeframes of that.
Coarse(p) == {i \in Ids \cap DOMAIN M1Of : M1Of[i] \in DOMAIN seen[p]}
ResultDeclares ==
    \A p \in Pipelines : pc[p] = "sync" =>
        /\ DOMAIN seen[p] \cup Coarse(p) \subseteq DOMAIN result
        /\ "silver" \notin disturbed[p] =>
            /\ \A id \in DOMAIN seen[p] : owed[p] \subseteq result[id].rows
            /\ "gold" \notin disturbed[p] => \A id \in Coarse(p) : owed[p] \subseteq result[id].rows

IInv ==
    /\ TypeOK /\ Formed /\ LockHeld /\ ReadsStand
    /\ Selected /\ CarriesOwed /\ ResultDeclares

-----------------------------------------------------------------------------
(* Who is where.                                                           *)

Moves(p, step) ==
    DOMAIN pc' = Processes /\ pc'[p] = step /\ \A q \in Processes : q # p => pc'[q] = pc[q]

\* A step moves one process.
LEMMA OneMoves ==
    ASSUME Formed, NEW p \in Processes, NEW step, Go(p, step)
    PROVE  Moves(p, step)
BY DEF Formed, Go, Moves

\* While a pipeline is at work the others are not.
LEMMA OnlyOne ==
    ASSUME LockHeld, NEW p \in Pipelines, pc[p] \notin Idle
    PROVE  lock = p /\ \A q \in Pipelines : q # p => pc[q] \in Idle
BY DEF LockHeld

\* Which processes take a step, and that by then they are not idle.
LEMMA WhoIsAt ==
    ASSUME Positions, NEW p \in Processes
    PROVE  /\ pc[p] \in {"bronze", "sync"} => p \in Pipelines
           /\ pc[p] \in {"silver", "silver_publish", "silver_derive"} => p \in Pipelines \/ p = "silver"
           /\ pc[p] \in {"gold", "gold_publish", "gold_fan_out"} => p \in Pipelines \/ p = "gold"
           /\ p \in ByHand => p \notin Pipelines
BY DEF Positions, StepsOf, SilverSteps, GoldSteps, Processes, Idle

\* A process that ends forgets what it has read.
LEMMA EndsCleanly ==
    ASSUME Formed, NEW p \in Processes, NEW how \in Idle, Ends(p, how)
    PROVE  /\ Moves(p, how)
           /\ DOMAIN seen' = Processes /\ \A q \in Processes : q # p => seen'[q] = seen[q]
           /\ DOMAIN owed' = Pipelines /\ DOMAIN disturbed' = Pipelines
           /\ \A q \in Pipelines : /\ q # p => owed'[q] = owed[q] /\ disturbed'[q] = disturbed[q]
                                   /\ owed'[q] \subseteq owed[q]
<1>1. Moves(p, how)
  BY OneMoves DEF Ends
<1> QED BY <1>1 DEF Ends, Formed

LEMMA PositionsStay ==
    ASSUME Positions, NEW p \in Processes, NEW step \in StepsOf(p), Moves(p, step),
           lock' \in Pipelines \cup {Free}
    PROVE  Positions'
BY DEF Positions, Moves, StepsOf, Idle, SilverSteps, GoldSteps

-----------------------------------------------------------------------------
(* The invariant is inductive: one lemma for each action.                  *)

\* Rows arrive: the Bronze lake grows or stays.
LEMMA ArriveIInv == ASSUME IInv, NEW r \in scenario.later, Arrive(r) PROVE IInv'
<1> USE DEF Arrive, layers, processes, history
<1>1. bronze \subseteq bronze' /\ bronze' \subseteq market' /\ market \subseteq market'
  BY DEF IInv, TypeOK, LayersHoldRows, Live
<1>2. TypeOK'
  BY <1>1 DEF IInv, TypeOK, Positions, LayersHoldRows
<1>3. Formed' /\ LockHeld'
  BY DEF IInv, Formed, LockHeld
<1>4. ReadsStand'
  BY <1>1 DEF IInv, ReadsStand
<1>5. Selected' /\ CarriesOwed' /\ ResultDeclares'
  BY DEF IInv, Selected, CarriesOwed, ResultDeclares, Coarse
<1> QED BY <1>2, <1>3, <1>4, <1>5 DEF IInv

\* A pipeline starts and takes the lock.
LEMMA StartPipelineIInv == ASSUME IInv, NEW p \in Pipelines, StartPipeline(p) PROVE IInv'
<1> USE DEF StartPipeline, layers, history
<1>1. Moves(p, "bronze") /\ p \in Processes
  BY OneMoves DEF IInv, Processes
<1>2. TypeOK'
  <2>1. Positions'
    BY <1>1, PositionsStay DEF IInv, TypeOK, StepsOf, SilverSteps, GoldSteps
  <2> QED BY <2>1 DEF IInv, TypeOK, LayersHoldRows
<1>3. Formed'
  BY <1>1 DEF IInv, Formed, Moves
<1>4. LockHeld'
  BY <1>1 DEF IInv, LockHeld, Moves, Processes
<1>5. ReadsStand' /\ Selected'
  BY <1>1 DEF IInv, ReadsStand, Selected, Moves, SilverSteps, Selecting
<1>6. CarriesOwed' /\ ResultDeclares'
  BY <1>1 DEF IInv, CarriesOwed, ResultDeclares, Coarse, Moves, SilverSteps, Selecting, Processes
<1> QED BY <1>2, <1>3, <1>4, <1>5, <1>6 DEF IInv

\* A command is started by hand.
LEMMA StartByHandIInv == ASSUME IInv, NEW h \in ByHand, StartByHand(h) PROVE IInv'
<1> USE DEF StartByHand, layers, history
<1>1. Moves(h, h) /\ h \in Processes /\ h \notin Pipelines
  BY OneMoves DEF IInv, Processes
<1>2. TypeOK'
  <2>1. Positions'
    BY <1>1, PositionsStay DEF IInv, TypeOK, Positions, StepsOf, SilverSteps, GoldSteps
  <2> QED BY <2>1 DEF IInv, TypeOK, LayersHoldRows
<1>3. Formed' /\ LockHeld'
  BY <1>1 DEF IInv, Formed, LockHeld, Moves, Processes
<1>4. h \notin SilverSteps \cup Selecting
  BY DEF SilverSteps, Selecting
<1>5. ReadsStand' /\ Selected'
  <2>1. ReadsStand'
    BY <1>1, <1>4 DEF IInv, ReadsStand, Moves
  <2>2. Selected'
    BY <1>1, <1>4 DEF IInv, Selected, Moves
  <2> QED BY <2>1, <2>2
<1>6. CarriesOwed' /\ ResultDeclares'
  BY <1>1 DEF IInv, CarriesOwed, ResultDeclares, Coarse, Moves, Processes
<1> QED BY <1>2, <1>3, <1>5, <1>6 DEF IInv

\* A pipeline that fails gives back the lock and forgets what it has read.
LEMMA FailIInv == ASSUME IInv, NEW p \in Pipelines, Fail(p) PROVE IInv'
<1> USE DEF Fail, layers
<1>1. Ends(p, "idle") /\ "idle" \in Idle /\ p \in Processes
  BY DEF Idle, Processes
<1>2. /\ Moves(p, "idle") /\ DOMAIN seen' = Processes
      /\ \A q \in Processes : q # p => seen'[q] = seen[q]
      /\ DOMAIN owed' = Pipelines /\ DOMAIN disturbed' = Pipelines
      /\ \A q \in Pipelines : /\ q # p => owed'[q] = owed[q] /\ disturbed'[q] = disturbed[q]
                              /\ owed'[q] \subseteq owed[q]
  BY <1>1, EndsCleanly DEF IInv
<1>3. TypeOK'
  <2>1. Positions'
    BY <1>1, <1>2, PositionsStay DEF IInv, TypeOK, StepsOf, SilverSteps, GoldSteps
  <2> QED BY <2>1 DEF IInv, TypeOK, LayersHoldRows
<1>4. Formed'
  BY <1>2 DEF IInv, Formed, Moves
<1>5. LockHeld'
  <2>1. \A q \in Pipelines : q # p => pc[q] \in Idle
    BY OnlyOne DEF IInv
  <2> QED BY <1>1, <1>2, <2>1 DEF LockHeld, Moves, Processes
<1>6. ReadsStand' /\ Selected'
  BY <1>2 DEF IInv, ReadsStand, Selected, Moves, SilverSteps, Selecting
<1>7. CarriesOwed' /\ ResultDeclares'
  BY <1>2 DEF IInv, CarriesOwed, ResultDeclares, Coarse, Moves, SilverSteps, Selecting, Processes
<1> QED BY <1>3, <1>4, <1>5, <1>6, <1>7 DEF IInv

\* The Bronze step owes what is in the lake then.
LEMMA BronzeIInv == ASSUME IInv, NEW p \in Processes, Bronze(p) PROVE IInv'
<1> USE DEF Bronze
<1>1. Moves(p, "silver") /\ p \in Pipelines
  BY OneMoves, WhoIsAt DEF IInv, TypeOK
<1>2. bronze \subseteq bronze' /\ bronze' = market'
  BY DEF IInv, TypeOK, LayersHoldRows
<1>3. /\ DOMAIN owed' = Pipelines /\ owed'[p] = bronze'
      /\ \A q \in Pipelines : q # p => owed'[q] = owed[q]
  BY <1>1 DEF IInv, Formed
<1>4. TypeOK'
  <2>1. Positions'
    BY <1>1, PositionsStay DEF IInv, TypeOK, Positions, StepsOf, SilverSteps, GoldSteps
  <2> QED BY <2>1, <1>2 DEF IInv, TypeOK, LayersHoldRows
<1>5. Formed'
  BY <1>1, <1>3 DEF IInv, Formed, Moves
<1>6. LockHeld'
  BY <1>1 DEF IInv, LockHeld, Moves, Processes, Idle
<1>7. ReadsStand' /\ Selected'
  BY <1>1, <1>2, <1>3 DEF IInv, ReadsStand, Selected, Moves, SilverSteps, Selecting
<1>8. CarriesOwed' /\ ResultDeclares'
  BY <1>1, <1>3 DEF IInv, CarriesOwed, ResultDeclares, Coarse, Moves, SilverSteps, Selecting, Processes
<1> QED BY <1>4, <1>5, <1>6, <1>7, <1>8 DEF IInv

\* What a Silver build reads is in the lake, and includes what a pipeline owes.
LEMMA SilverReadIInv == ASSUME IInv, NEW p \in Processes, SilverRead(p) PROVE IInv'
<1> USE DEF SilverRead, layers, history
<1>1. Moves(p, "silver_publish")
  BY OneMoves DEF IInv
<1>2. /\ DOMAIN seen' = Processes /\ seen'[p].rows = bronze
      /\ \A q \in Processes : q # p => seen'[q] = seen[q]
  BY DEF IInv, Formed, Content
<1>3. TypeOK'
  <2>1. "silver_publish" \in StepsOf(p) /\ lock' \in Pipelines \cup {Free}
    BY WhoIsAt DEF IInv, TypeOK, Positions, StepsOf, SilverSteps, GoldSteps
  <2>2. Positions'
    BY <1>1, <2>1, PositionsStay DEF IInv, TypeOK
  <2> QED BY <2>2 DEF IInv, TypeOK, LayersHoldRows
<1>4. Formed' /\ LockHeld'
  BY <1>1, <1>2 DEF IInv, Formed, LockHeld, Moves, Processes, Idle
<1>5. ReadsStand' /\ Selected'
  BY <1>1, <1>2 DEF IInv, ReadsStand, Selected, Moves, SilverSteps, Selecting
<1>6. CarriesOwed' /\ ResultDeclares'
  BY <1>1, <1>2 DEF IInv, ReadsStand, CarriesOwed, ResultDeclares, Coarse, Moves, SilverSteps, Selecting, Processes
<1> QED BY <1>3, <1>4, <1>5, <1>6 DEF IInv

\* The history of a disturbance: of p itself nothing is recorded, and of another pipeline
\* at work that the layer now lacks rows it owes.
LEMMA Disturbed ==
    ASSUME Formed, NEW p \in Processes, NEW layer, NEW rows, Disturbs(p, layer, rows)
    PROVE  /\ DOMAIN disturbed' = Pipelines
           /\ \A q \in Pipelines : /\ disturbed[q] \subseteq disturbed'[q]
                                   /\ disturbed'[q] \subseteq disturbed[q] \cup {layer}
                                   /\ q # p /\ pc[q] \notin Idle /\ layer \notin disturbed'[q] => owed[q] \subseteq rows
BY DEF Disturbs

\* A Silver build publishes what it had read: for its pipeline all it owes, for the others
\* fewer rows perhaps, which is a disturbance.
LEMMA SilverPublishIInv == ASSUME IInv, NEW p \in Processes, SilverPublish(p) PROVE IInv'
<1> USE DEF SilverPublish
<1>1. Moves(p, "silver_derive") /\ pc[p] \in SilverSteps
  BY OneMoves DEF IInv, SilverSteps
<1>2. /\ silver'.rows = seen[p].rows /\ DOMAIN silver'.frame = SilverIds
      /\ silver' = Content(silver'.rows, silver'.frame)
  BY DEF Content
<1>3. Disturbs(p, "silver", seen[p].rows)
  OBVIOUS
<1>4. /\ DOMAIN disturbed' = Pipelines
      /\ \A q \in Pipelines :
            /\ disturbed[q] \subseteq disturbed'[q]
            /\ disturbed'[q] \subseteq disturbed[q] \cup {"silver"}
            /\ q # p /\ pc[q] \notin Idle /\ "silver" \notin disturbed'[q] => owed[q] \subseteq seen[p].rows
  BY <1>3, Disturbed DEF IInv
<1>5. TypeOK'
  <2>1. "silver_derive" \in StepsOf(p) /\ lock' \in Pipelines \cup {Free}
    BY WhoIsAt DEF IInv, TypeOK, Positions, StepsOf, SilverSteps, GoldSteps
  <2>2. Positions'
    BY <1>1, <2>1, PositionsStay DEF IInv, TypeOK
  <2>3. seen[p].rows \subseteq bronze
    BY <1>1 DEF IInv, ReadsStand
  <2> QED BY <1>2, <2>2, <2>3 DEF IInv, TypeOK, LayersHoldRows
<1>6. Formed' /\ LockHeld'
  BY <1>1, <1>2, <1>4 DEF IInv, Formed, LockHeld, Moves, Processes, Idle
<1>7. ReadsStand' /\ Selected'
  BY <1>1 DEF IInv, ReadsStand, Selected, Moves, SilverSteps, Selecting
<1>8. CarriesOwed'
  <2> SUFFICES ASSUME NEW q \in Pipelines PROVE
          /\ pc'[q] \in SilverSteps => owed'[q] \subseteq seen'[q].rows
          /\ "silver" \notin disturbed'[q] =>
                /\ pc'[q] \in {"silver_derive", "gold"} => owed'[q] \subseteq silver'.rows
                /\ pc'[q] \in Selecting => \A id \in DOMAIN seen'[q] : owed'[q] \subseteq seen'[q][id].rows
                /\ "gold" \notin disturbed'[q] /\ pc'[q] = "gold_fan_out" =>
                    \A id \in DOMAIN seen'[q] : owed'[q] \subseteq gold'[id].rows
    BY DEF CarriesOwed
  <2>1. q \in Processes /\ owed'[q] = owed[q] /\ seen' = seen /\ gold' = gold /\ disturbed[q] \subseteq disturbed'[q]
    BY <1>4 DEF Processes
  <2>2. CASE q = p
    <3>1. pc'[q] = "silver_derive" /\ owed[q] \subseteq seen[q].rows
      BY <1>1, <2>2 DEF IInv, CarriesOwed, Moves
    <3> QED BY <1>2, <2>1, <2>2, <3>1 DEF Selecting
  <2>3. CASE q # p
    <3>1. pc'[q] = pc[q]
      BY <1>1, <2>1, <2>3 DEF Moves
    <3>2. pc[q] \in {"silver_derive", "gold"} /\ "silver" \notin disturbed'[q] => owed[q] \subseteq silver'.rows
      BY <1>2, <1>4, <2>3 DEF Idle
    <3> QED BY <2>1, <3>1, <3>2 DEF IInv, CarriesOwed
  <2> QED BY <2>2, <2>3
<1>9. ResultDeclares'
  BY <1>1, <1>4 DEF IInv, ResultDeclares, Coarse, Moves, Processes
<1> QED BY <1>5, <1>6, <1>7, <1>8, <1>9 DEF IInv

\* The derived datasets add no rows to Silver.
LEMMA SilverDeriveIInv == ASSUME IInv, NEW p \in Processes, SilverDerive(p) PROVE IInv'
<1> USE DEF SilverDerive
<1>1. /\ silver'.rows = silver.rows /\ DOMAIN silver'.frame = SilverIds
      /\ silver' = Content(silver'.rows, silver'.frame)
  BY DEF IInv, Formed, Content
<1>2. CASE p \in Pipelines
  <2>1. Moves(p, "gold") /\ UNCHANGED <<seen, owed, disturbed>>
    BY <1>2, OneMoves DEF IInv, history
  <2>2. TypeOK'
    <3>1. Positions'
      BY <1>2, <2>1, PositionsStay DEF IInv, TypeOK, Positions, StepsOf, SilverSteps, GoldSteps
    <3> QED BY <1>1, <3>1 DEF IInv, TypeOK, LayersHoldRows
  <2>3. Formed' /\ LockHeld'
    BY <1>1, <2>1 DEF IInv, Formed, LockHeld, Moves, Processes, Idle
  <2>4. ReadsStand' /\ Selected'
    BY <2>1 DEF IInv, ReadsStand, Selected, Moves, SilverSteps, Selecting
  <2>5. CarriesOwed' /\ ResultDeclares'
    BY <1>1, <2>1 DEF IInv, CarriesOwed, ResultDeclares, Coarse, Moves, SilverSteps, Selecting, Processes
  <2> QED BY <2>2, <2>3, <2>4, <2>5 DEF IInv
<1>3. CASE p \notin Pipelines
  <2>0. Ends(p, "idle") /\ "idle" \in Idle
    BY <1>3 DEF Idle
  <2>1. /\ Moves(p, "idle") /\ DOMAIN seen' = Processes
        /\ \A q \in Processes : q # p => seen'[q] = seen[q]
        /\ DOMAIN owed' = Pipelines /\ DOMAIN disturbed' = Pipelines
        /\ \A q \in Pipelines : q # p /\ owed'[q] = owed[q] /\ disturbed'[q] = disturbed[q]
    BY <1>3, <2>0, EndsCleanly DEF IInv
  <2>2. TypeOK'
    <3>1. Positions'
      BY <1>3, <2>1, PositionsStay DEF IInv, TypeOK, Positions, StepsOf, SilverSteps, GoldSteps
    <3> QED BY <1>1, <3>1 DEF IInv, TypeOK, LayersHoldRows
  <2>3. Formed' /\ LockHeld'
    BY <1>1, <2>1 DEF IInv, Formed, LockHeld, Moves, Processes
  <2>4. ReadsStand' /\ Selected'
    BY <2>1 DEF IInv, ReadsStand, Selected, Moves, SilverSteps, Selecting
  <2>5. CarriesOwed' /\ ResultDeclares'
    BY <1>1, <2>1 DEF IInv, CarriesOwed, ResultDeclares, Coarse, Moves, Processes
  <2> QED BY <2>2, <2>3, <2>4, <2>5 DEF IInv
<1> QED BY <1>2, <1>3

\* What a Gold build selects comes from one reading of Silver.
LEMMA GoldReadIInv == ASSUME IInv, NEW p \in Processes, GoldRead(p) PROVE IInv'
<1> USE DEF GoldRead, history
<1>1. Moves(p, "gold_publish") /\ pc[p] = "gold"
  BY OneMoves DEF IInv
<1>2. /\ DOMAIN seen' = Processes
      /\ \A q \in Processes : q # p => seen'[q] = seen[q]
      /\ DOMAIN seen'[p] \subseteq (Ids \cup IF p \in ByHand THEN LibraryIds ELSE {}) \ DOMAIN M1Of
      /\ \A id \in DOMAIN seen'[p] : seen'[p][id].rows = silver.rows
  BY DEF IInv, Formed, Content
<1>3. result' = result \/ (p \in Pipelines /\ result' = Nothing)
  <2>1. result' = IF p \in Pipelines THEN Nothing ELSE result
    OBVIOUS
  <2> HIDE DEF GoldRead
  <2> QED BY <2>1
<1>4. TypeOK'
  <2>1. "gold_publish" \in StepsOf(p) /\ lock' \in Pipelines \cup {Free}
    BY WhoIsAt DEF IInv, TypeOK, Positions, StepsOf, SilverSteps, GoldSteps
  <2>2. Positions'
    BY <1>1, <2>1, PositionsStay DEF IInv, TypeOK
  <2>3. DOMAIN result' \subseteq DOMAIN result
    BY <1>3 DEF Nothing
  <2> QED BY <2>2, <2>3 DEF IInv, TypeOK, LayersHoldRows
<1>5. Formed' /\ LockHeld'
  BY <1>1, <1>2 DEF IInv, Formed, LockHeld, Moves, Processes, Idle
<1>6. ReadsStand'
  BY <1>1, <1>2 DEF IInv, TypeOK, LayersHoldRows, ReadsStand, Moves, SilverSteps, Selecting
<1>7. Selected'
  BY <1>1, <1>2 DEF IInv, Selected, Moves, Selecting
<1>8. CarriesOwed'
  BY <1>1, <1>2 DEF IInv, CarriesOwed, Moves, SilverSteps, Selecting, Processes
<1>9. ResultDeclares'
  <2>1. \A q \in Pipelines : pc'[q] = "sync" => pc[q] = "sync" /\ q # p /\ p \notin Pipelines
    BY <1>1, OnlyOne DEF IInv, Moves, Processes, Idle
  <2> QED BY <1>2, <1>3, <2>1 DEF IInv, ResultDeclares, Coarse, Processes
<1> QED BY <1>4, <1>5, <1>6, <1>7, <1>8, <1>9 DEF IInv

\* What a Gold build publishes comes with the rows it had read; to the other commands at
\* work it may be a disturbance.
LEMMA GoldPublishIInv == ASSUME IInv, NEW p \in Processes, GoldPublish(p) PROVE IInv'
<1> DEFINE rows == UNION {seen[p][id].rows : id \in DOMAIN seen[p]}
<1>1. Moves(p, "gold_fan_out") /\ pc[p] = "gold_publish" /\ pc[p] \in Selecting
  BY OneMoves DEF IInv, GoldPublish, Selecting
<1>2. /\ DOMAIN seen' = Processes
      /\ \A q \in Processes : q # p => seen'[q] = seen[q]
      /\ DOMAIN seen'[p] = DOMAIN seen[p]
      /\ \A id \in DOMAIN seen[p] : seen'[p][id].rows = seen[p][id].rows
  BY DEF IInv, Formed, GoldPublish, Content
<1>3. /\ DOMAIN gold' = DOMAIN gold \cup DOMAIN seen[p]
      /\ \A id \in DOMAIN seen[p] : gold'[id].rows = seen[p][id].rows
      /\ \A id \in DOMAIN gold \ DOMAIN seen[p] : gold'[id] = gold[id]
  BY <1>2 DEF GoldPublish, Replace
<1>4. UNCHANGED <<market, bronze, silver, result, table, lock, owed>> /\ Disturbs(p, "gold", rows)
  BY DEF GoldPublish
<1> HIDE DEF rows
<1>5. /\ DOMAIN disturbed' = Pipelines
      /\ \A q \in Pipelines :
            /\ disturbed[q] \subseteq disturbed'[q]
            /\ disturbed'[q] \subseteq disturbed[q] \cup {"gold"}
            /\ q # p /\ pc[q] \notin Idle /\ "gold" \notin disturbed'[q] => owed[q] \subseteq rows
  BY <1>4, Disturbed DEF IInv
<1>6. \A id \in DOMAIN seen[p] : rows = seen[p][id].rows
  BY <1>1 DEF IInv, Selected, rows
<1>7. TypeOK'
  <2>1. "gold_fan_out" \in StepsOf(p) /\ lock' \in Pipelines \cup {Free}
    BY <1>1, <1>4, WhoIsAt DEF IInv, TypeOK, Positions, StepsOf, SilverSteps, GoldSteps
  <2>2. Positions'
    BY <1>1, <2>1, PositionsStay DEF IInv, TypeOK
  <2>3. DOMAIN seen[p] \subseteq Ids \cup LibraryIds
    BY <1>1 DEF IInv, Selected
  <2>4. \A id \in DOMAIN seen[p] : seen[p][id].rows \subseteq bronze
    BY <1>1 DEF IInv, ReadsStand
  <2> QED BY <1>3, <1>4, <2>2, <2>3, <2>4 DEF IInv, TypeOK, LayersHoldRows
<1>8. Formed' /\ LockHeld'
  BY <1>1, <1>2, <1>4, <1>5 DEF IInv, Formed, LockHeld, Moves, Processes, Idle
<1>9. ReadsStand'
  BY <1>1, <1>2, <1>4 DEF IInv, ReadsStand, Moves, SilverSteps, Selecting
<1>10. Selected'
  BY <1>1, <1>2, <1>3 DEF IInv, Selected, Moves, Selecting
<1>11. CarriesOwed'
  <2> SUFFICES ASSUME NEW q \in Pipelines PROVE
          /\ pc'[q] \in SilverSteps => owed'[q] \subseteq seen'[q].rows
          /\ "silver" \notin disturbed'[q] =>
                /\ pc'[q] \in {"silver_derive", "gold"} => owed'[q] \subseteq silver'.rows
                /\ pc'[q] \in Selecting => \A id \in DOMAIN seen'[q] : owed'[q] \subseteq seen'[q][id].rows
                /\ "gold" \notin disturbed'[q] /\ pc'[q] = "gold_fan_out" =>
                    \A id \in DOMAIN seen'[q] : owed'[q] \subseteq gold'[id].rows
    BY DEF CarriesOwed
  <2>1. q \in Processes /\ owed'[q] = owed[q] /\ silver' = silver /\ disturbed[q] \subseteq disturbed'[q]
    BY <1>4, <1>5 DEF Processes
  <2>2. CASE q = p
    <3>1. pc'[q] = "gold_fan_out"
      BY <1>1, <2>2 DEF Moves
    <3>2. "silver" \notin disturbed'[q] => \A id \in DOMAIN seen[q] : owed[q] \subseteq seen[q][id].rows
      BY <1>1, <2>1, <2>2 DEF IInv, CarriesOwed
    <3> QED BY <1>2, <1>3, <2>1, <2>2, <3>1, <3>2 DEF SilverSteps
  <2>3. CASE q # p
    <3>1. pc'[q] = pc[q] /\ seen'[q] = seen[q]
      BY <1>1, <1>2, <2>1, <2>3 DEF Moves
    <3>2. ASSUME "silver" \notin disturbed'[q], "gold" \notin disturbed'[q], pc'[q] = "gold_fan_out",
                 NEW id \in DOMAIN seen'[q]
          PROVE  owed'[q] \subseteq gold'[id].rows
      <4>1. owed[q] \subseteq rows
        BY <1>5, <2>3, <3>1, <3>2 DEF Idle
      <4>2. id \in DOMAIN gold /\ owed[q] \subseteq gold[id].rows
        BY <2>1, <3>1, <3>2 DEF IInv, Selected, CarriesOwed, Selecting
      <4> QED BY <1>3, <1>6, <2>1, <4>1, <4>2
    <3> QED BY <2>1, <3>1, <3>2 DEF IInv, CarriesOwed
  <2> QED BY <2>2, <2>3
<1>12. ResultDeclares'
  BY <1>1, <1>2, <1>4, <1>5 DEF IInv, ResultDeclares, Coarse, Moves, Processes
<1> QED BY <1>7, <1>8, <1>9, <1>10, <1>11, <1>12 DEF IInv

\* A pipeline declares what it has published and the coarser timeframes of the newest
\* minute datasets.
LEMMA GoldFanOutIInv == ASSUME IInv, NEW p \in Processes, GoldFanOut(p) PROVE IInv'
<1> DEFINE ids == {i \in Ids \cap DOMAIN M1Of : M1Of[i] \in DOMAIN gold}
           coarse == [id \in ids |-> Content(gold[M1Of[id]].rows, Resampled(gold[M1Of[id]].frame))]
<1>1. pc[p] = "gold_fan_out" /\ pc[p] \in Selecting
  BY DEF GoldFanOut, Selecting
<1>2. /\ gold' = Replace(gold, coarse)
      /\ result' = IF p \in Pipelines THEN Replace(seen[p], coarse) ELSE result
      /\ IF p \in Pipelines THEN Go(p, "sync") /\ UNCHANGED <<seen, history>> ELSE Ends(p, "idle")
      /\ UNCHANGED <<market, bronze, silver, table, lock>>
  BY DEF GoldFanOut
<1>3. DOMAIN coarse = ids /\ \A id \in ids : coarse[id].rows = gold[M1Of[id]].rows
  BY DEF Content
<1>4. ids \subseteq Ids \cap DOMAIN M1Of /\ \A i \in ids : M1Of[i] \in DOMAIN gold
  OBVIOUS
<1> HIDE DEF coarse
<1>5. /\ DOMAIN gold' = DOMAIN gold \cup ids
      /\ \A id \in ids : gold'[id].rows = gold[M1Of[id]].rows
      /\ \A id \in DOMAIN gold \ ids : gold'[id] = gold[id]
  BY <1>2, <1>3 DEF Replace
<1>6. LayersHoldRows'
  <2>1. /\ UNCHANGED <<market, bronze, silver, table>>
        /\ DOMAIN gold \subseteq DOMAIN gold' /\ DOMAIN gold' \subseteq Ids \cup LibraryIds
        /\ \A id \in DOMAIN gold' : gold'[id].rows \subseteq bronze'
    BY <1>2, <1>4, <1>5 DEF IInv, TypeOK, LayersHoldRows
  <2>2. DOMAIN result' \subseteq DOMAIN gold' \cap Ids
    <3>1. CASE p \notin Pipelines
      BY <1>2, <2>1, <3>1 DEF IInv, TypeOK, LayersHoldRows
    <3>2. CASE p \in Pipelines
      <4>1. DOMAIN result' = DOMAIN seen[p] \cup ids
        BY <1>2, <1>3, <3>2 DEF Replace
      <4>2. DOMAIN seen[p] \subseteq DOMAIN gold \cap Ids
        BY <1>1, <3>2 DEF IInv, Selected
      <4> QED BY <1>4, <1>5, <4>1, <4>2
    <3> QED BY <3>1, <3>2
  <2> QED BY <2>1, <2>2 DEF IInv, TypeOK, LayersHoldRows
<1>7. CASE p \in Pipelines
  <2>1. Moves(p, "sync") /\ UNCHANGED <<seen, owed, disturbed>>
    BY <1>2, <1>7, OneMoves DEF IInv, history
  <2>2. Positions'
    BY <1>2, <1>7, <2>1, PositionsStay DEF IInv, TypeOK, Positions, StepsOf, SilverSteps, GoldSteps
  <2>3. Formed' /\ LockHeld'
    <3>1. UNCHANGED <<silver, lock>>
      BY <1>2
    <3> QED BY <1>1, <1>7, <2>1, <3>1 DEF IInv, Formed, LockHeld, Moves, Processes, Idle
  <2>4. ReadsStand' /\ Selected'
    BY <1>1, <1>2, <1>5, <2>1 DEF IInv, ReadsStand, Selected, Moves, SilverSteps, Selecting
  <2>5. \A q \in Processes : pc[q] \in Selecting => \A id \in DOMAIN seen[q] : id \notin ids
    BY <1>4 DEF IInv, Selected
  <2>6. CarriesOwed'
    BY <1>1, <1>2, <1>5, <2>1, <2>5 DEF IInv, CarriesOwed, Selected, Moves, SilverSteps, Selecting, Processes
  <2>7. ResultDeclares'
    <3>1. \A q \in Pipelines : pc'[q] = "sync" => q = p
      BY <1>1, <1>7, <2>1, OnlyOne DEF IInv, Moves, Processes, Idle
    <3>2. DOMAIN seen[p] \cup Coarse(p) \subseteq DOMAIN result'
      <4>1. DOMAIN result' = DOMAIN seen[p] \cup ids
        BY <1>2, <1>3, <1>7 DEF Replace
      <4>2. DOMAIN seen[p] \subseteq DOMAIN gold
        BY <1>1 DEF IInv, Selected
      <4> QED BY <4>1, <4>2 DEF Coarse
    <3>3. \A id \in DOMAIN seen[p] : result'[id] = seen[p][id]
      BY <1>1, <1>2, <1>3, <1>7, <2>5 DEF Replace
    <3>4. \A id \in Coarse(p) : id \in ids /\ result'[id].rows = gold[M1Of[id]].rows
      <4>1. Coarse(p) \subseteq ids
        BY <1>1 DEF IInv, Selected, Coarse
      <4> QED BY <1>2, <1>3, <1>7, <4>1 DEF Replace
    <3>5. "silver" \notin disturbed[p] =>
            /\ \A id \in DOMAIN seen[p] : owed[p] \subseteq seen[p][id].rows
            /\ "gold" \notin disturbed[p] => \A id \in Coarse(p) : owed[p] \subseteq gold[M1Of[id]].rows
      BY <1>1, <1>7 DEF IInv, CarriesOwed, Coarse
    <3> QED BY <2>1, <3>1, <3>2, <3>3, <3>4, <3>5 DEF ResultDeclares, Coarse
  <2> QED BY <1>6, <2>2, <2>3, <2>4, <2>6, <2>7 DEF IInv, TypeOK
<1>8. CASE p \notin Pipelines
  <2>0. Ends(p, "idle") /\ "idle" \in Idle
    BY <1>2, <1>8 DEF Idle
  <2>1. /\ Moves(p, "idle") /\ DOMAIN seen' = Processes
        /\ \A q \in Processes : q # p => seen'[q] = seen[q]
        /\ DOMAIN owed' = Pipelines /\ DOMAIN disturbed' = Pipelines
        /\ \A q \in Pipelines : q # p /\ owed'[q] = owed[q] /\ disturbed'[q] = disturbed[q]
    BY <1>8, <2>0, EndsCleanly DEF IInv
  <2>2. Positions'
    BY <1>2, <1>8, <2>1, PositionsStay DEF IInv, TypeOK, Positions, StepsOf, SilverSteps, GoldSteps
  <2>3. Formed' /\ LockHeld'
    BY <1>2, <2>1 DEF IInv, Formed, LockHeld, Moves, Processes
  <2>4. ReadsStand' /\ Selected'
    BY <1>2, <1>5, <2>1 DEF IInv, ReadsStand, Selected, Moves, SilverSteps, Selecting
  <2>5. \A q \in Processes : pc[q] \in Selecting => \A id \in DOMAIN seen[q] : id \notin ids
    BY <1>4 DEF IInv, Selected
  <2>6. CarriesOwed'
    BY <1>2, <1>5, <2>1, <2>5 DEF IInv, CarriesOwed, Selected, Moves, SilverSteps, Selecting, Processes
  <2>7. ResultDeclares'
    BY <1>2, <1>8, <2>1 DEF IInv, ResultDeclares, Coarse, Moves, Processes
  <2> QED BY <1>6, <2>2, <2>3, <2>4, <2>6, <2>7 DEF IInv, TypeOK
<1> QED BY <1>7, <1>8

\* Serving adds to the table what the publication result declares, and ends the run.
LEMMA SyncIInv == ASSUME IInv, NEW p \in Processes, Sync(p) PROVE IInv'
<1>1. p \in Pipelines
  BY WhoIsAt DEF IInv, TypeOK, Sync
<1>2. PICK how \in Idle : Ends(p, how)
  BY DEF Sync, Idle
<1>3. /\ Moves(p, how) /\ DOMAIN seen' = Processes
      /\ \A q \in Processes : q # p => seen'[q] = seen[q]
      /\ DOMAIN owed' = Pipelines /\ DOMAIN disturbed' = Pipelines
      /\ \A q \in Pipelines : /\ q # p => owed'[q] = owed[q] /\ disturbed'[q] = disturbed[q]
                              /\ owed'[q] \subseteq owed[q]
  BY <1>2, EndsCleanly DEF IInv
<1>4. /\ DOMAIN table' = DOMAIN table \cup DOMAIN result /\ lock' = Free
      /\ UNCHANGED <<market, bronze, silver, gold, result>>
  BY DEF Sync, Replace
<1>5. TypeOK'
  <2>1. Positions'
    BY <1>1, <1>3, <1>4, PositionsStay DEF IInv, TypeOK, StepsOf, SilverSteps, GoldSteps
  <2> QED BY <2>1, <1>4 DEF IInv, TypeOK, LayersHoldRows
<1>6. Formed'
  BY <1>3, <1>4 DEF IInv, Formed, Moves
<1>7. LockHeld'
  <2>1. \A q \in Pipelines : q # p => pc[q] \in Idle
    BY <1>1, OnlyOne DEF IInv, Sync, Idle
  <2> QED BY <1>1, <1>3, <2>1 DEF LockHeld, Moves, Processes
<1>8. how \notin SilverSteps \cup Selecting /\ how # "gold" /\ how # "sync"
  BY DEF Idle, SilverSteps, Selecting
<1>9. ReadsStand' /\ Selected'
  BY <1>3, <1>4, <1>8 DEF IInv, ReadsStand, Selected, Moves, Selecting
<1>10. CarriesOwed' /\ ResultDeclares'
  BY <1>3, <1>4, <1>8 DEF IInv, CarriesOwed, ResultDeclares, Coarse, Moves, Processes, SilverSteps, Selecting
<1> QED BY <1>5, <1>6, <1>7, <1>9, <1>10 DEF IInv

LEMMA InitIInv == Init => IInv
<1> SUFFICES ASSUME Init PROVE IInv
  OBVIOUS
<1> USE DEF Init
<1>1. Positions /\ LayersHoldRows
  BY DEF Positions, StepsOf, LayersHoldRows, Processes, Idle, NoSilver, Nothing, Content, Live
<1>2. Formed
  BY DEF Formed, NoSilver, Content
<1>3. \A p \in Processes : pc[p] = "idle"
  OBVIOUS
<1>4. LockHeld /\ ReadsStand /\ Selected /\ CarriesOwed /\ ResultDeclares
  BY <1>3 DEF LockHeld, ReadsStand, Selected, CarriesOwed, ResultDeclares, Processes, Idle, SilverSteps, Selecting
<1> QED BY <1>1, <1>2, <1>4 DEF IInv, TypeOK

LEMMA IInvNext == IInv /\ [Next]_vars => IInv'
<1> SUFFICES ASSUME IInv, [Next]_vars PROVE IInv'
  OBVIOUS
<1>1. CASE UNCHANGED vars
  BY <1>1 DEF vars, layers, processes, history, IInv, TypeOK, Positions, LayersHoldRows, Formed, LockHeld,
     ReadsStand, Selected, CarriesOwed, ResultDeclares, Coarse
<1> QED
  BY <1>1, ArriveIInv, StartPipelineIInv, FailIInv, StartByHandIInv, BronzeIInv, SilverReadIInv, SilverPublishIInv,
     SilverDeriveIInv, GoldReadIInv, GoldPublishIInv, GoldFanOutIInv, SyncIInv DEF Next, Step

LEMMA InvariantHolds == Spec => []IInv
BY InitIInv, IInvNext, PTL DEF Spec

-----------------------------------------------------------------------------
(* Months and windows.                                                     *)

\* Months are MonthMinutes minutes each, in order.
LEMMA MonthBounds ==
    ASSUME NEW m \in Int
    PROVE  /\ Month(m) \in Int
           /\ MonthStart(Month(m)) <= m /\ m < MonthStart(Month(m)) + MonthMinutes
BY Quotient DEF Month, MonthStart

\* A later minute is not in an earlier month.
LEMMA MonthsInOrder ==
    ASSUME NEW m \in Int, NEW n \in Int, m <= n
    PROVE  Month(m) <= Month(n)
BY QuotientsOrdered DEF Month

\* The first minute of a month is in it, and every minute before is in an earlier one.
LEMMA MonthBegins ==
    ASSUME NEW k \in Int, NEW m \in Int
    PROVE  MonthStart(k) \in Int /\ (MonthStart(k) <= m <=> k <= Month(m))
<1>1. MonthStart(k) \in Int
  BY DEF MonthStart
<1>2. Month(m) \in Int /\ Month(m) * MonthMinutes <= m /\ m < Month(m) * MonthMinutes + MonthMinutes
  BY MonthBounds DEF MonthStart
<1>3. CASE k <= Month(m)
  <2>1. k * MonthMinutes <= Month(m) * MonthMinutes
    BY <1>2, <1>3, Multiples
  <2> QED BY <1>1, <1>2, <1>3, <2>1 DEF MonthStart
<1>4. CASE Month(m) < k
  <2>1. Month(m) * MonthMinutes + MonthMinutes <= k * MonthMinutes
    BY <1>2, <1>4, Multiples
  <2> QED BY <1>1, <1>2, <1>4, <2>1 DEF MonthStart
<1> QED BY <1>2, <1>3, <1>4

\* Minutes within a window that ends in month k are in the months that k is built from.
LEMMA InReach ==
    ASSUME NEW k \in Months, NEW m \in MinutesOf(k), NEW x \in Minutes, x <= m, MonthStart(k) - Window <= x
    PROVE  Month(x) \in CalculationKeys(k)
<1>1. k \in Int /\ m \in Int /\ x \in Int /\ Month(m) = k
  BY MonthBounds DEF Months, MinutesOf, Minutes
<1>2. CASE x < MonthStart(k)
  BY <1>2 DEF CalculationKeys
<1>3. CASE ~(x < MonthStart(k))
  <2>1. k <= Month(x) /\ Month(x) <= k /\ Month(x) \in Int
    BY <1>1, <1>3, MonthBegins, MonthsInOrder, MonthBounds
  <2> QED BY <1>1, <2>1 DEF CalculationKeys
<1> QED BY <1>2, <1>3

\* A month is built from months of the history, itself among them.
LEMMA KeysAreMonths ==
    ASSUME NEW k \in Months
    PROVE  CalculationKeys(k) \subseteq Months /\ k \in CalculationKeys(k)
BY DEF CalculationKeys, Months

-----------------------------------------------------------------------------
(* Rows of some months.                                                    *)

Part(rows, keys) == {r \in rows : Month(Minute(r.t)) \in keys}

\* What is kept of a month of Bronze are rows of that month.
LEMMA ObservedRows == ASSUME NEW src, NEW rows PROVE Observed(src, rows) \subseteq rows
BY DEF Observed, Candles, FundingObserved, OpenInterestObserved, VolatilityObserved, IndexPriceObserved,
   FuturesObserved, TickerObserved, BookObserved, TradesObserved, RecentTradesObserved, MetadataObserved,
   HistoricalVolatilityObserved, KeepLast, Valid

LEMMA ObservedInMonth ==
    ASSUME NEW b, NEW src, NEW k
    PROVE  \A r \in ObservedMonth(b, src, k) : r \in b /\ r.src = src /\ Month(Minute(r.t)) = k
BY ObservedRows DEF ObservedMonth, Of

\* What is observed over some months is the part of the whole history in them.
LEMMA OverPart ==
    ASSUME NEW b, NEW src, NEW keys, keys \subseteq Months
    PROVE  Over(b, src, keys) = Part(Over(b, src, Months), keys)
BY ObservedInMonth DEF Over, Part

LEMMA OverRows ==
    ASSUME NEW b, NEW src, NEW keys
    PROVE  \A r \in Over(b, src, keys) : r \in b /\ r.src = src /\ Month(Minute(r.t)) \in keys
BY ObservedInMonth DEF Over

-----------------------------------------------------------------------------
(* A rolling feature of a month needs no more months than it is given.     *)

From(k) == MonthStart(k) - Window

\* The month in which the windows of month k begin, and all later ones up to k, are given.
LEMMA KeysReachBack ==
    ASSUME NEW k \in Months, NEW m \in MinutesOf(k), NEW y \in Minutes, y <= m, Month(From(k)) <= Month(y)
    PROVE  Month(y) \in CalculationKeys(k)
<1>1. k \in Int /\ m \in Int /\ y \in Int /\ 0 <= y /\ Month(m) = k /\ m <= LastMinute
  BY MonthBounds DEF Months, MinutesOf, Minutes
<1>2. MonthStart(k) \in Int /\ From(k) \in Int /\ From(k) < MonthStart(k) /\ MonthStart(k) <= m
  BY <1>1, MonthBegins DEF From
<1>3. CASE From(k) <= y
  BY <1>3, InReach DEF From
<1>4. CASE y < From(k)
  <2>1. Month(y) = Month(From(k))
    BY <1>1, <1>2, <1>4, MonthsInOrder, MonthBounds
  <2>2. From(k) \in Minutes
    BY <1>1, <1>2, <1>4 DEF Minutes
  <2> QED BY <1>2, <2>1, <2>2 DEF CalculationKeys, From
<1> QED BY <1>1, <1>2, <1>3, <1>4

InKeys(ms, k) == {x \in ms : Month(x) \in CalculationKeys(k)}

\* The greatest of a set is the greatest of any part that has it.
LEMMA GreatestOfPart ==
    ASSUME NEW S, S \subseteq Int, NEW T, T \subseteq S, NEW g \in T, \A x \in S : x <= g
    PROVE  Max(S) = g /\ Max(T) = g
<1>1. \A U : U \subseteq S /\ g \in U => Max(U) = g
  <2> SUFFICES ASSUME NEW U, U \subseteq S, g \in U PROVE Max(U) = g
    OBVIOUS
  <2>1. \E x \in U : \A y \in U : x >= y
    OBVIOUS
  <2>2. Max(U) \in U /\ \A y \in U : Max(U) >= y
    BY <2>1 DEF Max
  <2>3. Max(U) \in Int /\ g \in Int /\ Max(U) >= g /\ Max(U) <= g
    BY <2>2
  <2> QED BY <2>3
<1> QED BY <1>1

\* The minute before x in the given months is the one before x in the whole history.
LEMMA SameBefore ==
    ASSUME NEW ms, ms \subseteq Minutes, NEW k \in Months, ReachesBack(ms, k),
           NEW m \in MinutesOf(k), NEW x \in Minutes, From(k) < x, x <= m
    PROVE  /\ LastBefore(InKeys(ms, k), x) = LastBefore(ms, x)
           /\ LastBefore(ms, x) # {} =>
                /\ Max(Earlier(InKeys(ms, k), x)) = Max(Earlier(ms, x))
                /\ Max(Earlier(ms, x)) \in InKeys(ms, k)
<1> DEFINE all == Earlier(ms, x)
           part == Earlier(InKeys(ms, k), x)
<1>0. IsFiniteSet(Minutes)
  BY FS_Interval DEF Minutes
<1>1. k \in Int /\ m \in Int /\ x \in Int /\ Minutes \subseteq Int
  BY MonthBounds DEF Months, MinutesOf, Minutes
<1>2. MonthStart(k) \in Int /\ From(k) \in Int
  BY <1>1, MonthBegins DEF From
<1>3. part \subseteq all /\ all \subseteq ms /\ all \subseteq Int /\ IsFiniteSet(all)
  BY <1>0, <1>1, FS_Subset DEF Earlier, InKeys
<1>4. \A y \in all : Month(From(k)) <= Month(y) => y \in part
  <2> SUFFICES ASSUME NEW y \in all, Month(From(k)) <= Month(y) PROVE y \in part
    OBVIOUS
  <2>1. y \in ms /\ y \in Minutes /\ y < x /\ y <= m
    BY <1>1 DEF Earlier
  <2>2. Month(y) \in CalculationKeys(k)
    BY <2>1, KeysReachBack
  <2> QED BY <2>1, <2>2 DEF Earlier, InKeys
<1>5. CASE all = {}
  BY <1>3, <1>5 DEF LastBefore
<1>6. CASE all # {}
  <2>1. PICK g \in all : \A y \in all : y <= g
    <3> HIDE DEF all
    <3> QED BY <1>3, <1>6, GreatestInteger
  <2>2. Month(From(k)) <= Month(g)
    <3>1. CASE \E o \in ms : o <= From(k) /\ Month(o) = Month(From(k))
      <4>1. PICK o \in ms : o <= From(k) /\ Month(o) = Month(From(k))
        BY <3>1
      <4>2. o \in all /\ o \in Int
        BY <1>1, <1>2, <4>1 DEF Earlier
      <4>3. o <= g /\ g \in Int
        BY <1>3, <2>1, <4>2
      <4>4. Month(o) <= Month(g)
        BY <4>2, <4>3, MonthsInOrder
      <4> QED BY <4>1, <4>4
    <3>2. CASE \A o \in ms : Month(o) >= Month(From(k))
      <4>1. g \in Int /\ g \in ms
        BY <1>3, <2>1
      <4>2. Month(g) \in Int /\ Month(From(k)) \in Int
        BY <1>2, <4>1, MonthBounds
      <4> QED BY <3>2, <4>1, <4>2
    <3> QED BY <3>1, <3>2 DEF ReachesBack, From
  <2>3. g \in part
    BY <1>4, <2>2
  <2>4. Max(all) = g /\ Max(part) = g
    <3> HIDE DEF all, part
    <3> QED BY <1>3, <2>1, <2>3, GreatestOfPart
  <2>5. g \in InKeys(ms, k)
    BY <2>3 DEF Earlier
  <2> QED BY <2>3, <2>4, <2>5, <1>6 DEF LastBefore
<1> QED BY <1>5, <1>6

\* Windows that end in a month lie within the given months.
LEMMA SameWindows ==
    ASSUME NEW ms, ms \subseteq Minutes, NEW k \in Months, NEW m \in MinutesOf(k)
    PROVE  /\ Trailing(InKeys(ms, k), m, Window) = Trailing(ms, m, Window)
           /\ ClosedTrailing(InKeys(ms, k), m, Window) = ClosedTrailing(ms, m, Window)
           /\ Trailing(ms, m, Window) \subseteq InKeys(ms, k)
           /\ ClosedTrailing(ms, m, Window) \subseteq InKeys(ms, k)
           /\ \A x \in Trailing(ms, m, Window) : From(k) < x /\ x <= m
<1>1. k \in Int /\ m \in Int /\ Month(m) = k /\ Minutes \subseteq Int
  BY MonthBounds DEF Months, MinutesOf, Minutes
<1>2. MonthStart(k) \in Int /\ From(k) \in Int /\ MonthStart(k) <= m
  BY <1>1, MonthBegins DEF From
<1>3. ASSUME NEW x \in ms, m - Window <= x, x <= m PROVE x \in InKeys(ms, k)
  <2>1. x \in Minutes /\ x \in Int
    BY <1>1
  <2>2. MonthStart(k) - Window <= x
    BY <1>1, <1>2, <1>3, <2>1
  <2> QED BY <1>3, <2>1, <2>2, InReach DEF InKeys
<1>4. InKeys(ms, k) \subseteq ms
  BY DEF InKeys
<1>5. ClosedTrailing(ms, m, Window) \subseteq InKeys(ms, k)
  BY <1>3 DEF ClosedTrailing
<1>6. Trailing(ms, m, Window) \subseteq InKeys(ms, k)
  <2> SUFFICES ASSUME NEW x \in Trailing(ms, m, Window) PROVE x \in InKeys(ms, k)
    OBVIOUS
  <2>1. x \in ms /\ x \in Int /\ m - Window < x /\ x <= m
    BY <1>1 DEF Trailing
  <2> QED BY <1>1, <1>3, <2>1
<1>7. \A x \in Trailing(ms, m, Window) : From(k) < x /\ x <= m
  BY <1>1, <1>2 DEF Trailing, From
<1>8. /\ Trailing(InKeys(ms, k), m, Window) = Trailing(ms, m, Window)
      /\ ClosedTrailing(InKeys(ms, k), m, Window) = ClosedTrailing(ms, m, Window)
  BY <1>4, <1>5, <1>6 DEF Trailing, ClosedTrailing
<1> QED BY <1>5, <1>6, <1>7, <1>8

\* The rows at minutes of the given months are rows of the part.
LEMMA RowsOfPart ==
    ASSUME NEW rows, NEW keys, NEW set, \A x \in set : Month(x) \in keys
    PROVE  {r \in Part(rows, keys) : Minute(r.t) \in set} = {r \in rows : Minute(r.t) \in set}
BY DEF Part

LEMMA MinutesOfPart ==
    ASSUME NEW rows, NEW k
    PROVE  {Minute(r.t) : r \in Part(rows, CalculationKeys(k))} = InKeys({Minute(r.t) : r \in rows}, k)
BY DEF Part, InKeys

\* A snapshot replaces the historical value of its own minute, so of its own month.
LEMMA MergedPart ==
    ASSUME NEW H, NEW S, NEW keys
    PROVE  /\ MergedVolatility(Part(H, keys), Part(S, keys)) = Part(MergedVolatility(H, S), keys)
           /\ {Minute(r.t) : r \in MergedVolatility(H, S)} = {Minute(r.t) : r \in H \cup S}
BY DEF MergedVolatility, Part

AtMinutes(rows, set) == {r \in rows : Minute(r.t) \in set}

\* A row of the volatility index: its windows over the minutes ms, its cells from these rows.
VolatilityRow(rows, ms, m) ==
    [iv |-> AtMinutes(rows, {m}),
     iv_return |-> IF LastBefore(ms, m) = {} THEN {} ELSE AtMinutes(rows, {m} \cup LastBefore(ms, m)),
     iv_zscore |-> IF Cardinality(Trailing(ms, m, Window)) < 2 THEN {} ELSE AtMinutes(rows, Trailing(ms, m, Window)),
     iv_percentile |-> AtMinutes(rows, ClosedTrailing(ms, m, Window))]

\* The same row from the given months and from the whole history.
LEMMA VolatilityRowMatches ==
    ASSUME NEW rows, NEW ms, ms \subseteq Minutes, NEW k \in Months, NEW m \in ms \cap MinutesOf(k),
           NEW part, NEW mp, mp = InKeys(ms, k), part = Part(rows, CalculationKeys(k))
    PROVE  LET whole == VolatilityRow(rows, ms, m)
               built == VolatilityRow(part, mp, m)
           IN  /\ built.iv = whole.iv /\ built.iv_zscore = whole.iv_zscore /\ built.iv_percentile = whole.iv_percentile
               /\ ReachesBack(ms, k) => built = whole
<1>1. m \in mp /\ m \in Minutes
  BY KeysAreMonths DEF InKeys, MinutesOf
<1>2. \A set : (\A x \in set : x \in mp) => AtMinutes(part, set) = AtMinutes(rows, set)
  <2> SUFFICES ASSUME NEW set, \A x \in set : x \in mp PROVE AtMinutes(part, set) = AtMinutes(rows, set)
    OBVIOUS
  <2>1. \A x \in set : Month(x) \in CalculationKeys(k)
    BY DEF InKeys
  <2> QED BY <2>1 DEF AtMinutes, Part
<1>3. /\ Trailing(mp, m, Window) = Trailing(ms, m, Window) /\ Trailing(ms, m, Window) \subseteq mp
      /\ ClosedTrailing(mp, m, Window) = ClosedTrailing(ms, m, Window) /\ ClosedTrailing(ms, m, Window) \subseteq mp
  BY SameWindows
<1>4. /\ AtMinutes(part, {m}) = AtMinutes(rows, {m})
      /\ AtMinutes(part, Trailing(ms, m, Window)) = AtMinutes(rows, Trailing(ms, m, Window))
      /\ AtMinutes(part, ClosedTrailing(ms, m, Window)) = AtMinutes(rows, ClosedTrailing(ms, m, Window))
  BY <1>1, <1>2, <1>3
<1>5. ASSUME ReachesBack(ms, k)
      PROVE  /\ LastBefore(mp, m) = LastBefore(ms, m)
             /\ LastBefore(ms, m) # {} =>
                    AtMinutes(part, {m} \cup LastBefore(ms, m)) = AtMinutes(rows, {m} \cup LastBefore(ms, m))
  <2>1. m \in Int /\ k \in Int /\ Month(m) = k
    BY <1>1, MonthBounds DEF MinutesOf, Minutes, Months
  <2>2. MonthStart(k) \in Int /\ MonthStart(k) <= m
    BY <2>1, MonthBegins
  <2>3. From(k) < m /\ m <= m
    BY <2>1, <2>2 DEF From
  <2>4. /\ LastBefore(mp, m) = LastBefore(ms, m)
        /\ LastBefore(ms, m) # {} => Max(Earlier(ms, m)) \in mp
    BY <1>1, <1>5, <2>3, SameBefore
  <2>5. LastBefore(ms, m) # {} => \A x \in {m} \cup LastBefore(ms, m) : x \in mp
    BY <1>1, <2>4 DEF LastBefore
  <2> QED BY <1>2, <2>4, <2>5
<1> QED BY <1>3, <1>4, <1>5 DEF VolatilityRow

\* The volatility index of a month, from the given months and from the whole history.
LEMMA VolatilityMatches ==
    ASSUME NEW rows, NEW k \in Months, {Minute(r.t) : r \in rows} \subseteq Minutes
    PROVE  LET ms == {Minute(r.t) : r \in rows}
               whole == Trim(VolatilityFrame(rows), k)
               built == Trim(VolatilityFrame(Part(rows, CalculationKeys(k))), k)
           IN  /\ DOMAIN built = DOMAIN whole
               /\ \A m \in DOMAIN whole :
                    /\ built[m].iv = whole[m].iv /\ built[m].iv_zscore = whole[m].iv_zscore
                    /\ built[m].iv_percentile = whole[m].iv_percentile
               /\ ReachesBack(ms, k) => built = whole
<1> DEFINE ms == {Minute(r.t) : r \in rows}
           mp == InKeys(ms, k)
           part == Part(rows, CalculationKeys(k))
           here == ms \cap MinutesOf(k)
<1>1. mp = {Minute(r.t) : r \in part} /\ here = mp \cap MinutesOf(k)
  BY MinutesOfPart, KeysAreMonths DEF InKeys, MinutesOf
<1>2. Trim(VolatilityFrame(rows), k) = [m \in here |-> VolatilityRow(rows, ms, m)]
  BY DEF Trim, Restrict, VolatilityFrame, VolatilityRow, AtMinutes
<1>3. Trim(VolatilityFrame(part), k) = [m \in here |-> VolatilityRow(part, mp, m)]
  <2> HIDE DEF mp, here, part
  <2>1. Trim(VolatilityFrame(part), k) = [m \in mp \cap MinutesOf(k) |-> VolatilityRow(part, mp, m)]
    BY <1>1 DEF Trim, Restrict, VolatilityFrame, VolatilityRow, AtMinutes
  <2> QED BY <1>1, <2>1
<1>4. ASSUME NEW m \in here
      PROVE  LET whole == VolatilityRow(rows, ms, m)
                 built == VolatilityRow(part, mp, m)
             IN  /\ built.iv = whole.iv /\ built.iv_zscore = whole.iv_zscore /\ built.iv_percentile = whole.iv_percentile
                 /\ ReachesBack(ms, k) => built = whole
  BY VolatilityRowMatches
<1> HIDE DEF ms, mp, here
<1> QED BY <1>2, <1>3, <1>4 DEF ms

\* The return of a minute in the windows of a month, from the given months.
LEMMA ReturnMatches ==
    ASSUME NEW prices, NEW k \in Months, {Minute(r.t) : r \in prices} \subseteq Minutes,
           ReachesBack({Minute(r.t) : r \in prices}, k),
           NEW m \in MinutesOf(k), NEW x \in Minutes, From(k) < x, x <= m, Month(x) \in CalculationKeys(k)
    PROVE  Return(Part(prices, CalculationKeys(k)), x) = Return(prices, x)
<1> DEFINE ms == {Minute(r.t) : r \in prices}
           mp == InKeys(ms, k)
           part == Part(prices, CalculationKeys(k))
           at(rows, y) == {r \in rows : Minute(r.t) = y}
<1>1. mp = {Minute(r.t) : r \in part}
  BY MinutesOfPart
<1>2. \A y : Month(y) \in CalculationKeys(k) => at(part, y) = at(prices, y)
  BY DEF Part
<1>3. Return(prices, x) =
        IF x \notin ms \/ LastBefore(ms, x) = {} THEN {} ELSE at(prices, x) \cup at(prices, Max(Earlier(ms, x)))
  BY DEF Return
<1>4. Return(part, x) =
        IF x \notin mp \/ LastBefore(mp, x) = {} THEN {} ELSE at(part, x) \cup at(part, Max(Earlier(mp, x)))
  <2> HIDE DEF mp, part
  <2> QED BY <1>1 DEF Return
<1>5. x \in mp <=> x \in ms
  BY DEF InKeys
<1>6. /\ LastBefore(mp, x) = LastBefore(ms, x)
      /\ LastBefore(ms, x) # {} =>
            /\ Max(Earlier(mp, x)) = Max(Earlier(ms, x))
            /\ Max(Earlier(ms, x)) \in mp
  <2>1. ms \subseteq Minutes /\ ReachesBack(ms, k)
    OBVIOUS
  <2> HIDE DEF ms
  <2> QED BY <2>1, SameBefore
<1>7. \A y \in mp : Month(y) \in CalculationKeys(k)
  BY DEF InKeys
<1> HIDE DEF mp, ms, part, at
<1>8. LastBefore(ms, x) # {} => /\ at(part, x) = at(prices, x)
                                /\ at(part, Max(Earlier(mp, x))) = at(prices, Max(Earlier(ms, x)))
  BY <1>2, <1>6, <1>7
<1>9. Return(part, x) = Return(prices, x)
  BY <1>3, <1>4, <1>5, <1>6, <1>8
<1> QED BY <1>9 DEF part

\* The realized volatility of a minute, from the given months.
LEMMA RollingMatches ==
    ASSUME NEW prices, NEW k \in Months, {Minute(r.t) : r \in prices} \subseteq Minutes,
           ReachesBack({Minute(r.t) : r \in prices}, k), NEW m \in MinutesOf(k)
    PROVE  RollingVolatility(Part(prices, CalculationKeys(k)), m) = RollingVolatility(prices, m)
<1> DEFINE ms == {Minute(r.t) : r \in prices}
           mp == InKeys(ms, k)
           part == Part(prices, CalculationKeys(k))
<1>1. mp = {Minute(r.t) : r \in part} /\ ms \subseteq Minutes
  BY MinutesOfPart
<1>2. Trailing(mp, m, Window) = Trailing(ms, m, Window) /\ Trailing(ms, m, Window) \subseteq mp
      /\ \A x \in Trailing(ms, m, Window) : From(k) < x /\ x <= m
  <2> HIDE DEF ms
  <2> QED BY <1>1, SameWindows
<1>3. \A x \in Trailing(ms, m, Window) : Return(part, x) = Return(prices, x)
  <2> SUFFICES ASSUME NEW x \in Trailing(ms, m, Window) PROVE Return(part, x) = Return(prices, x)
    OBVIOUS
  <2>1. x \in Minutes /\ From(k) < x /\ x <= m /\ Month(x) \in CalculationKeys(k)
    BY <1>1, <1>2 DEF InKeys
  <2> QED BY <2>1, ReturnMatches
<1>4. Return(part, m) = Return(prices, m)
  <2>1. m \in Minutes /\ m \in Int /\ k \in Int /\ Month(m) = k
    BY MonthBounds DEF MinutesOf, Minutes, Months
  <2>2. MonthStart(k) \in Int /\ MonthStart(k) <= m
    BY <2>1, MonthBegins
  <2>3. From(k) < m /\ m <= m /\ Month(m) \in CalculationKeys(k)
    BY <2>1, <2>2, KeysAreMonths DEF From
  <2> QED BY <2>1, <2>3, ReturnMatches
<1>5. RollingVolatility(part, m) =
        IF Return(part, m) = {} THEN {} ELSE UNION {Return(part, x) : x \in Trailing(mp, m, Window)}
  <2> HIDE DEF part, mp
  <2> QED BY <1>1 DEF RollingVolatility
<1>6. RollingVolatility(prices, m) =
        IF Return(prices, m) = {} THEN {} ELSE UNION {Return(prices, x) : x \in Trailing(ms, m, Window)}
  BY DEF RollingVolatility
<1>7. {Return(part, x) : x \in Trailing(mp, m, Window)} = {Return(prices, x) : x \in Trailing(ms, m, Window)}
  <2> HIDE DEF part, ms, mp
  <2> QED BY <1>2, <1>3
<1>8. RollingVolatility(part, m) = RollingVolatility(prices, m)
  <2> HIDE DEF part, ms, mp
  <2> QED BY <1>4, <1>5, <1>6, <1>7
<1> QED BY <1>8

\* The realized volatility of a month, from the given months and from the whole history.
LEMMA RealizedMatches ==
    ASSUME NEW spot, NEW perps, NEW canonical, NEW k \in Months,
           {Minute(r.t) : r \in spot} \subseteq Minutes, ReachesBack({Minute(r.t) : r \in spot}, k),
           {Minute(r.t) : r \in perps} \subseteq Minutes, ReachesBack({Minute(r.t) : r \in perps}, k)
    PROVE  Trim(RealizedVolatilityFrame(Part(spot, CalculationKeys(k)), Part(perps, CalculationKeys(k)), canonical), k)
             = Trim(RealizedVolatilityFrame(spot, perps, canonical), k)
<1> DEFINE ks == CalculationKeys(k)
           ms == {Minute(r.t) : r \in spot \cup perps} \cap MinutesOf(k)
           row(s, p, m) == [spot_rv |-> RollingVolatility(s, m), perps_rv |-> RollingVolatility(p, m),
                            rv |-> RollingVolatility(IF canonical = "perps" THEN p ELSE s, m)]
<1>1. \A m \in MinutesOf(k) : /\ RollingVolatility(Part(spot, ks), m) = RollingVolatility(spot, m)
                              /\ RollingVolatility(Part(perps, ks), m) = RollingVolatility(perps, m)
  BY RollingMatches
<1>2. ms = {Minute(r.t) : r \in Part(spot, ks) \cup Part(perps, ks)} \cap MinutesOf(k)
  BY KeysAreMonths DEF Part, MinutesOf
<1>3. Trim(RealizedVolatilityFrame(spot, perps, canonical), k) = [m \in ms |-> row(spot, perps, m)]
  BY DEF Trim, Restrict, RealizedVolatilityFrame
<1>4. Trim(RealizedVolatilityFrame(Part(spot, ks), Part(perps, ks), canonical), k)
        = [m \in ms |-> row(Part(spot, ks), Part(perps, ks), m)]
  <2> HIDE DEF ks, ms
  <2> QED BY <1>2 DEF Trim, Restrict, RealizedVolatilityFrame
<1>5. \A m \in ms : row(Part(spot, ks), Part(perps, ks), m) = row(spot, perps, m)
  <2> HIDE DEF ks
  <2> QED BY <1>1
<1> HIDE DEF ms, row, ks
<1> QED BY <1>3, <1>4, <1>5 DEF ks

\* The partitions of a month of both datasets.
LEMMA IvMonthMatches ==
    ASSUME NEW b, \A r \in b : Minute(r.t) \in Minutes, NEW k \in Months
    PROVE  LET whole == IvMonth(b, k, Months)
               built == IvMonth(b, k, CalculationKeys(k))
           IN  /\ DOMAIN built = DOMAIN whole
               /\ \A m \in DOMAIN whole :
                    /\ built[m].iv = whole[m].iv /\ built[m].iv_zscore = whole[m].iv_zscore
                    /\ built[m].iv_percentile = whole[m].iv_percentile
               /\ ReachesBack(ObservedMinutes(b, {"volatility_index_data", "volatility_index_snapshot_1m"}), k) => built = whole
<1> DEFINE H(keys) == Over(b, "volatility_index_data", keys)
           S(keys) == Over(b, "volatility_index_snapshot_1m", keys)
           rows == MergedVolatility(H(Months), S(Months))
           part == Part(rows, CalculationKeys(k))
           ms == {Minute(r.t) : r \in rows}
<1>1. H(CalculationKeys(k)) = Part(H(Months), CalculationKeys(k)) /\ S(CalculationKeys(k)) = Part(S(Months), CalculationKeys(k))
  BY KeysAreMonths, OverPart
<1>2. MergedVolatility(H(CalculationKeys(k)), S(CalculationKeys(k))) = part
  <2> HIDE DEF H, S
  <2> QED BY <1>1, MergedPart
<1>3. ms = ObservedMinutes(b, {"volatility_index_data", "volatility_index_snapshot_1m"})
  <2>1. ms = {Minute(r.t) : r \in H(Months) \cup S(Months)}
    <3> HIDE DEF H, S
    <3> QED BY MergedPart
  <2> HIDE DEF ms
  <2> QED BY <2>1 DEF ObservedMinutes
<1>4. ms \subseteq Minutes
  <2>1. \A r \in H(Months) \cup S(Months) : r \in b
    BY OverRows
  <2> HIDE DEF H, S
  <2> QED BY <2>1 DEF MergedVolatility
<1>5. IvMonth(b, k, Months) = Trim(VolatilityFrame(rows), k)
  BY DEF IvMonth
<1>6. IvMonth(b, k, CalculationKeys(k)) = Trim(VolatilityFrame(part), k)
  <2> HIDE DEF part
  <2> QED BY <1>2 DEF IvMonth
<1> HIDE DEF rows
<1>7. LET whole == Trim(VolatilityFrame(rows), k)
          built == Trim(VolatilityFrame(part), k)
      IN  /\ DOMAIN built = DOMAIN whole
          /\ \A m \in DOMAIN whole :
                /\ built[m].iv = whole[m].iv /\ built[m].iv_zscore = whole[m].iv_zscore
                /\ built[m].iv_percentile = whole[m].iv_percentile
          /\ ReachesBack(ms, k) => built = whole
  BY <1>4, VolatilityMatches
<1> HIDE DEF part, ms
<1> QED BY <1>3, <1>5, <1>6, <1>7

LEMMA RvMonthMatches ==
    ASSUME NEW b, \A r \in b : Minute(r.t) \in Minutes, NEW k \in Months,
           ReachesBack(ObservedMinutes(b, {"spot_ohlcv"}), k), ReachesBack(ObservedMinutes(b, {"perps_ohlcv"}), k)
    PROVE  RvMonth(b, k, CalculationKeys(k)) = RvMonth(b, k, Months)
<1> DEFINE spot == Over(b, "spot_ohlcv", Months)
           perps == Over(b, "perps_ohlcv", Months)
<1>1. /\ Over(b, "spot_ohlcv", CalculationKeys(k)) = Part(spot, CalculationKeys(k))
      /\ Over(b, "perps_ohlcv", CalculationKeys(k)) = Part(perps, CalculationKeys(k))
  BY KeysAreMonths, OverPart
<1>2. /\ {Minute(r.t) : r \in spot} \subseteq Minutes
      /\ {Minute(r.t) : r \in perps} \subseteq Minutes
  BY OverRows
<1>3. /\ {Minute(r.t) : r \in spot} = ObservedMinutes(b, {"spot_ohlcv"})
      /\ {Minute(r.t) : r \in perps} = ObservedMinutes(b, {"perps_ohlcv"})
  BY DEF ObservedMinutes
<1>4. RvMonth(b, k, Months) = Trim(RealizedVolatilityFrame(spot, perps, CanonicalSource(perps)), k)
  BY DEF RvMonth
<1>5. RvMonth(b, k, CalculationKeys(k)) =
        Trim(RealizedVolatilityFrame(Part(spot, CalculationKeys(k)), Part(perps, CalculationKeys(k)), CanonicalSource(perps)), k)
  BY <1>1 DEF RvMonth
<1> HIDE DEF spot, perps
<1> QED BY <1>2, <1>3, <1>4, <1>5, RealizedMatches

-----------------------------------------------------------------------------
(* Features of two Silver datasets, read over some months of their         *)
(* partitions.                                                             *)

\* The partitions of a dataset, each within its month.
Partitioned(frame) == \A j \in Months : DOMAIN frame[j] \subseteq MinutesOf(j)

\* What is read of a minute comes from the partition of its month.
LEMMA MergedAt ==
    ASSUME NEW frame, Partitioned(frame), NEW keys, keys \subseteq Months
    PROVE  /\ DOMAIN Merged({frame[j] : j \in keys}) = {m \in Minutes : Month(m) \in keys /\ m \in DOMAIN frame[Month(m)]}
           /\ \A m \in DOMAIN Merged({frame[j] : j \in keys}) : Merged({frame[j] : j \in keys})[m] = frame[Month(m)][m]
<1> DEFINE F == {frame[j] : j \in keys}
<1>1. \A j \in keys : \A m \in DOMAIN frame[j] : m \in Minutes /\ Month(m) = j
  BY DEF Partitioned, MinutesOf
<1>2. UNION {DOMAIN f : f \in F} = {m \in Minutes : Month(m) \in keys /\ m \in DOMAIN frame[Month(m)]}
  BY <1>1
<1>3. ASSUME NEW m \in UNION {DOMAIN f : f \in F}
      PROVE  (CHOOSE f \in F : m \in DOMAIN f) = frame[Month(m)]
  <2>1. \A f \in F : m \in DOMAIN f => f = frame[Month(m)]
    BY <1>1
  <2>2. \E f \in F : m \in DOMAIN f
    BY <1>3
  <2> HIDE DEF F
  <2> QED BY <2>1, <2>2
<1> HIDE DEF F
<1>4. /\ DOMAIN Merged(F) = UNION {DOMAIN f : f \in F}
      /\ \A m \in DOMAIN Merged(F) : Merged(F)[m] = (CHOOSE f \in F : m \in DOMAIN f)[m]
  BY DEF Merged
<1>5. \A m \in DOMAIN Merged(F) : Merged(F)[m] = frame[Month(m)][m]
  BY <1>3, <1>4
<1> QED BY <1>2, <1>4, <1>5 DEF F

\* Both datasets read over the given months: their spreads and windows are those of all.
LEMMA IvRvMatches ==
    ASSUME NEW frames, Partitioned(frames["volatility_index_1m_feature"]),
           Partitioned(frames["realized_volatility_1m_feature"]), NEW k \in Months
    PROVE  IvRvMonth(frames, k, CalculationKeys(k)) = IvRvMonth(frames, k, Months)
<1> DEFINE iv == frames["volatility_index_1m_feature"]
           rv == frames["realized_volatility_1m_feature"]
           keys == CalculationKeys(k)
           I(ks) == Merged({iv[j] : j \in ks})
           R(ks) == Merged({rv[j] : j \in ks})
           ms(ks) == DOMAIN I(ks) \cup DOMAIN R(ks)
           row(i, r, from, m) ==
            [spread |-> Spread(i, r, m),
             iv_rv_zscore |-> IF Spread(i, r, m) = {} THEN {}
                              ELSE UNION {Spread(i, r, x) : x \in {y \in Trailing(from, m, Window) : Spread(i, r, y) # {}}},
             iv_rv_percentile |-> IF Spread(i, r, m) = {} THEN {}
                              ELSE UNION {Spread(i, r, x) : x \in {y \in ClosedTrailing(from, m, Window) : Spread(i, r, y) # {}}}]
<1>1. keys \subseteq Months /\ \A m \in Minutes : Month(m) \in Months
  BY KeysAreMonths DEF Months
<1>2. /\ DOMAIN I(keys) = InKeys(DOMAIN I(Months), k) /\ DOMAIN I(Months) \subseteq Minutes
      /\ \A m \in DOMAIN I(keys) : I(keys)[m] = I(Months)[m]
  <2>1. /\ DOMAIN I(keys) = {m \in Minutes : Month(m) \in keys /\ m \in DOMAIN iv[Month(m)]}
        /\ \A m \in DOMAIN I(keys) : I(keys)[m] = iv[Month(m)][m]
        /\ DOMAIN I(Months) = {m \in Minutes : Month(m) \in Months /\ m \in DOMAIN iv[Month(m)]}
        /\ \A m \in DOMAIN I(Months) : I(Months)[m] = iv[Month(m)][m]
    <3> HIDE DEF keys
    <3> QED BY <1>1, MergedAt
  <2> HIDE DEF I
  <2> QED BY <1>1, <2>1 DEF InKeys
<1>3. /\ DOMAIN R(keys) = InKeys(DOMAIN R(Months), k) /\ DOMAIN R(Months) \subseteq Minutes
      /\ \A m \in DOMAIN R(keys) : R(keys)[m] = R(Months)[m]
  <2>1. /\ DOMAIN R(keys) = {m \in Minutes : Month(m) \in keys /\ m \in DOMAIN rv[Month(m)]}
        /\ \A m \in DOMAIN R(keys) : R(keys)[m] = rv[Month(m)][m]
        /\ DOMAIN R(Months) = {m \in Minutes : Month(m) \in Months /\ m \in DOMAIN rv[Month(m)]}
        /\ \A m \in DOMAIN R(Months) : R(Months)[m] = rv[Month(m)][m]
    <3> HIDE DEF keys
    <3> QED BY <1>1, MergedAt
  <2> HIDE DEF R
  <2> QED BY <1>1, <2>1 DEF InKeys
<1>4. IvRvMonth(frames, k, keys) = [m \in ms(keys) \cap MinutesOf(k) |-> row(I(keys), R(keys), ms(keys), m)]
  <2> HIDE DEF keys
  <2> QED BY DEF IvRvMonth, Trim, Restrict, IvRvFrame
<1>5. IvRvMonth(frames, k, Months) = [m \in ms(Months) \cap MinutesOf(k) |-> row(I(Months), R(Months), ms(Months), m)]
  BY DEF IvRvMonth, Trim, Restrict, IvRvFrame
<1> HIDE DEF I, R, keys
<1>6. ms(keys) = InKeys(ms(Months), k) /\ ms(Months) \subseteq Minutes
  BY <1>2, <1>3 DEF InKeys
<1>7. \A x : Month(x) \in keys => Spread(I(keys), R(keys), x) = Spread(I(Months), R(Months), x)
  BY <1>2, <1>3 DEF Spread, InKeys, keys
<1> HIDE DEF ms
<1>8. ms(keys) \cap MinutesOf(k) = ms(Months) \cap MinutesOf(k)
  BY <1>6, KeysAreMonths DEF InKeys, MinutesOf
<1>9. ASSUME NEW m \in ms(Months) \cap MinutesOf(k)
      PROVE  row(I(keys), R(keys), ms(keys), m) = row(I(Months), R(Months), ms(Months), m)
  <2>1. /\ Trailing(ms(keys), m, Window) = Trailing(ms(Months), m, Window)
        /\ ClosedTrailing(ms(keys), m, Window) = ClosedTrailing(ms(Months), m, Window)
        /\ \A x \in Trailing(ms(Months), m, Window) \cup ClosedTrailing(ms(Months), m, Window) \cup {m} : Month(x) \in keys
    <3>1. m \in MinutesOf(k) /\ Month(m) \in keys
      BY KeysAreMonths DEF MinutesOf, keys
    <3>2. /\ Trailing(InKeys(ms(Months), k), m, Window) = Trailing(ms(Months), m, Window)
          /\ ClosedTrailing(InKeys(ms(Months), k), m, Window) = ClosedTrailing(ms(Months), m, Window)
          /\ Trailing(ms(Months), m, Window) \cup ClosedTrailing(ms(Months), m, Window) \subseteq InKeys(ms(Months), k)
      BY <1>6, <3>1, SameWindows
    <3>3. \A x \in InKeys(ms(Months), k) : Month(x) \in keys
      BY DEF InKeys, keys
    <3> QED BY <1>6, <3>1, <3>2, <3>3
  <2> DEFINE of(i, r, set) == UNION {Spread(i, r, x) : x \in {y \in set : Spread(i, r, y) # {}}}
  <2>2. \A set : (\A x \in set : Month(x) \in keys) => of(I(keys), R(keys), set) = of(I(Months), R(Months), set)
    BY <1>7
  <2>3. /\ of(I(keys), R(keys), Trailing(ms(keys), m, Window)) = of(I(Months), R(Months), Trailing(ms(Months), m, Window))
        /\ of(I(keys), R(keys), ClosedTrailing(ms(keys), m, Window))
            = of(I(Months), R(Months), ClosedTrailing(ms(Months), m, Window))
    <3> HIDE DEF of
    <3> QED BY <2>1, <2>2
  <2>4. Spread(I(keys), R(keys), m) = Spread(I(Months), R(Months), m)
    BY <1>7, <2>1
  <2> QED BY <2>3, <2>4
<1> HIDE DEF row
<1> QED BY <1>4, <1>5, <1>8, <1>9 DEF keys

-----------------------------------------------------------------------------
(* The frames of Silver.                                                   *)

\* The market is that of the scenario, and the rolling features stay in their months.
FramesFit ==
    /\ scenario \in Scenarios /\ market \subseteq RowsOf(scenario)
    /\ \A d \in {"volatility_index_1m_feature", "realized_volatility_1m_feature"} \cap SilverIds :
        Partitioned(silver.frame[d])

\* Only the two steps of a Silver build replace Silver, and only arrivals add to the market.
LEMMA WhatChanges ==
    ASSUME [Next]_vars
    PROVE  /\ silver' = silver \/ \E p \in Processes : SilverPublish(p) \/ SilverDerive(p)
           /\ market' = market \/ \E r \in scenario.later : Arrive(r)
           /\ scenario' = scenario
<1>1. CASE UNCHANGED vars
  BY <1>1 DEF vars, layers, bounds
<1>2. ASSUME NEW r \in scenario.later, Arrive(r) PROVE silver' = silver /\ scenario' = scenario
  BY <1>2 DEF Arrive
<1>3. ASSUME NEW p \in Pipelines, StartPipeline(p) \/ Fail(p) PROVE UNCHANGED <<silver, market, scenario>>
  BY <1>3 DEF StartPipeline, Fail, layers, bounds
<1>4. ASSUME NEW h \in ByHand, StartByHand(h) PROVE UNCHANGED <<silver, market, scenario>>
  BY <1>4 DEF StartByHand, layers
<1>5. ASSUME NEW p \in Processes, Bronze(p) \/ SilverRead(p) \/ GoldRead(p)
      PROVE  UNCHANGED <<silver, market, scenario>>
  BY <1>5 DEF Bronze, SilverRead, GoldRead, layers, bounds
<1>6. ASSUME NEW p \in Processes, GoldPublish(p) \/ GoldFanOut(p) \/ Sync(p)
      PROVE  UNCHANGED <<silver, market, scenario>>
  BY <1>6 DEF GoldPublish, GoldFanOut, Sync, bounds
<1>7. ASSUME NEW p \in Processes, SilverPublish(p) \/ SilverDerive(p) PROVE UNCHANGED <<market, scenario>>
  BY <1>7 DEF SilverPublish, SilverDerive, bounds
<1> QED BY <1>1, <1>2, <1>3, <1>4, <1>5, <1>6, <1>7 DEF Next, Step

\* What a Silver build publishes of a dataset, and what it leaves.
LEMMA Published ==
    ASSUME NEW p \in Processes, SilverPublish(p), NEW d \in SilverIds, NEW k \in Months
    PROVE  /\ silver'.rows = seen[p].rows
           /\ silver'.frame[d][k] =
                IF d \in seen[p].frame \ DerivedDatasets THEN SourceMonth(d, silver'.rows, k, CalculationKeys(k))
                ELSE silver.frame[d][k]
BY DEF SilverPublish, Content

LEMMA DerivedFrom ==
    ASSUME IInv, NEW p \in Processes, SilverDerive(p), NEW d \in SilverIds, NEW k \in Months
    PROVE  /\ silver'.rows = silver.rows
           /\ silver'.frame[d][k] =
                IF d \in seen[p].frame \cap DerivedDatasets THEN DerivedMonth(d, silver.frame, k, CalculationKeys(k))
                ELSE silver.frame[d][k]
BY DEF SilverDerive, IInv, Formed, Content

LEMMA SourceMonths ==
    ASSUME NEW b, NEW k, NEW keys
    PROVE  /\ SourceMonth("volatility_index_1m_feature", b, k, keys) = IvMonth(b, k, keys)
           /\ SourceMonth("realized_volatility_1m_feature", b, k, keys) = RvMonth(b, k, keys)
           /\ DOMAIN IvMonth(b, k, keys) \subseteq MinutesOf(k) /\ DOMAIN RvMonth(b, k, keys) \subseteq MinutesOf(k)
<1>1. /\ SourceMonth("volatility_index_1m_feature", b, k, keys) = IvMonth(b, k, keys)
      /\ SourceMonth("realized_volatility_1m_feature", b, k, keys) = RvMonth(b, k, keys)
  BY DEF SourceMonth
<1>2. DOMAIN IvMonth(b, k, keys) \subseteq MinutesOf(k) /\ DOMAIN RvMonth(b, k, keys) \subseteq MinutesOf(k)
  BY DEF IvMonth, RvMonth, Trim, Restrict
<1> QED BY <1>1, <1>2

LEMMA InitFramesFit == Init => FramesFit
BY DEF Init, FramesFit, RowsOf, NoSilver, Content, Partitioned, NoFrame

LEMMA FramesFitNext == IInv /\ FramesFit /\ [Next]_vars => FramesFit'
<1> SUFFICES ASSUME IInv, FramesFit, [Next]_vars PROVE FramesFit'
  OBVIOUS
<1>1. scenario' = scenario
  BY WhatChanges
<1>2. market' \subseteq RowsOf(scenario)
  <2>1. \A r \in scenario.later : Arrive(r) => market' = market \cup {r}
    BY DEF Arrive
  <2>2. market \subseteq RowsOf(scenario)
    BY DEF FramesFit
  <2>3. CASE market' = market
    BY <2>2, <2>3
  <2>4. ASSUME NEW r \in scenario.later, Arrive(r)
        PROVE  market' \subseteq RowsOf(scenario)
    BY <2>1, <2>2, <2>4 DEF RowsOf
  <2> QED BY <2>3, <2>4, WhatChanges
<1>3. ASSUME NEW d \in {"volatility_index_1m_feature", "realized_volatility_1m_feature"} \cap SilverIds, NEW j \in Months
      PROVE  DOMAIN silver'.frame[d][j] \subseteq MinutesOf(j)
  <2>1. DOMAIN silver.frame[d][j] \subseteq MinutesOf(j)
    BY DEF FramesFit, Partitioned
  <2>2. ASSUME NEW p \in Processes, SilverPublish(p) PROVE DOMAIN silver'.frame[d][j] \subseteq MinutesOf(j)
    BY <2>1, <2>2, Published, SourceMonths
  <2>3. ASSUME NEW p \in Processes, SilverDerive(p) PROVE DOMAIN silver'.frame[d][j] \subseteq MinutesOf(j)
    BY <2>1, <2>3, DerivedFrom DEF DerivedDatasets
  <2> QED BY <2>1, <2>2, <2>3, WhatChanges
<1> QED BY <1>1, <1>2, <1>3 DEF FramesFit, Partitioned

LEMMA FramesStayFit == Spec => [](IInv /\ FramesFit)
BY InitIInv, IInvNext, InitFramesFit, FramesFitNext, PTL DEF Spec

-----------------------------------------------------------------------------
(* Rows of a minute grid, and minutes.                                     *)

USE GoldFramesAssumption

\* The instants of the minutes from a to b.
Grid(a, b) == {Start(m) : m \in a..b}

\* Minutes begin apart and in order.
LEMMA StartsApart ==
    ASSUME NEW m \in Int, NEW n \in Int
    PROVE  /\ Start(m) \in Int /\ Minute(Start(m)) = m
           /\ m < n <=> Start(m) < Start(n)
           /\ m <= n <=> Start(m) <= Start(n)
<1>1. Start(m) \in Int /\ Start(n) \in Int
  BY DEF Start
<1>2. m < n => Start(m) < Start(n)
  BY Multiples DEF Start
<1>3. n < m => Start(n) < Start(m)
  BY Multiples DEF Start
<1>4. Minute(Start(m)) = m
  <2> DEFINE q == Start(m) \div Ticks
  <2>1. q \in Int /\ q * Ticks <= m * Ticks /\ m * Ticks < q * Ticks + Ticks
    BY <1>1, Quotient DEF Start
  <2>2. q \in Int
    BY <2>1
  <2> HIDE DEF q
  <2>3. ASSUME q < m PROVE FALSE
    <3>1. q * Ticks + Ticks <= m * Ticks
      BY <2>2, <2>3, Multiples
    <3> QED BY <2>1, <3>1, <2>2
  <2>4. ASSUME m < q PROVE FALSE
    <3>1. m * Ticks + Ticks <= q * Ticks
      BY <2>2, <2>4, Multiples
    <3> QED BY <2>1, <3>1, <2>2
  <2>5. q = m
    BY <2>2, <2>3, <2>4
  <2> QED BY <2>5 DEF q, Minute
<1> QED BY <1>1, <1>2, <1>3, <1>4

\* n rows ahead is n minutes ahead, or there is no such row.
LEMMA AheadOnGrid ==
    ASSUME NEW a \in Int, NEW b \in Int, NEW m \in a..b, NEW n \in Nat \ {0},
           NEW frame, DOMAIN frame = Grid(a, b)
    PROVE  RowsAhead(frame, Start(m), n) = {Start(m + n)} \cap Grid(a, b)
<1>1. ASSUME NEW j \in a..b, m < j
      PROVE  Cardinality({y \in Grid(a, b) : Start(m) < y /\ y <= Start(j)}) = j - m
  <2> DEFINE between == {y \in Grid(a, b) : Start(m) < y /\ y <= Start(j)}
             f == [i \in m + 1 .. j |-> Start(i)]
  <2>1. between = {Start(i) : i \in m + 1 .. j}
    <3>1. \A i \in a..b : Start(m) < Start(i) /\ Start(i) <= Start(j) <=> i \in m + 1 .. j
      <4> SUFFICES ASSUME NEW i \in a..b
                   PROVE  Start(m) < Start(i) /\ Start(i) <= Start(j) <=> i \in m + 1 .. j
        OBVIOUS
      <4>1. i \in Int /\ m \in Int /\ j \in Int
        OBVIOUS
      <4>2. (m < i <=> Start(m) < Start(i)) /\ (i <= j <=> Start(i) <= Start(j))
        BY <4>1, StartsApart
      <4> QED BY <4>1, <4>2
    <3>2. \A i \in m + 1 .. j : i \in a..b
      BY <1>1
    <3> QED BY <3>1, <3>2 DEF Grid
  <2>2. \A x, y \in m + 1 .. j : Start(x) = Start(y) => x = y
    <3> SUFFICES ASSUME NEW x \in m + 1 .. j, NEW y \in m + 1 .. j, Start(x) = Start(y) PROVE x = y
      OBVIOUS
    <3>1. Minute(Start(x)) = x /\ Minute(Start(y)) = y
      BY StartsApart
    <3> QED BY <3>1
  <2>3. f \in Injection(m + 1 .. j, between) /\ f \in Surjection(m + 1 .. j, between)
    <3> HIDE DEF between
    <3> QED BY <2>1, <2>2 DEF Injection, IsInjective, Surjection
  <2>4. IsFiniteSet(m + 1 .. j) /\ Cardinality(m + 1 .. j) = j - m
    <3>1. m + 1 \in Int /\ j \in Int /\ ~(m + 1 > j) /\ j - (m + 1) + 1 = j - m
      BY <1>1
    <3> QED BY <3>1, FS_Interval
  <2>5. Cardinality(between) = j - m
    <3> HIDE DEF between, f
    <3> QED BY <2>3, <2>4, FS_Surjection
  <2> QED BY <2>5
<1>2. ASSUME NEW j \in a..b
      PROVE  Start(j) \in RowsAhead(frame, Start(m), n) <=> j = m + n
  <2>1. j \in Int /\ m \in Int /\ (m < j <=> Start(m) < Start(j)) /\ Start(j) \in Grid(a, b)
    BY StartsApart DEF Grid
  <2>2. CASE m < j
    <3>1. Start(j) > Start(m) /\ Cardinality({y \in Grid(a, b) : Start(m) < y /\ y <= Start(j)}) = j - m
      BY <1>1, <2>1, <2>2, StartsApart
    <3>2. Start(j) \in RowsAhead(frame, Start(m), n) <=> j - m = n
      BY <2>1, <3>1 DEF RowsAhead
    <3> QED BY <2>1, <3>2
  <2>3. CASE ~(m < j)
    <3>1. ~(Start(j) > Start(m))
      BY <2>1, <2>3, StartsApart
    <3> QED BY <2>1, <2>3, <3>1 DEF RowsAhead
  <2> QED BY <2>2, <2>3
<1>3. RowsAhead(frame, Start(m), n) \subseteq Grid(a, b)
  BY DEF RowsAhead
<1>4. \A x \in Grid(a, b) : x \in RowsAhead(frame, Start(m), n) <=> x = Start(m + n)
  <2> SUFFICES ASSUME NEW j \in a..b
               PROVE  Start(j) \in RowsAhead(frame, Start(m), n) <=> Start(j) = Start(m + n)
    BY DEF Grid
  <2>1. Minute(Start(j)) = j /\ Minute(Start(m + n)) = m + n
    BY StartsApart
  <2>2. j = m + n <=> Start(j) = Start(m + n)
    BY <2>1
  <2> QED BY <1>2, <2>2
<1> QED BY <1>3, <1>4

\* A grid over instants that are minutes is made of the minutes from the first to the last.
LEMMA GridOfMinutes ==
    ASSUME NEW M, M \subseteq Minutes, M # {}
    PROVE  \E a, b \in Int : MinuteGrid({Start(m) : m \in M}) = Grid(a, b) /\ M \subseteq a..b
<1>1. M \subseteq Int /\ IsFiniteSet(M)
  <2>1. LastMinute \in Int /\ 0 \in Int
    OBVIOUS
  <2>2. IsFiniteSet(0..LastMinute)
    BY <2>1, FS_Interval
  <2>3. IsFiniteSet(Minutes) /\ Minutes \subseteq Int
    BY <2>2 DEF Minutes
  <2> QED BY <2>3, FS_Subset
<1>2. PICK a \in M : \A y \in M : a <= y
  BY <1>1, LeastInteger
<1>3. PICK b \in M : \A y \in M : y <= b
  BY <1>1, GreatestInteger
<1> DEFINE S == {Start(m) : m \in M}
<1>4. a \in Int /\ b \in Int /\ M \subseteq a..b /\ b - a \in Nat
  BY <1>1, <1>2, <1>3
<1>5. Min(S) = Start(a) /\ Max(S) = Start(b)
  <2>1. \A y \in S : y \in Int /\ Start(a) <= y /\ y <= Start(b)
    <3> SUFFICES ASSUME NEW m \in M PROVE Start(m) \in Int /\ Start(a) <= Start(m) /\ Start(m) <= Start(b)
      OBVIOUS
    <3> QED BY <1>1, <1>2, <1>3, StartsApart
  <2>2. Start(a) \in S /\ Start(b) \in S
    OBVIOUS
  <2> HIDE DEF S
  <2>3. Min(S) \in S /\ \A y \in S : Min(S) <= y
    BY <2>1, <2>2 DEF Min
  <2>4. Max(S) \in S /\ \A y \in S : Max(S) >= y
    BY <2>1, <2>2 DEF Max
  <2>5. Min(S) \in Int /\ Max(S) \in Int /\ Min(S) <= Start(a) /\ Max(S) >= Start(b)
    BY <2>1, <2>2, <2>3, <2>4
  <2> QED BY <2>1, <2>2, <2>3, <2>4, <2>5
<1>6. \A i \in Int : Start(a) + i * Ticks = Start(a + i)
  BY <1>4 DEF Start
<1>7. (Start(b) - Start(a)) \div Ticks = b - a
  <2>1. Start(a) + (b - a) * Ticks = Start(b)
    BY <1>4, <1>6
  <2>2. (b - a) * Ticks \in Int /\ Start(a) \in Int
    BY <1>4 DEF Start
  <2>3. Start(b) - Start(a) = Start(b - a)
    BY <2>1, <2>2 DEF Start
  <2> QED BY <1>4, <2>3, StartsApart DEF Minute
<1>8. MinuteGrid(S) = Grid(a, b)
  <2>1. MinuteGrid(S) = {Start(a) + i * Ticks : i \in 0..(b - a)}
    BY <1>5, <1>7 DEF MinuteGrid
  <2>2. \A i \in 0..(b - a) : Start(a) + i * Ticks = Start(a + i) /\ a + i \in a..b
    BY <1>4, <1>6
  <2>3. \A m \in a..b : m - a \in 0..(b - a) /\ Start(m) = Start(a) + (m - a) * Ticks
    BY <1>4, <1>6
  <2> QED BY <2>1, <2>2, <2>3 DEF Grid
<1> QED BY <1>4, <1>8

-----------------------------------------------------------------------------
(* Targets.                                                                *)

TargetsId == "gold.market.prediction_targets.m1"
Candle(rows, t) == {r \in Over(rows, "perps_ohlcv", Months) : r.t = t}

\* The joined rows are the minutes of a grid, have the prices of their minutes, and there
\* are no prices elsewhere.
PricesStand(c) ==
    /\ \E a, b \in Int : DOMAIN c.frame = Grid(a, b)
    /\ \A t \in DOMAIN c.frame : Price(c.frame)[t] = Candle(c.rows, t)
    /\ \A r \in Over(c.rows, "perps_ohlcv", Months) : r.t \in DOMAIN c.frame

\* What TargetsAreTheFuture says of the targets.
TargetsAhead(rows, target) ==
    \A t \in DOMAIN target :
        LET then == t + Horizon * Ticks IN
        /\ target[t].forward_return = Both(Candle(rows, t), Candle(rows, then))
        /\ target[t].drawdown =
            IF then \notin DOMAIN target THEN {}
            ELSE Both(Candle(rows, t), UNION {Candle(rows, x) : x \in t + 1..then})

\* Targets of rows that stand a minute apart are about the time they are named for.
LEMMA TargetsOfGrid ==
    ASSUME NEW c, PricesStand(c)
    PROVE  TargetsAhead(c.rows, Targets(c.frame))
<1> DEFINE J == c.frame
           price == Price(J)
           at(t) == Candle(c.rows, t)
<1>1. PICK a \in Int, b \in Int : DOMAIN J = Grid(a, b)
  BY DEF PricesStand
<1>2. DOMAIN Targets(J) = DOMAIN J
  BY DEF Targets
<1> DEFINE Good(x) ==
             /\ Targets(J)[x].forward_return = Both(at(x), at(x + Horizon * Ticks))
             /\ Targets(J)[x].drawdown =
                IF x + Horizon * Ticks \notin DOMAIN J THEN {}
                ELSE Both(at(x), UNION {at(y) : y \in x + 1..x + Horizon * Ticks})
<1> SUFFICES ASSUME NEW m \in a..b PROVE Good(Start(m))
  <2>1. (\A x \in DOMAIN J : Good(x)) => TargetsAhead(c.rows, Targets(J))
    BY <1>2 DEF TargetsAhead
  <2>2. \A x \in DOMAIN J : \E n \in a..b : x = Start(n)
    BY <1>1 DEF Grid
  <2> HIDE DEF Good
  <2> QED BY <2>1, <2>2
<1> DEFINE t == Start(m)
           then == t + Horizon * Ticks
           ahead == RowsAhead(price, t, Horizon)
           between == UNION {{x \in DOMAIN J : t < x /\ x <= y} : y \in RowsAhead(J, t, Horizon)}
<1>3. t \in DOMAIN J /\ t \in Int
  BY <1>1, StartsApart DEF Grid
<1>4. then = Start(m + Horizon) /\ then \in Int
  BY DEF Start
<1>5. RowsAhead(J, t, Horizon) = {then} \cap DOMAIN J
  <2>1. RowsAhead(J, Start(m), Horizon) = {Start(m + Horizon)} \cap Grid(a, b)
    BY <1>1, AheadOnGrid
  <2> HIDE DEF J, then
  <2> QED BY <1>1, <1>4, <2>1
<1>6. \A x \in DOMAIN J : price[x] = at(x)
  BY DEF PricesStand
<1>7. \A x : x \notin DOMAIN J => at(x) = {}
  BY DEF PricesStand, Candle
<1>8. /\ Targets(J)[t].forward_return = Both(price[t], AtAny(price, RowsAhead(J, t, Horizon)))
      /\ Targets(J)[t].drawdown = Both(price[t], AtAny(price, between))
  BY <1>3 DEF Targets
<1>9. DOMAIN J \subseteq Int
  BY <1>1, StartsApart DEF Grid
<1> HIDE DEF J, at, price, t, then, between
<1>10. AtAny(price, RowsAhead(J, t, Horizon)) = at(then)
  BY <1>5, <1>6, <1>7 DEF AtAny
<1>11. CASE then \notin DOMAIN J
  <2>1. between = {}
    BY <1>5, <1>11 DEF between
  <2>2. Both(price[t], AtAny(price, between)) = {}
    BY <2>1 DEF AtAny, Both
  <2> QED BY <1>3, <1>6, <1>8, <1>10, <1>11, <2>2 DEF J, at, price, t, then
<1>12. CASE then \in DOMAIN J
  <2>1. between = {x \in DOMAIN J : t < x /\ x <= then}
    BY <1>5, <1>12 DEF between
  <2>2. \A x \in Int : x \in t + 1..then <=> t < x /\ x <= then
    BY <1>3, <1>4
  <2>3. AtAny(price, between) = UNION {at(x) : x \in t + 1..then}
    <3>1. AtAny(price, between) = UNION {at(x) : x \in between}
      BY <1>6, <2>1 DEF AtAny
    <3>2. between \subseteq t + 1..then /\ \A x \in t + 1..then : x \in between \/ at(x) = {}
      BY <1>7, <1>9, <2>1, <2>2
    <3> QED BY <3>1, <3>2
  <2> QED BY <1>3, <1>6, <1>8, <1>10, <1>12, <2>3 DEF J, at, price, t, then
<1> QED BY <1>11, <1>12

\* The Silver candles of perpetuals, month by month.
CandlesOf(rows, k) ==
    LET kept == ObservedMonth(rows, "perps_ohlcv", k)
    IN [m \in {Minute(r.t) : r \in kept} |-> [perps |-> {r \in kept : Minute(r.t) = m}]]

TargetsSources == {"perps_ohlcv", "funding_1m_feature", "realized_volatility_1m_feature", "iv_rv_1m_feature"}

LEMMA SourcesOfTargets ==
    ASSUME NEW b, NEW k, NEW keys
    PROVE  /\ SourceMonth("perps_ohlcv", b, k, keys) = CandlesOf(b, k)
           /\ DOMAIN SourceMonth("funding_1m_feature", b, k, keys) \subseteq Minutes
           /\ DOMAIN SourceMonth("realized_volatility_1m_feature", b, k, keys) \subseteq Minutes
<1>1. SourceMonth("perps_ohlcv", b, k, keys) = CandlesOf(b, k)
  <2>1. SourceMonth("perps_ohlcv", b, k, keys) = CandleFrame(ObservedMonth(b, "perps_ohlcv", k), PerpsRow)
    BY DEF SourceMonth
  <2> QED BY <2>1 DEF CandleFrame, PerpsRow, CandlesOf
<1>2. DOMAIN SourceMonth("funding_1m_feature", b, k, keys) \subseteq Minutes
  <2>1. SourceMonth("funding_1m_feature", b, k, keys) = FundingFeature(ObservedMonth(b, "funding", k), k)
    BY DEF SourceMonth
  <2> QED BY <2>1 DEF FundingFeature, ObservedGrid, NoFrame
<1>3. DOMAIN SourceMonth("realized_volatility_1m_feature", b, k, keys) \subseteq Minutes
  BY SourceMonths DEF MinutesOf
<1> QED BY <1>1, <1>2, <1>3

\* What targets are built from is read minute by minute.
LEMMA TargetsInputs ==
    ASSUME NEW s
    PROVE  /\ Required(TargetsId) = TargetsSources /\ Optional(TargetsId) = {}
           /\ TargetsSources \ LineageOnly = TargetsSources
           /\ \A d \in TargetsSources : Prepared(d, s) = MinuteInput(ReadDataset(s, d))
<1>1. Required(TargetsId) = TargetsSources /\ Optional(TargetsId) = {}
  BY DEF Required, Optional, TargetsId, TargetsSources, Volatilities
<1>2. TargetsSources \ LineageOnly = TargetsSources
  BY DEF TargetsSources, LineageOnly
<1>3. ASSUME NEW d \in TargetsSources PROVE Prepared(d, s) = MinuteInput(ReadDataset(s, d))
  <2>1. /\ d \notin {"futures_summary_1m_feature", "perps_l2_1m_feature"} /\ d # "options_l2_1m_feature"
        /\ d \notin ContractSnapshots /\ d \notin MarketSnapshots /\ d \notin LineageOnly
    BY DEF TargetsSources, ContractSnapshots, MarketSnapshots, LineageOnly
  <2> QED BY <2>1 DEF Prepared
<1> QED BY <1>1, <1>2, <1>3

\* The joined rows of targets stand a minute apart, and each has the price of its minute.
LEMMA TargetsJoin ==
    ASSUME NEW s, NEW rows, TargetsSources \subseteq DOMAIN s,
           \A d \in TargetsSources : \A k \in Months : DOMAIN s[d][k] \subseteq Minutes,
           \A k \in Months : s["perps_ohlcv"][k] = CandlesOf(rows, k),
           \A d \in TargetsSources : HasData(s, d),
           \A r \in rows : /\ r.t \in Nat /\ Minute(r.t) \in Minutes
                           /\ r.src = "perps_ohlcv" => r.t = Start(Minute(r.t))
    PROVE  PricesStand(Content(rows, Joined(TargetsId, s)))
<1> DEFINE read(d) == ReadDataset(s, d)
           perps == "perps_ohlcv"
           M == UNION {DOMAIN read(d) : d \in TargetsSources}
           kept == Over(rows, perps, Months)
           at(m) == {r \in kept : Minute(r.t) = m}
           input == [d \in TargetsSources |-> MinuteInput(read(d))]
<1>1. \A d \in TargetsSources : DOMAIN read(d) = UNION {DOMAIN s[d][k] : k \in Months}
  BY DEF ReadDataset, Merged
<1>2. perps \in TargetsSources
  BY DEF TargetsSources
<1>3. \A d \in TargetsSources : DOMAIN read(d) \subseteq Minutes
  <2> HIDE DEF read
  <2> SUFFICES ASSUME NEW d \in TargetsSources PROVE DOMAIN read(d) \subseteq Minutes
    OBVIOUS
  <2>1. DOMAIN read(d) = UNION {DOMAIN s[d][k] : k \in Months}
    BY <1>1
  <2>2. \A k \in Months : DOMAIN s[d][k] \subseteq Minutes
    OBVIOUS
  <2> QED BY <2>1, <2>2
<1>4. \A k \in Months : DOMAIN s[perps][k] = {Minute(r.t) : r \in ObservedMonth(rows, perps, k)}
  <2>1. \A k \in Months : DOMAIN CandlesOf(rows, k) = {Minute(r.t) : r \in ObservedMonth(rows, perps, k)}
    BY DEF CandlesOf
  <2> QED BY <2>1
<1>5. M \subseteq Minutes /\ M # {}
  <2>1. M \subseteq Minutes
    <3> HIDE DEF read
    <3> QED BY <1>3
  <2>2. PICK k \in Months : DOMAIN s[perps][k] # {}
    BY <1>2 DEF HasData
  <2>3. DOMAIN read(perps) # {}
    <3>1. DOMAIN read(perps) = UNION {DOMAIN s[perps][j] : j \in Months}
      <4> HIDE DEF read
      <4> QED BY <1>1, <1>2
    <3> HIDE DEF read
    <3> QED BY <2>2, <3>1
  <2> QED BY <1>2, <2>1, <2>3
<1>6. Partitioned(s[perps])
  <2>1. \A k \in Months : \A r \in ObservedMonth(rows, perps, k) : Minute(r.t) \in MinutesOf(k)
    BY ObservedInMonth DEF MinutesOf
  <2> QED BY <1>4, <2>1 DEF Partitioned
<1>7. \A m \in Minutes : m \in DOMAIN read(perps) <=> at(m) # {}
  <2>1. \A m \in Minutes : Month(m) \in Months
    BY DEF Months
  <2>2. \A m : m \in DOMAIN read(perps) <=> m \in Minutes /\ m \in DOMAIN s[perps][Month(m)]
    <3>1. DOMAIN read(perps) = {m \in Minutes : Month(m) \in Months /\ m \in DOMAIN s[perps][Month(m)]}
      BY <1>6, MergedAt DEF ReadDataset
    <3> QED BY <2>1, <3>1
  <2>3. \A k \in Months : \A m : m \in DOMAIN s[perps][k] <=> \E r \in ObservedMonth(rows, perps, k) : Minute(r.t) = m
    BY <1>4
  <2>4. \A m \in Minutes : (\E r \in ObservedMonth(rows, perps, Month(m)) : Minute(r.t) = m) <=> at(m) # {}
    BY <2>1, ObservedInMonth DEF Over
  <2> QED BY <2>1, <2>2, <2>3, <2>4
<1>8. \A m \in DOMAIN read(perps) : read(perps)[m] = [perps |-> at(m)]
  <2> SUFFICES ASSUME NEW m \in DOMAIN read(perps) PROVE read(perps)[m] = [perps |-> at(m)]
    OBVIOUS
  <2>1. m \in Minutes /\ Month(m) \in Months /\ m \in DOMAIN s[perps][Month(m)] /\ read(perps)[m] = s[perps][Month(m)][m]
    <3> DEFINE all == Merged({s[perps][j] : j \in Months})
    <3>1. /\ DOMAIN all = {n \in Minutes : Month(n) \in Months /\ n \in DOMAIN s[perps][Month(n)]}
          /\ \A n \in DOMAIN all : all[n] = s[perps][Month(n)][n]
      BY <1>6, MergedAt
    <3>2. read(perps) = all
      BY DEF ReadDataset
    <3> HIDE DEF all, read
    <3> QED BY <3>1, <3>2
  <2>2. s[perps][Month(m)][m] = [perps |-> {r \in ObservedMonth(rows, perps, Month(m)) : Minute(r.t) = m}]
    BY <2>1 DEF CandlesOf
  <2>3. {r \in ObservedMonth(rows, perps, Month(m)) : Minute(r.t) = m} = at(m)
    BY <2>1, ObservedInMonth DEF Over
  <2> QED BY <2>1, <2>2, <2>3
<1>9. \A d \in TargetsSources : DOMAIN input[d] = {Start(m) : m \in DOMAIN read(d)}
  <2> HIDE DEF read
  <2> QED BY DEF MinuteInput
<1>10. UNION {DOMAIN input[d] : d \in TargetsSources} = {Start(m) : m \in M}
  <2> HIDE DEF read, input
  <2> QED BY <1>9
<1>11. PICK a \in Int, b \in Int : MinuteGrid({Start(m) : m \in M}) = Grid(a, b) /\ M \subseteq a..b
  <2> HIDE DEF M
  <2> QED BY <1>5, GridOfMinutes
<1> DEFINE row(d, t) == IF t \in DOMAIN input[d] THEN input[d][t] ELSE EmptyRow
           joined == [t \in Grid(a, b) |->
                        [c \in UNION {{d} \X DOMAIN row(d, t) : d \in TargetsSources} |-> row(c[1], t)[c[2]]]]
<1>12. Joined(TargetsId, s) = joined
  <2> DEFINE prepared == [d \in (Required(TargetsId) \cup Optional(TargetsId)) \cap DOMAIN s |-> Prepared(d, s)]
             instants(in, D) == UNION {DOMAIN in[d] : d \in D}
             rowOf(in, d, t) == IF t \in DOMAIN in[d] THEN in[d][t] ELSE EmptyRow
             joins(in, grid) ==
                [t \in grid |->
                    [c \in UNION {{d} \X DOMAIN rowOf(in, d, t) : d \in DOMAIN in} |-> rowOf(in, c[1], t)[c[2]]]]
  <2>1. /\ (Required(TargetsId) \cup Optional(TargetsId)) \cap DOMAIN s = TargetsSources
        /\ Required(TargetsId) \ LineageOnly = TargetsSources
    BY TargetsInputs
  <2>2. prepared = input
    <3>1. \A d \in TargetsSources : Prepared(d, s) = MinuteInput(read(d))
      BY TargetsInputs
    <3> HIDE DEF read
    <3> QED BY <2>1, <3>1
  <2>3. MinuteGrid(instants(input, TargetsSources)) = Grid(a, b)
    <3>1. instants(input, TargetsSources) = {Start(m) : m \in M}
      BY <1>10
    <3> HIDE DEF instants
    <3> QED BY <1>11, <3>1
  <2>4. DOMAIN input = TargetsSources
    OBVIOUS
  <2>5. Joined(TargetsId, s) = joins(prepared, MinuteGrid(instants(prepared, Required(TargetsId) \ LineageOnly)))
    BY DEF Joined
  <2>6. Joined(TargetsId, s) = joins(input, Grid(a, b))
    <3> HIDE DEF joins, instants, prepared, input
    <3> QED BY <2>1, <2>2, <2>3, <2>5
  <2>7. joins(input, Grid(a, b)) = joined
    <3> HIDE DEF input
    <3> QED BY <2>4
  <2> QED BY <2>6, <2>7
<1>13. \A t \in Grid(a, b) : Price(joined)[t] = IF t \in DOMAIN input[perps] THEN input[perps][t].perps ELSE {}
  <2> SUFFICES ASSUME NEW t \in Grid(a, b)
               PROVE  Price(joined)[t] = IF t \in DOMAIN input[perps] THEN input[perps][t].perps ELSE {}
    OBVIOUS
  <2> DEFINE column == <<perps, "perps">>
             columns == UNION {{d} \X DOMAIN row(d, t) : d \in TargetsSources}
  <2>1. joined[t] = [c \in columns |-> row(c[1], t)[c[2]]]
    OBVIOUS
  <2>2. Price(joined)[t] = Cell(joined[t], column)
    <3>1. t \in DOMAIN joined
      OBVIOUS
    <3> HIDE DEF joined
    <3> QED BY <3>1 DEF Price, Column
  <2>3. column \in columns <=> "perps" \in DOMAIN row(perps, t)
    <3> HIDE DEF row
    <3> QED BY <1>2
  <2>4. Cell(joined[t], column) = IF "perps" \in DOMAIN row(perps, t) THEN row(perps, t)["perps"] ELSE {}
    <3>1. column[1] = perps /\ column[2] = "perps"
      OBVIOUS
    <3> HIDE DEF columns, row, joined, column
    <3> QED BY <2>1, <2>3, <3>1 DEF Cell
  <2>5. CASE t \in DOMAIN input[perps]
    <3>1. PICK m \in DOMAIN read(perps) : t = Start(m)
      <4> HIDE DEF input, read
      <4> QED BY <1>2, <1>9, <2>5
    <3>2. m \in Int
      BY <1>2, <1>3, <3>1 DEF Minutes
    <3>3. input[perps][t] = read(perps)[m]
      <4>1. Minute(t) = m
        BY <3>1, <3>2, StartsApart
      <4> QED BY <1>2, <3>1, <4>1 DEF MinuteInput
    <3>4. "perps" \in DOMAIN row(perps, t) /\ row(perps, t) = input[perps][t]
      BY <1>8, <2>5, <3>3
    <3> HIDE DEF row, input
    <3> QED BY <2>2, <2>4, <2>5, <3>4
  <2>6. CASE t \notin DOMAIN input[perps]
    <3>1. "perps" \notin DOMAIN row(perps, t)
      BY <2>6 DEF EmptyRow
    <3> HIDE DEF row, input
    <3> QED BY <2>2, <2>4, <2>6, <3>1
  <2> QED BY <2>5, <2>6
<1>14. \A m \in a..b : Price(joined)[Start(m)] = at(m)
  <2> SUFFICES ASSUME NEW m \in a..b PROVE Price(joined)[Start(m)] = at(m)
    OBVIOUS
  <2>1. Start(m) \in Grid(a, b)
    BY DEF Grid
  <2>2. m \in Int /\ Minute(Start(m)) = m
    BY StartsApart
  <2>3. Start(m) \in DOMAIN input[perps] <=> m \in DOMAIN read(perps)
    <3>1. \A n \in DOMAIN read(perps) : Minute(Start(n)) = n
      BY <1>2, <1>3, StartsApart DEF Minutes
    <3> HIDE DEF input, read
    <3> QED BY <1>2, <1>9, <2>2, <3>1
  <2>4. CASE m \in DOMAIN read(perps)
    <3>1. input[perps][Start(m)] = read(perps)[m]
      BY <1>2, <2>2, <2>4 DEF MinuteInput
    <3>2. input[perps][Start(m)].perps = at(m)
      BY <1>8, <2>4, <3>1
    <3> HIDE DEF input, joined, at
    <3> QED BY <1>13, <2>1, <2>3, <2>4, <3>2
  <2>5. CASE m \notin DOMAIN read(perps)
    <3>1. at(m) = {}
      <4>1. \A r \in kept : Minute(r.t) \in Minutes
        BY OverRows
      <4> QED BY <1>7, <2>5, <4>1
    <3> HIDE DEF input, joined, at
    <3> QED BY <1>13, <2>1, <2>3, <2>5, <3>1
  <2> QED BY <2>4, <2>5
<1>15. \A r \in kept : r.t = Start(Minute(r.t)) /\ Minute(r.t) \in DOMAIN read(perps)
  <2> SUFFICES ASSUME NEW r \in kept PROVE r.t = Start(Minute(r.t)) /\ Minute(r.t) \in DOMAIN read(perps)
    OBVIOUS
  <2>1. r \in rows /\ r.src = perps
    BY OverRows
  <2> QED BY <1>7, <2>1
<1>16. \A m \in a..b : at(m) = Candle(rows, Start(m))
  <2> SUFFICES ASSUME NEW m \in a..b PROVE at(m) = Candle(rows, Start(m))
    OBVIOUS
  <2>1. Minute(Start(m)) = m
    BY StartsApart
  <2>2. \A r \in kept : Minute(r.t) = m <=> r.t = Start(m)
    BY <1>15, <2>1
  <2> QED BY <2>2 DEF Candle
<1>17. \A r \in kept : r.t \in Grid(a, b)
  BY <1>2, <1>11, <1>15 DEF Grid
<1> DEFINE c == Content(rows, joined)
<1>18. c.rows = rows /\ c.frame = joined /\ DOMAIN joined = Grid(a, b)
  BY DEF Content
<1>19. \A t \in Grid(a, b) : Price(joined)[t] = Candle(rows, t)
  <2> HIDE DEF joined, at
  <2> QED BY <1>14, <1>16 DEF Grid
<1>20. PricesStand(c)
  <2> HIDE DEF joined, c
  <2> QED BY <1>17, <1>18, <1>19 DEF PricesStand
<1> QED BY <1>12, <1>20

\* Silver holds the candles of its rows, a command that reads it for targets has their
\* prices, and the targets in Gold are about the time they are named for.
TargetsStand ==
    /\ "perps_ohlcv" \in SilverIds =>
        /\ \A k \in Months : silver.frame["perps_ohlcv"][k] = CandlesOf(silver.rows, k)
        /\ \A p \in Processes : pc[p] = "silver_publish" => "perps_ohlcv" \in seen[p].frame
    /\ \A d \in (TargetsSources \ {"perps_ohlcv"}) \cap SilverIds, k \in Months : DOMAIN silver.frame[d][k] \subseteq Minutes
    /\ \A p \in Processes : pc[p] = "gold_publish" /\ TargetsId \in DOMAIN seen[p] => PricesStand(seen[p][TargetsId])
    /\ TargetsId \in DOMAIN gold => TargetsAhead(gold[TargetsId].rows, gold[TargetsId].frame)

\* What a process is about to publish it has read in this step or had read before.
LEMMA WhatIsRead ==
    ASSUME IInv, [Next]_vars, NEW q \in Processes, NEW step \in {"silver_publish", "gold_publish"}, pc'[q] = step
    PROVE  \/ pc[q] = step /\ seen'[q] = seen[q]
           \/ step = "silver_publish" /\ SilverRead(q)
           \/ step = "gold_publish" /\ GoldRead(q)
<1> DEFINE Stays == pc[q] = step /\ seen'[q] = seen[q]
<1>1. ASSUME NEW p \in Processes, NEW to, to # step, Moves(p, to), \A x \in Processes : x # p => seen'[x] = seen[x]
      PROVE  Stays
  BY <1>1 DEF Moves
<1>2. CASE UNCHANGED vars
  BY <1>2 DEF vars, processes
<1>3. ASSUME NEW r \in scenario.later, Arrive(r) PROVE Stays
  BY <1>3 DEF Arrive, processes
<1>4. ASSUME NEW p \in Pipelines, StartPipeline(p) PROVE Stays
  <2>1. Moves(p, "bronze") /\ p \in Processes /\ seen' = seen
    BY <1>4, OneMoves DEF IInv, StartPipeline, Processes
  <2> QED BY <1>1, <2>1
<1>5. ASSUME NEW h \in ByHand, StartByHand(h) PROVE Stays
  <2>1. Moves(h, h) /\ h \in Processes /\ seen' = seen /\ h # step
    BY <1>5, OneMoves DEF IInv, StartByHand, Processes
  <2> QED BY <1>1, <2>1
<1>6. ASSUME NEW p \in Processes, NEW how \in Idle, Ends(p, how) PROVE Stays
  <2>1. Moves(p, how) /\ (\A x \in Processes : x # p => seen'[x] = seen[x]) /\ how # step
    BY <1>6, EndsCleanly DEF IInv, Idle
  <2> QED BY <1>1, <2>1
<1>7. ASSUME NEW p \in Pipelines, Fail(p) PROVE Stays
  BY <1>6, <1>7 DEF Fail, Idle, Processes
<1>8. ASSUME NEW p \in Processes, Sync(p) PROVE Stays
  BY <1>6, <1>8 DEF Sync, Idle
<1>9. ASSUME NEW p \in Processes, Bronze(p) \/ SilverPublish(p) PROVE Stays
  <2>1. PICK to \in {"silver", "silver_derive"} : Moves(p, to)
    BY <1>9, OneMoves DEF IInv, Bronze, SilverPublish
  <2>2. seen' = seen
    BY <1>9 DEF Bronze, SilverPublish
  <2> QED BY <1>1, <2>1, <2>2
<1>10. ASSUME NEW p \in Processes, SilverDerive(p) \/ GoldFanOut(p) PROVE Stays
  <2>1. Ends(p, "idle") \/ ((Go(p, "gold") \/ Go(p, "sync")) /\ seen' = seen)
    BY <1>10 DEF SilverDerive, GoldFanOut
  <2>2. CASE Ends(p, "idle")
    BY <1>6, <2>2 DEF Idle
  <2>3. CASE (Go(p, "gold") \/ Go(p, "sync")) /\ seen' = seen
    <3>1. PICK to \in {"gold", "sync"} : Moves(p, to)
      BY <2>3, OneMoves DEF IInv
    <3> QED BY <1>1, <2>3, <3>1
  <2> QED BY <2>1, <2>2, <2>3
<1>11. ASSUME NEW p \in Processes, GoldPublish(p) PROVE Stays
  <2>1. Moves(p, "gold_fan_out") /\ \A x \in Processes : x # p => seen'[x] = seen[x]
    BY <1>11, OneMoves DEF IInv, Formed, GoldPublish
  <2> QED BY <1>1, <2>1
<1>12. ASSUME NEW p \in Processes, SilverRead(p) PROVE Stays \/ (step = "silver_publish" /\ SilverRead(q))
  <2>1. Moves(p, "silver_publish") /\ \A x \in Processes : x # p => seen'[x] = seen[x]
    BY <1>12, OneMoves DEF IInv, Formed, SilverRead
  <2> QED BY <1>1, <1>12, <2>1 DEF Moves
<1>13. ASSUME NEW p \in Processes, GoldRead(p) PROVE Stays \/ (step = "gold_publish" /\ GoldRead(q))
  <2>1. Moves(p, "gold_publish") /\ \A x \in Processes : x # p => seen'[x] = seen[x]
    BY <1>13, OneMoves DEF IInv, Formed, GoldRead
  <2> QED BY <1>1, <1>13, <2>1 DEF Moves
<1> QED BY <1>2, <1>3, <1>4, <1>5, <1>7, <1>8, <1>9, <1>10, <1>11, <1>12, <1>13 DEF Next, Step

\* Only a Gold build that publishes or resamples replaces Gold.
LEMMA WhoPublishes ==
    ASSUME [Next]_vars
    PROVE  gold' = gold \/ \E p \in Processes : GoldPublish(p) \/ GoldFanOut(p)
<1>1. CASE UNCHANGED vars
  BY <1>1 DEF vars, layers
<1>2. ASSUME NEW r \in scenario.later, Arrive(r) PROVE gold' = gold
  BY <1>2 DEF Arrive
<1>3. ASSUME NEW p \in Pipelines, StartPipeline(p) \/ Fail(p) PROVE gold' = gold
  BY <1>3 DEF StartPipeline, Fail, layers
<1>4. ASSUME NEW h \in ByHand, StartByHand(h) PROVE gold' = gold
  BY <1>4 DEF StartByHand, layers
<1>5. ASSUME NEW p \in Processes, Bronze(p) \/ SilverRead(p) \/ SilverPublish(p) \/ SilverDerive(p)
      PROVE  gold' = gold
  BY <1>5 DEF Bronze, SilverRead, SilverPublish, SilverDerive, layers
<1>6. ASSUME NEW p \in Processes, GoldRead(p) \/ Sync(p) PROVE gold' = gold
  BY <1>6 DEF GoldRead, Sync
<1> QED BY <1>1, <1>2, <1>3, <1>4, <1>5, <1>6 DEF Next, Step

LEMMA InitTargetsStand == Init => TargetsStand
<1> SUFFICES ASSUME Init PROVE TargetsStand
  OBVIOUS
<1>1. silver.rows = {} /\ \A d \in SilverIds, k \in Months : silver.frame[d][k] = NoFrame
  BY DEF Init, NoSilver, Content
<1>2. \A k \in Months : CandlesOf({}, k) = NoFrame
  <2>1. \A k \in Months : ObservedMonth({}, "perps_ohlcv", k) = {}
    BY ObservedInMonth
  <2>2. \A k \in Months : CandlesOf({}, k) = [m \in {} |-> {}]
    BY <2>1 DEF CandlesOf
  <2> QED BY <2>2 DEF NoFrame
<1>3. \A p \in Processes : pc[p] = "idle"
  BY DEF Init
<1>4. DOMAIN gold = {} /\ DOMAIN NoFrame = {}
  BY DEF Init, Nothing, NoFrame
<1> QED BY <1>1, <1>2, <1>3, <1>4 DEF TargetsStand

LEMMA TargetsStandNext == IInv /\ FramesFit /\ TargetsStand /\ [Next]_vars => TargetsStand'
<1> SUFFICES ASSUME IInv, FramesFit, TargetsStand, [Next]_vars PROVE TargetsStand'
  OBVIOUS
<1> DEFINE perps == "perps_ohlcv"
<1>1. ASSUME perps \in SilverIds, NEW k \in Months PROVE silver'.frame[perps][k] = CandlesOf(silver'.rows, k)
  <2>1. ASSUME NEW p \in Processes, SilverPublish(p)
        PROVE  silver'.frame[perps][k] = CandlesOf(silver'.rows, k)
    <3>1. perps \in seen[p].frame \ DerivedDatasets
      BY <1>1, <2>1 DEF TargetsStand, SilverPublish, DerivedDatasets
    <3> QED BY <1>1, <2>1, <3>1, Published, SourcesOfTargets
  <2>2. ASSUME NEW p \in Processes, SilverDerive(p) PROVE silver'.frame[perps][k] = CandlesOf(silver'.rows, k)
    <3>1. silver'.rows = silver.rows /\ silver'.frame[perps][k] = silver.frame[perps][k]
      BY <1>1, <2>2, DerivedFrom DEF DerivedDatasets
    <3> QED BY <1>1, <3>1 DEF TargetsStand
  <2>3. CASE silver' = silver
    BY <1>1, <2>3 DEF TargetsStand
  <2> QED BY <2>1, <2>2, <2>3, WhatChanges
<1>2. ASSUME perps \in SilverIds, NEW p \in Processes, pc'[p] = "silver_publish"
      PROVE  perps \in seen'[p].frame
  <2>1. CASE pc[p] = "silver_publish" /\ seen'[p] = seen[p]
    BY <1>2, <2>1 DEF TargetsStand
  <2>2. CASE SilverRead(p)
    <3>1. seen'[p].frame = Scheduled(silver.frame)
      BY <2>2 DEF SilverRead, IInv, Formed, Content
    <3>2. DOMAIN silver.frame = SilverIds /\ perps \notin DOMAIN SilverInputs
      BY DEF IInv, TypeOK, LayersHoldRows, SilverInputs
    <3> QED BY <1>2, <3>1, <3>2 DEF Scheduled
  <2> QED BY <1>2, <2>1, <2>2, WhatIsRead
<1>3. ASSUME NEW d \in (TargetsSources \ {perps}) \cap SilverIds, NEW k \in Months
      PROVE  DOMAIN silver'.frame[d][k] \subseteq Minutes
  <2>1. DOMAIN silver.frame[d][k] \subseteq Minutes
    BY DEF TargetsStand
  <2>2. ASSUME NEW p \in Processes, SilverPublish(p) PROVE DOMAIN silver'.frame[d][k] \subseteq Minutes
    <3>1. d \notin DerivedDatasets => d \in {"funding_1m_feature", "realized_volatility_1m_feature"}
      BY DEF TargetsSources, DerivedDatasets
    <3> QED BY <2>1, <2>2, <3>1, Published, SourcesOfTargets
  <2>3. ASSUME NEW p \in Processes, SilverDerive(p) PROVE DOMAIN silver'.frame[d][k] \subseteq Minutes
    <3>1. d \in DerivedDatasets => d = "iv_rv_1m_feature"
      BY DEF TargetsSources, DerivedDatasets
    <3>2. DOMAIN DerivedMonth("iv_rv_1m_feature", silver.frame, k, CalculationKeys(k)) \subseteq Minutes
      BY DEF DerivedMonth, IvRvMonth, Trim, Restrict, MinutesOf
    <3> QED BY <2>1, <2>3, <3>1, <3>2, DerivedFrom
  <2>4. CASE silver' = silver
    BY <2>1, <2>4
  <2> QED BY <2>2, <2>3, <2>4, WhatChanges
<1>4. ASSUME NEW p \in Processes, pc'[p] = "gold_publish", TargetsId \in DOMAIN seen'[p]
      PROVE  PricesStand(seen'[p][TargetsId])
  <2>1. CASE pc[p] = "gold_publish" /\ seen'[p] = seen[p]
    BY <1>4, <2>1 DEF TargetsStand
  <2>2. CASE GoldRead(p)
    <3>1. /\ Buildable(TargetsId, silver.frame)
          /\ seen'[p][TargetsId] = Content(silver.rows, Joined(TargetsId, silver.frame))
      <4> DEFINE ids == {i \in Ids \cup IF p \in ByHand THEN LibraryIds ELSE {} :
                            i \notin DOMAIN M1Of /\ Buildable(i, silver.frame)}
      <4>1. seen'[p] = [id \in ids |-> Content(silver.rows, Joined(id, silver.frame))]
        BY <2>2 DEF GoldRead, IInv, Formed
      <4>2. TargetsId \in ids
        <5> HIDE DEF ids
        <5> QED BY <1>4, <4>1
      <4>3. seen'[p][TargetsId] = Content(silver.rows, Joined(TargetsId, silver.frame))
        <5> HIDE DEF ids
        <5> QED BY <4>1, <4>2
      <4> QED BY <4>2, <4>3
    <3>2. \A d \in TargetsSources : HasData(silver.frame, d)
      BY <3>1, TargetsInputs DEF Buildable
    <3>3. TargetsSources \subseteq DOMAIN silver.frame /\ DOMAIN silver.frame = SilverIds
      BY <3>2 DEF HasData, IInv, TypeOK, LayersHoldRows
    <3>4. perps \in TargetsSources
      BY DEF TargetsSources
    <3>5. \A k \in Months : silver.frame[perps][k] = CandlesOf(silver.rows, k)
      BY <3>3, <3>4 DEF TargetsStand
    <3>6. \A r \in silver.rows : /\ r.t \in Nat /\ Minute(r.t) \in Minutes
                                 /\ r.src = perps => r.t = Start(Minute(r.t))
      <4>1. silver.rows \subseteq RowsOf(scenario) /\ scenario \in Scenarios
        BY DEF FramesFit, IInv, TypeOK, LayersHoldRows
      <4> QED BY <4>1, RowsAssumption
    <3>7. \A k \in Months : DOMAIN CandlesOf(silver.rows, k) \subseteq Minutes
      BY <3>6, ObservedInMonth DEF CandlesOf
    <3>8. \A d \in TargetsSources : \A k \in Months : DOMAIN silver.frame[d][k] \subseteq Minutes
      BY <3>3, <3>5, <3>7 DEF TargetsStand
    <3>9. PricesStand(Content(silver.rows, Joined(TargetsId, silver.frame)))
      BY <3>2, <3>3, <3>5, <3>6, <3>8, TargetsJoin
    <3> QED BY <3>1, <3>9
  <2> QED BY <1>4, <2>1, <2>2, WhatIsRead
<1>5. ASSUME TargetsId \in DOMAIN gold' PROVE TargetsAhead(gold'[TargetsId].rows, gold'[TargetsId].frame)
  <2>1. TargetsId \in DOMAIN gold => TargetsAhead(gold[TargetsId].rows, gold[TargetsId].frame)
    BY DEF TargetsStand
  <2>2. ASSUME NEW new, gold' = Replace(gold, new), TargetsId \notin DOMAIN new
        PROVE  TargetsAhead(gold'[TargetsId].rows, gold'[TargetsId].frame)
    BY <1>5, <2>1, <2>2 DEF Replace
  <2>3. ASSUME NEW p \in Processes, GoldPublish(p)
        PROVE  TargetsAhead(gold'[TargetsId].rows, gold'[TargetsId].frame)
    <3>1. /\ pc[p] = "gold_publish" /\ gold' = Replace(gold, seen'[p])
          /\ seen'[p] = [id \in DOMAIN seen[p] |-> Content(seen[p][id].rows, Derived(id, seen[p][id].frame))]
      BY <2>3 DEF GoldPublish, IInv, Formed
    <3>2. CASE TargetsId \notin DOMAIN seen[p]
      BY <2>2, <3>1, <3>2
    <3>3. CASE TargetsId \in DOMAIN seen[p]
      <4> DEFINE was == seen[p][TargetsId]
      <4>1. gold'[TargetsId] = Content(was.rows, Derived(TargetsId, was.frame))
        BY <3>1, <3>3 DEF Replace
      <4>2. Derived(TargetsId, was.frame) = Targets(was.frame)
        BY DEF Derived, TargetsId
      <4>3. TargetsAhead(was.rows, Targets(was.frame))
        BY <3>1, <3>3, TargetsOfGrid DEF TargetsStand
      <4> HIDE DEF was
      <4> QED BY <4>1, <4>2, <4>3 DEF Content
    <3> QED BY <3>2, <3>3
  <2>4. ASSUME NEW p \in Processes, GoldFanOut(p)
        PROVE  TargetsAhead(gold'[TargetsId].rows, gold'[TargetsId].frame)
    <3> DEFINE ids == {i \in Ids \cap DOMAIN M1Of : M1Of[i] \in DOMAIN gold}
               coarse == [id \in ids |-> Content(gold[M1Of[id]].rows, Resampled(gold[M1Of[id]].frame))]
    <3>1. gold' = Replace(gold, coarse)
      BY <2>4 DEF GoldFanOut
    <3>2. TargetsId \notin DOMAIN coarse
      BY DEF TargetsId, M1Of
    <3> HIDE DEF coarse
    <3> QED BY <2>2, <3>1, <3>2
  <2>5. CASE gold' = gold
    BY <1>5, <2>1, <2>5
  <2> QED BY <2>3, <2>4, <2>5, WhoPublishes
<1> QED BY <1>1, <1>2, <1>3, <1>4, <1>5 DEF TargetsStand

-----------------------------------------------------------------------------
(* No feature looks ahead: what a builder makes of a minute that was over  *)
(* when the first later row happened is what it makes of it now.           *)

Until(rows, t0) == {r \in rows : r.t < t0}
SameUntil(A, B, t0) == Until(A, t0) = Until(B, t0)

\* Rows as RowsAssumption has them.
RowsFit(rows) ==
    /\ IsFiniteSet(rows)
    /\ \A r \in rows : r.t \in Nat /\ r.at \in Nat /\ Minute(r.t) \in Minutes
    /\ \A r, o \in rows : r.src = "recent_trade_snapshot_1m" /\ o.src = r.src /\ o.name = r.name => o.t = r.t

\* b2 has the rows of b and others from t0 on.
Continues(b, b2, t0) ==
    /\ b \subseteq b2 /\ RowsFit(b2) /\ t0 \in Nat
    /\ \A r \in b2 \ b : t0 <= r.t

\* The rows last ingested under each key.
LastBy(rows, key) == {r \in rows : \A o \in rows : key[o] = key[r] => o.at <= r.at}

LEMMA LastByUntil ==
    ASSUME NEW A, NEW B, NEW key, NEW t0, SameUntil(A, B, t0),
           \A r, o \in A \cup B : key[o] = key[r] => o.t = r.t
    PROVE  SameUntil(LastBy(A, key), LastBy(B, key), t0)
<1>1. \A r : r \in A /\ r.t < t0 <=> r \in B /\ r.t < t0
  BY DEF SameUntil, Until
<1>2. ASSUME NEW r, r.t < t0 PROVE r \in LastBy(A, key) <=> r \in LastBy(B, key)
  <2>1. ASSUME r \in A, r \in B PROVE \A o : o \in A /\ key[o] = key[r] <=> o \in B /\ key[o] = key[r]
    BY <1>1, <1>2, <2>1
  <2> QED BY <1>1, <1>2, <2>1 DEF LastBy
<1> QED BY <1>2 DEF SameUntil, Until, LastBy

LEMMA LastByPersists ==
    ASSUME NEW B, IsFiniteSet(B), \A r \in B : r.at \in Nat, NEW key,
           \A r, o \in B : key[o] = key[r] => o.t = r.t,
           NEW r \in B
    PROVE  \E o \in LastBy(B, key) : o.t = r.t
<1> DEFINE S == {o \in B : key[o] = key[r]}
           ats == {o.at : o \in S}
<1>1. IsFiniteSet(S) /\ r \in S
  BY FS_Subset
<1>2. IsFiniteSet(ats)
  <2> DEFINE f == [o \in S |-> o.at]
  <2>1. f \in Surjection(S, ats)
    <3> HIDE DEF S
    <3> QED BY DEF Surjection
  <2> HIDE DEF S, ats, f
  <2> QED BY <1>1, <2>1, FS_Surjection
<1>3. ats \subseteq Int /\ ats # {}
  BY <1>1
<1>4. PICK n \in ats : \A y \in ats : y <= n
  <2> HIDE DEF ats
  <2> QED BY <1>2, <1>3, GreatestInteger
<1>5. PICK o \in S : o.at = n
  BY <1>4
<1>6. o \in LastBy(B, key)
  BY <1>4, <1>5 DEF LastBy
<1> QED BY <1>5, <1>6

\* What is kept of the rows of a month, said with keys.
AtInstant(all) == [r \in all |-> r.t]
AtNamedInstant(all) == [r \in all |-> <<r.name, r.t>>]
AtIdentity(all) == [r \in all |-> r.name]

LEMMA KeptByKey ==
    ASSUME NEW all, NEW rows, rows \subseteq all
    PROVE  /\ KeepLast(rows, Instant) = LastBy(rows, AtInstant(all))
           /\ KeepLast(rows, InstrumentInstant) = LastBy(rows, AtNamedInstant(all))
           /\ KeepLast(rows, TradeIdentity) = LastBy(rows, AtIdentity(all))
<1>1. KeepLast(rows, Instant) = LastBy(rows, AtInstant(all))
  BY DEF KeepLast, Instant, LastBy, AtInstant
<1>2. KeepLast(rows, InstrumentInstant) = LastBy(rows, AtNamedInstant(all))
  BY DEF KeepLast, InstrumentInstant, LastBy, AtNamedInstant
<1>3. KeepLast(rows, TradeIdentity) = LastBy(rows, AtIdentity(all))
  BY DEF KeepLast, TradeIdentity, LastBy, AtIdentity
<1> QED BY <1>1, <1>2, <1>3

LEMMA ObservedKinds ==
    ASSUME NEW src
    PROVE  \/ \A rows : Observed(src, rows) = KeepLast(Valid(rows), Instant)
           \/ \A rows : Observed(src, rows) = KeepLast(Valid(rows), InstrumentInstant)
           \/ \A rows : Observed(src, rows) = KeepLast(rows, InstrumentInstant)
           \/ src = "recent_trade_snapshot_1m" /\ \A rows : Observed(src, rows) = KeepLast(Valid(rows), TradeIdentity)
           \/ \A rows : Observed(src, rows) = Valid(rows)
           \/ \A rows : Observed(src, rows) = rows
<1>1. CASE src \in {"spot_ohlcv", "perps_ohlcv", "funding", "volatility_index_data", "volatility_index_snapshot_1m",
                    "index_price_snapshot_1m", "historical_volatility"}
  BY <1>1 DEF Observed, Candles, FundingObserved, VolatilityObserved, IndexPriceObserved, HistoricalVolatilityObserved
<1>2. CASE src \in {"options_ticker_snapshot_1m", "options_instrument_ticker_snapshot_1m", "perps_l2_snapshot_1m",
                    "options_l2_snapshot_1m", "perps_trades", "options_trades",
                    "instrument_metadata_snapshot_daily", "futures_instrument_metadata_snapshot_daily"}
  BY <1>2 DEF Observed, TickerObserved, BookObserved, TradesObserved, MetadataObserved
<1>3. CASE src = "futures_summary_snapshot_1m"
  BY <1>3 DEF Observed, FuturesObserved
<1>4. CASE src = "recent_trade_snapshot_1m"
  BY <1>4 DEF Observed, RecentTradesObserved
<1>5. CASE src = "open_interest"
  BY <1>5 DEF Observed, OpenInterestObserved
<1>6. CASE src \notin {"spot_ohlcv", "perps_ohlcv", "funding", "volatility_index_data", "volatility_index_snapshot_1m",
                    "index_price_snapshot_1m", "historical_volatility",
                    "options_ticker_snapshot_1m", "options_instrument_ticker_snapshot_1m", "perps_l2_snapshot_1m",
                    "options_l2_snapshot_1m", "perps_trades", "options_trades",
                    "instrument_metadata_snapshot_daily", "futures_instrument_metadata_snapshot_daily",
                    "futures_summary_snapshot_1m", "recent_trade_snapshot_1m", "open_interest"}
  BY <1>6 DEF Observed
<1> QED BY <1>1, <1>2, <1>3, <1>4, <1>5, <1>6

\* What was observed before t0 is observed still, and no instant is lost.
LEMMA ObservedUntil ==
    ASSUME NEW b, NEW b2, NEW t0, Continues(b, b2, t0), NEW src, NEW k
    PROVE  /\ SameUntil(ObservedMonth(b, src, k), ObservedMonth(b2, src, k), t0)
           /\ \A r \in ObservedMonth(b, src, k) : \E o \in ObservedMonth(b2, src, k) : o.t = r.t
<1> DEFINE A == Of(b, src, k)
           B == Of(b2, src, k)
           vA == Valid(A)
           vB == Valid(B)
<1>1. A \subseteq B /\ B \subseteq b2 /\ vA \subseteq vB /\ vB \subseteq B /\ \A r \in B : r.src = src
  BY DEF Continues, Of, Valid
<1>2. SameUntil(A, B, t0) /\ SameUntil(vA, vB, t0)
  BY DEF Continues, RowsFit, SameUntil, Until, Of, Valid
<1>3. IsFiniteSet(B) /\ IsFiniteSet(vB) /\ \A r \in B : r.at \in Nat
  BY <1>1, FS_Subset DEF Continues, RowsFit
<1> DEFINE Good(X, Y) == SameUntil(X, Y, t0) /\ \A r \in X : \E o \in Y : o.t = r.t
<1> HIDE DEF A, B, vA, vB
<1>4. ASSUME NEW X, NEW Y, X \subseteq Y, Y \subseteq B, SameUntil(X, Y, t0), NEW key,
             \A r, o \in B : key[o] = key[r] => o.t = r.t
      PROVE  Good(LastBy(X, key), LastBy(Y, key))
  <2>1. SameUntil(LastBy(X, key), LastBy(Y, key), t0)
    BY <1>4, LastByUntil
  <2>2. IsFiniteSet(Y) /\ \A r \in Y : r.at \in Nat
    BY <1>3, <1>4, FS_Subset
  <2>3. \A r \in Y : \E o \in LastBy(Y, key) : o.t = r.t
    BY <1>4, <2>2, LastByPersists
  <2>4. LastBy(X, key) \subseteq Y
    BY <1>4 DEF LastBy
  <2> QED BY <2>1, <2>3, <2>4
<1>5. /\ \A r, o \in B : AtInstant(B)[o] = AtInstant(B)[r] => o.t = r.t
      /\ \A r, o \in B : AtNamedInstant(B)[o] = AtNamedInstant(B)[r] => o.t = r.t
      /\ src = "recent_trade_snapshot_1m" => \A r, o \in B : AtIdentity(B)[o] = AtIdentity(B)[r] => o.t = r.t
  BY <1>1 DEF AtInstant, AtNamedInstant, AtIdentity, Continues, RowsFit
<1>6. /\ vA \subseteq B /\ vB \subseteq B /\ A \subseteq B /\ vA \subseteq vB
  BY <1>1
<1>7. /\ Good(KeepLast(vA, Instant), KeepLast(vB, Instant))
      /\ Good(KeepLast(vA, InstrumentInstant), KeepLast(vB, InstrumentInstant))
      /\ Good(KeepLast(A, InstrumentInstant), KeepLast(B, InstrumentInstant))
      /\ src = "recent_trade_snapshot_1m" => Good(KeepLast(vA, TradeIdentity), KeepLast(vB, TradeIdentity))
      /\ Good(vA, vB) /\ Good(A, B)
  <2>1. Good(vA, vB) /\ Good(A, B)
    BY <1>2, <1>6
  <2>2. KeepLast(vA, Instant) = LastBy(vA, AtInstant(B)) /\ KeepLast(vB, Instant) = LastBy(vB, AtInstant(B))
    BY <1>6, KeptByKey
  <2>3. /\ KeepLast(vA, InstrumentInstant) = LastBy(vA, AtNamedInstant(B))
        /\ KeepLast(vB, InstrumentInstant) = LastBy(vB, AtNamedInstant(B))
        /\ KeepLast(A, InstrumentInstant) = LastBy(A, AtNamedInstant(B))
        /\ KeepLast(B, InstrumentInstant) = LastBy(B, AtNamedInstant(B))
    BY <1>6, KeptByKey
  <2>4. KeepLast(vA, TradeIdentity) = LastBy(vA, AtIdentity(B)) /\ KeepLast(vB, TradeIdentity) = LastBy(vB, AtIdentity(B))
    BY <1>6, KeptByKey
  <2> HIDE DEF Good
  <2> QED BY <1>2, <1>4, <1>5, <1>6, <2>1, <2>2, <2>3, <2>4
<1>8. Good(Observed(src, A), Observed(src, B))
  <2>1. \/ Observed(src, A) = KeepLast(vA, Instant) /\ Observed(src, B) = KeepLast(vB, Instant)
        \/ Observed(src, A) = KeepLast(vA, InstrumentInstant) /\ Observed(src, B) = KeepLast(vB, InstrumentInstant)
        \/ Observed(src, A) = KeepLast(A, InstrumentInstant) /\ Observed(src, B) = KeepLast(B, InstrumentInstant)
        \/ /\ src = "recent_trade_snapshot_1m"
           /\ Observed(src, A) = KeepLast(vA, TradeIdentity) /\ Observed(src, B) = KeepLast(vB, TradeIdentity)
        \/ Observed(src, A) = vA /\ Observed(src, B) = vB
        \/ Observed(src, A) = A /\ Observed(src, B) = B
    BY ObservedKinds DEF vA, vB
  <2> HIDE DEF Good
  <2> QED BY <1>7, <2>1
<1> QED BY <1>8 DEF ObservedMonth, A, B

\* So of several months.
LEMMA OverUntil ==
    ASSUME NEW b, NEW b2, NEW t0, Continues(b, b2, t0), NEW src, NEW keys
    PROVE  SameUntil(Over(b, src, keys), Over(b2, src, keys), t0)
<1>1. \A k : SameUntil(ObservedMonth(b, src, k), ObservedMonth(b2, src, k), t0)
  BY ObservedUntil
<1> QED BY <1>1 DEF SameUntil, Until, Over

\* An instant lies in its minute.
LEMMA MinuteOf ==
    ASSUME NEW t \in Int
    PROVE  Minute(t) \in Int /\ Minute(t) * Ticks <= t /\ t < Minute(t) * Ticks + Ticks
<1>1. Ticks \in Nat \ {0}
  OBVIOUS
<1> QED BY <1>1, Quotient DEF Minute

\* A minute that is over by t0 begins before it, and so does all of it.
LEMMA OverBy ==
    ASSUME NEW t0 \in Nat, NEW m \in Int, m + 1 <= Minute(t0)
    PROVE  /\ Start(m) < t0
           /\ \A t \in Nat : Minute(t) <= m \/ t <= Start(m) => t < t0
<1>1. Minute(t0) \in Int /\ Minute(t0) * Ticks <= t0
  BY MinuteOf
<1>2. m * Ticks + Ticks <= t0
  <2>1. m < Minute(t0)
    BY <1>1
  <2> DEFINE c == Minute(t0)
  <2>2. c \in Int /\ m < c /\ Ticks \in Nat \ {0}
    BY <1>1, <2>1
  <2> HIDE DEF c
  <2>3. m * Ticks + Ticks <= c * Ticks /\ m * Ticks \in Int /\ c * Ticks \in Int
    BY <2>2, Multiples
  <2> QED BY <1>1, <2>3 DEF c
<1>3. m * Ticks \in Int
  BY Multiples
<1>4. ASSUME NEW t \in Nat, Minute(t) <= m PROVE t < t0
  <2>1. Minute(t) \in Int /\ t < Minute(t) * Ticks + Ticks
    BY MinuteOf
  <2>2. Minute(t) * Ticks <= m * Ticks /\ Minute(t) * Ticks \in Int
    BY <1>4, <2>1, Multiples
  <2> QED BY <1>2, <1>3, <2>1, <2>2
<1> QED BY <1>2, <1>3, <1>4 DEF Start

Dated(A) == \A r \in A : r.t \in Nat /\ Minute(r.t) \in Minutes

\* Rows that agree until t0 agree on the minutes that are over by then.
LEMMA SameMinutes ==
    ASSUME NEW A, NEW B, NEW t0 \in Nat, Dated(A), Dated(B), SameUntil(A, B, t0),
           NEW m \in Int, m + 1 <= Minute(t0)
    PROVE  /\ \A r : r \in A /\ Minute(r.t) <= m <=> r \in B /\ Minute(r.t) <= m
           /\ {r \in A : Minute(r.t) = m} = {r \in B : Minute(r.t) = m}
           /\ m \in {Minute(r.t) : r \in A} <=> m \in {Minute(r.t) : r \in B}
           /\ AsOf(A, m) = AsOf(B, m)
<1>1. \A r : r \in A /\ r.t < t0 <=> r \in B /\ r.t < t0
  BY DEF SameUntil, Until
<1>2. \A r \in A \cup B : r.t \in Nat /\ Minute(r.t) \in Int
  BY MinuteOf DEF Dated
<1>3. \A r \in A \cup B : Minute(r.t) <= m \/ r.t <= Start(m) => r.t < t0
  BY <1>2, OverBy
<1>4. \A r : r \in A /\ Minute(r.t) <= m <=> r \in B /\ Minute(r.t) <= m
  BY <1>1, <1>3
<1>5. \A r : r \in A /\ Minute(r.t) = m <=> r \in B /\ Minute(r.t) = m
  <2>1. m <= m
    OBVIOUS
  <2> QED BY <1>4, <2>1
<1>6. {r \in A : r.t <= Start(m)} = {r \in B : r.t <= Start(m)}
  BY <1>1, <1>3
<1> QED BY <1>4, <1>5, <1>6 DEF AsOf

\* The frame keeps what it says of the minutes before c.
Keeps(before, after, c) == \A x \in DOMAIN before : x + 1 <= c => x \in DOMAIN after /\ after[x] = before[x]

LEMMA KeptIsSettled ==
    ASSUME NEW before, NEW after, NEW c, Keeps(before, after, c), NEW remade
    PROVE  Settled(before, after, 1, c, remade)
BY DEF Keeps, Settled, Cell

\* Candles: each minute has its own.
LEMMA CandlesKept ==
    ASSUME NEW A, NEW B, NEW t0 \in Nat, Dated(A), Dated(B), SameUntil(A, B, t0)
    PROVE  /\ Keeps(CandleFrame(A, SpotRow), CandleFrame(B, SpotRow), Minute(t0))
           /\ Keeps(CandleFrame(A, PerpsRow), CandleFrame(B, PerpsRow), Minute(t0))
           /\ Keeps(CandleFrame(A, HistoricalVolatilityRow), CandleFrame(B, HistoricalVolatilityRow), Minute(t0))
<1>1. ASSUME NEW m \in {Minute(r.t) : r \in A}, m + 1 <= Minute(t0)
      PROVE  m \in {Minute(r.t) : r \in B} /\ {r \in A : Minute(r.t) = m} = {r \in B : Minute(r.t) = m}
  <2>1. m \in Int
    BY MinuteOf DEF Dated
  <2> QED BY <1>1, <2>1, SameMinutes
<1>2. Keeps(CandleFrame(A, SpotRow), CandleFrame(B, SpotRow), Minute(t0))
  BY <1>1 DEF Keeps, CandleFrame, SpotRow
<1>3. Keeps(CandleFrame(A, PerpsRow), CandleFrame(B, PerpsRow), Minute(t0))
  BY <1>1 DEF Keeps, CandleFrame, PerpsRow
<1>4. Keeps(CandleFrame(A, HistoricalVolatilityRow), CandleFrame(B, HistoricalVolatilityRow), Minute(t0))
  BY <1>1 DEF Keeps, CandleFrame, HistoricalVolatilityRow
<1> QED BY <1>2, <1>3, <1>4

\* Observed snapshots: each instant has its own.
LEMMA SnapshotsKept ==
    ASSUME NEW A, NEW B, NEW t0 \in Nat, Dated(A), SameUntil(A, B, t0)
    PROVE  Keeps(SnapshotFrame(A), SnapshotFrame(B), t0)
<1>1. \A r : r \in A /\ r.t < t0 <=> r \in B /\ r.t < t0
  BY DEF SameUntil, Until
<1>2. ASSUME NEW t \in {r.t : r \in A}, t + 1 <= t0
      PROVE  t \in {r.t : r \in B} /\ {r \in A : r.t = t} = {r \in B : r.t = t}
  <2>1. t < t0
    BY <1>2 DEF Dated
  <2> QED BY <1>1, <2>1
<1> QED BY <1>2 DEF Keeps, SnapshotFrame

\* Rows have a first and a last instant.
LEMMA EndsOfRows ==
    ASSUME NEW X, IsFiniteSet(X), Dated(X), X # {}
    PROVE  /\ FirstInstant(X) \in Nat /\ \E r \in X : r.t = FirstInstant(X)
           /\ LastInstant(X) \in Nat /\ \E r \in X : r.t = LastInstant(X)
           /\ \A r \in X : FirstInstant(X) <= r.t /\ r.t <= LastInstant(X)
<1> DEFINE T == {r.t : r \in X}
           f == [r \in X |-> r.t]
<1>1. f \in Surjection(X, T)
  BY DEF Surjection
<1>2. T \subseteq Int /\ T # {} /\ T \subseteq Nat
  BY DEF Dated
<1>3. IsFiniteSet(T)
  <2> HIDE DEF f, T
  <2> QED BY <1>1, FS_Surjection
<1>4. Max(T) \in T /\ \A y \in T : y <= Max(T)
  <2> HIDE DEF T
  <2>1. PICK t \in T : \A y \in T : y <= t
    BY <1>2, <1>3, GreatestInteger
  <2>2. Max(T) \in T /\ \A y \in T : Max(T) >= y
    BY <1>2, <2>1 DEF Max
  <2> QED BY <1>2, <2>2
<1>5. Min(T) \in T /\ \A y \in T : Min(T) <= y
  <2> HIDE DEF T
  <2>1. PICK t \in T : \A y \in T : t <= y
    BY <1>2, <1>3, LeastInteger
  <2> QED BY <1>2, <2>1 DEF Min
<1> QED BY <1>2, <1>4, <1>5 DEF FirstInstant, LastInstant

\* Rows that agree until t0 and lose no instant end later if at all, and begin where they did.
LEMMA EndsStay ==
    ASSUME NEW A, NEW B, IsFiniteSet(A), IsFiniteSet(B), Dated(A), Dated(B), A # {}, NEW t0 \in Nat,
           \A r \in A : \E o \in B : o.t = r.t, SameUntil(A, B, t0)
    PROVE  /\ B # {} /\ LastInstant(A) <= LastInstant(B)
           /\ FirstInstant(A) < t0 => FirstInstant(B) = FirstInstant(A)
<1>1. B # {}
  OBVIOUS
<1>2. /\ FirstInstant(A) \in Nat /\ LastInstant(A) \in Nat
      /\ \A r \in A : FirstInstant(A) <= r.t /\ r.t <= LastInstant(A)
  BY EndsOfRows
<1>3. /\ FirstInstant(B) \in Nat /\ LastInstant(B) \in Nat
      /\ \A r \in B : FirstInstant(B) <= r.t /\ r.t <= LastInstant(B)
  BY <1>1, EndsOfRows
<1>4. LastInstant(A) <= LastInstant(B)
  <2>1. PICK r \in A : r.t = LastInstant(A)
    BY EndsOfRows
  <2>2. PICK o \in B : o.t = r.t
    OBVIOUS
  <2> QED BY <1>3, <2>1, <2>2
<1>5. ASSUME FirstInstant(A) < t0 PROVE FirstInstant(B) = FirstInstant(A)
  <2>1. \A r : r \in A /\ r.t < t0 <=> r \in B /\ r.t < t0
    BY DEF SameUntil, Until
  <2>2. PICK r \in A : r.t = FirstInstant(A)
    BY EndsOfRows
  <2>3. PICK o \in B : o.t = FirstInstant(B)
    BY <1>1, EndsOfRows
  <2>4. r \in B /\ FirstInstant(B) <= FirstInstant(A)
    BY <1>3, <1>5, <2>1, <2>2
  <2>5. o \in A
    BY <1>2, <1>3, <1>5, <2>1, <2>3, <2>4
  <2>6. FirstInstant(A) <= FirstInstant(B)
    BY <1>2, <2>3, <2>5
  <2> QED BY <1>2, <1>3, <2>4, <2>6
<1> QED BY <1>1, <1>4, <1>5

\* Funding, open interest and index prices: the last observation by each minute of a grid that
\* later rows only make longer.
LEMMA AsOfKept ==
    ASSUME NEW A, NEW B, IsFiniteSet(A), IsFiniteSet(B), Dated(A), Dated(B), NEW t0 \in Nat,
           SameUntil(A, B, t0), \A r \in A : \E o \in B : o.t = r.t, NEW k
    PROVE  /\ Keeps(FundingFeature(A, k), FundingFeature(B, k), Minute(t0))
           /\ Keeps(OpenInterestFeature(A, k), OpenInterestFeature(B, k), Minute(t0))
           /\ Keeps(IndexPriceFeature(A), IndexPriceFeature(B), Minute(t0))
<1>1. CASE A = {}
  BY <1>1 DEF Keeps, FundingFeature, OpenInterestFeature, IndexPriceFeature, NoFrame
<1>2. CASE A # {}
  <2>1. LastInstant(A) \in Nat /\ LastInstant(B) \in Nat /\ LastInstant(A) <= LastInstant(B) /\ B # {}
    BY <1>2, EndsStay, EndsOfRows
  <2>2. ASSUME NEW m \in Minutes, m + 1 <= Minute(t0)
        PROVE  /\ m \in Int /\ Start(m) \in Int /\ Start(m) < t0 /\ AsOf(A, m) = AsOf(B, m)
    <3>1. m \in Int /\ Start(m) \in Int
      BY DEF Minutes, Start
    <3> QED BY <2>2, <3>1, SameMinutes, OverBy
  <2>3. ASSUME NEW m \in ObservedGrid(A, k), m + 1 <= Minute(t0)
        PROVE  m \in ObservedGrid(B, k) /\ AsOf(A, m) = AsOf(B, m)
    <3>1. m \in Minutes /\ Start(m) < LastInstant(A) + Ticks /\ MonthStart(k) <= m
      BY DEF ObservedGrid
    <3>2. Start(m) \in Int /\ AsOf(A, m) = AsOf(B, m)
      BY <2>2, <2>3, <3>1
    <3>3. Start(m) < LastInstant(B) + Ticks
      BY <2>1, <3>1, <3>2
    <3> QED BY <3>1, <3>2, <3>3 DEF ObservedGrid
  <2>4. ASSUME NEW m \in SnapshotGrid(A), m + 1 <= Minute(t0)
        PROVE  m \in SnapshotGrid(B) /\ AsOf(A, m) = AsOf(B, m)
    <3>1. m \in Minutes /\ FirstInstant(A) <= Start(m) /\ Start(m) <= LastInstant(A)
      BY DEF SnapshotGrid
    <3>2. Start(m) \in Int /\ Start(m) < t0 /\ AsOf(A, m) = AsOf(B, m)
      BY <2>2, <2>4, <3>1
    <3>3. FirstInstant(A) \in Nat
      BY <1>2, EndsOfRows
    <3>4. FirstInstant(A) < t0
      BY <3>1, <3>2, <3>3
    <3>5. FirstInstant(B) = FirstInstant(A)
      BY <1>2, <3>4, EndsStay
    <3> QED BY <2>1, <3>1, <3>2, <3>5 DEF SnapshotGrid
  <2>5. Keeps(FundingFeature(A, k), FundingFeature(B, k), Minute(t0))
    BY <1>2, <2>1, <2>3 DEF Keeps, FundingFeature
  <2>6. Keeps(OpenInterestFeature(A, k), OpenInterestFeature(B, k), Minute(t0))
    BY <1>2, <2>1, <2>3 DEF Keeps, OpenInterestFeature
  <2>7. Keeps(IndexPriceFeature(A), IndexPriceFeature(B), Minute(t0))
    BY <1>2, <2>1, <2>4 DEF Keeps, IndexPriceFeature
  <2> QED BY <2>5, <2>6, <2>7
<1> QED BY <1>1, <1>2

\* Trades: a minute has its own, or the last price before it, which may be carried over from
\* the months before.
LEMMA TradesKept ==
    ASSUME NEW b, NEW b2, NEW t0, Continues(b, b2, t0), NEW src, NEW empty, NEW k \in Months
    PROVE  Keeps(TradesMonth(b, src, empty, k), TradesMonth(b2, src, empty, k), Minute(t0))
<1> DEFINE A == ObservedMonth(b, src, k)
           B == ObservedMonth(b2, src, k)
           eA == Of(b, empty, k)
           eB == Of(b2, empty, k)
           pA == Over(b, src, {j \in Months : j < k})
           pB == Over(b2, src, {j \in Months : j < k})
           carried(past) == CarriedClose(past)[k]
           flow(rows, m) == {r \in rows : Minute(r.t) = m}
           before(rows, m) == LatestOf({r \in rows : Minute(r.t) < m})
           row(rows, last, m) ==
            [flow |-> flow(rows, m),
             price |-> IF flow(rows, m) # {} THEN flow(rows, m) ELSE IF before(rows, m) # {} THEN before(rows, m) ELSE last]
           trades(rows, none, last) == [m \in {Minute(r.t) : r \in rows \cup none} |-> row(rows, last, m)]
<1>1. /\ TradesMonth(b, src, empty, k) = trades(A, eA, carried(pA))
      /\ TradesMonth(b2, src, empty, k) = trades(B, eB, carried(pB))
  BY DEF TradesMonth, TradesFeature
<1>2. t0 \in Nat /\ \A r \in b2 : r.t \in Nat /\ Minute(r.t) \in Minutes
  BY DEF Continues, RowsFit
<1>3. Dated(A) /\ Dated(B) /\ Dated(eA) /\ Dated(eB) /\ Dated(pA) /\ Dated(pB)
  <2>1. b \subseteq b2
    BY DEF Continues
  <2> QED BY <1>2, <2>1, ObservedInMonth, OverRows DEF Dated, Of
<1>4. SameUntil(A, B, t0) /\ SameUntil(pA, pB, t0)
  BY ObservedUntil, OverUntil
<1>5. SameUntil(eA, eB, t0)
  BY DEF Continues, RowsFit, SameUntil, Until, Of
<1>6. \A r \in A \cup eA : Month(Minute(r.t)) = k
  BY ObservedInMonth DEF Of
<1>7. \A r \in pA \cup pB : Month(Minute(r.t)) < k
  BY OverRows
<1> HIDE DEF A, B, eA, eB, pA, pB
<1>8. ASSUME NEW m \in {Minute(r.t) : r \in A \cup eA}, m + 1 <= Minute(t0)
      PROVE  m \in {Minute(r.t) : r \in B \cup eB} /\ row(A, carried(pA), m) = row(B, carried(pB), m)
  <2>1. m \in Int /\ Month(m) = k
    BY <1>3, <1>6, MinuteOf DEF Dated
  <2>2. m \in {Minute(r.t) : r \in B \cup eB}
    <3>1. m \in {Minute(r.t) : r \in A} <=> m \in {Minute(r.t) : r \in B}
      BY <1>2, <1>3, <1>4, <1>8, <2>1, SameMinutes
    <3>2. m \in {Minute(r.t) : r \in eA} <=> m \in {Minute(r.t) : r \in eB}
      BY <1>2, <1>3, <1>5, <1>8, <2>1, SameMinutes
    <3> QED BY <3>1, <3>2
  <2>3. flow(A, m) = flow(B, m)
    BY <1>2, <1>3, <1>4, <1>8, <2>1, SameMinutes
  <2>4. before(A, m) = before(B, m)
    <3>1. \A r : r \in A /\ Minute(r.t) <= m <=> r \in B /\ Minute(r.t) <= m
      BY <1>2, <1>3, <1>4, <1>8, <2>1, SameMinutes
    <3>2. \A r \in A \cup B : Minute(r.t) \in Int
      BY <1>3, MinuteOf DEF Dated
    <3>3. {r \in A : Minute(r.t) < m} = {r \in B : Minute(r.t) < m}
      BY <2>1, <3>1, <3>2
    <3> QED BY <3>3
  <2>5. pA = pB
    <3>1. k \in Int
      BY <2>1, MonthBounds
    <3>2. ASSUME NEW r \in pA \cup pB PROVE r.t < t0
      <4>1. r.t \in Nat /\ Minute(r.t) \in Int /\ Month(Minute(r.t)) < k
        BY <1>3, <1>7, MinuteOf DEF Dated
      <4>2. Month(Minute(r.t)) \in Int
        BY <4>1, MonthBounds
      <4>3. Minute(r.t) <= m
        BY <2>1, <3>1, <4>1, <4>2, MonthsInOrder
      <4> QED BY <1>2, <1>8, <2>1, <4>1, <4>3, OverBy
    <3> QED BY <1>4, <3>2 DEF SameUntil, Until
  <2> HIDE DEF flow, before, carried
  <2> QED BY <2>2, <2>3, <2>4, <2>5
<1> HIDE DEF row, carried
<1> QED BY <1>1, <1>8 DEF Keeps

\* The surface: the last quote of every contract in a minute.
LEMMA SurfaceKept ==
    ASSUME NEW cA, NEW cB, NEW iA, NEW iB, NEW t0 \in Nat, Dated(cA), Dated(cB), Dated(iA), Dated(iB),
           SameUntil(cA, cB, t0), SameUntil(iA, iB, t0)
    PROVE  Keeps(SurfaceFeature(cA, iA), SurfaceFeature(cB, iB), Minute(t0))
<1> DEFINE chosen(c, i) == i \cup {r \in c : \A o \in i : InstrumentInstant(o) # InstrumentInstant(r)}
           last(X) == {r \in X : \A o \in X : o.name = r.name /\ Minute(o.t) = Minute(r.t) => o.t <= r.t}
           quotes(X) == {r \in last(X) : r.v = "ok"}
           surface(Q) == [m \in {Minute(r.t) : r \in Q} |-> [surface |-> {r \in Q : Minute(r.t) = m}]]
           A == chosen(cA, iA)
           B == chosen(cB, iB)
<1>1. SurfaceFeature(cA, iA) = surface(quotes(A)) /\ SurfaceFeature(cB, iB) = surface(quotes(B))
  BY DEF SurfaceFeature
<1>2. SameUntil(A, B, t0)
  <2>1. \A r : r \in iA /\ r.t < t0 <=> r \in iB /\ r.t < t0
    BY DEF SameUntil, Until
  <2>2. \A r : r \in cA /\ r.t < t0 <=> r \in cB /\ r.t < t0
    BY DEF SameUntil, Until
  <2>3. \A r, o : InstrumentInstant(o) = InstrumentInstant(r) => o.t = r.t
    BY DEF InstrumentInstant
  <2>4. ASSUME NEW r, r.t < t0
        PROVE  (\A o \in iA : InstrumentInstant(o) # InstrumentInstant(r))
                <=> (\A o \in iB : InstrumentInstant(o) # InstrumentInstant(r))
    BY <2>1, <2>3, <2>4
  <2>5. ASSUME NEW r, r.t < t0 PROVE r \in A <=> r \in B
    BY <2>1, <2>2, <2>4, <2>5
  <2> HIDE DEF A, B
  <2> QED BY <2>5 DEF SameUntil, Until
<1>3. Dated(A) /\ Dated(B)
  BY DEF Dated
<1> HIDE DEF A, B
<1>4. ASSUME NEW m \in Int, m + 1 <= Minute(t0), NEW r, Minute(r.t) = m
      PROVE  r \in quotes(A) <=> r \in quotes(B)
  <2>1. \A o : o \in A /\ Minute(o.t) = m <=> o \in B /\ Minute(o.t) = m
    <3>1. {o \in A : Minute(o.t) = m} = {o \in B : Minute(o.t) = m}
      BY <1>2, <1>3, <1>4, SameMinutes
    <3> QED BY <3>1
  <2> QED BY <1>4, <2>1
<1>5. ASSUME NEW m \in {Minute(r.t) : r \in quotes(A)}, m + 1 <= Minute(t0)
      PROVE  /\ m \in {Minute(r.t) : r \in quotes(B)}
             /\ {r \in quotes(A) : Minute(r.t) = m} = {r \in quotes(B) : Minute(r.t) = m}
  <2>1. m \in Int
    BY <1>3, MinuteOf DEF Dated
  <2> HIDE DEF quotes
  <2> QED BY <1>4, <1>5, <2>1
<1> HIDE DEF quotes
<1> QED BY <1>1, <1>5 DEF Keeps

-----------------------------------------------------------------------------
\* Windows that end with a minute that is over.
LEMMA WindowsUntil ==
    ASSUME NEW A, NEW B, NEW t0 \in Nat, Dated(A), Dated(B), SameUntil(A, B, t0),
           NEW m \in Int, m + 1 <= Minute(t0)
    PROVE  LET mA == {Minute(r.t) : r \in A}
               mB == {Minute(r.t) : r \in B}
           IN  /\ \A x : x \in mA /\ x <= m <=> x \in mB /\ x <= m
               /\ Earlier(mA, m) = Earlier(mB, m) /\ LastBefore(mA, m) = LastBefore(mB, m)
               /\ Trailing(mA, m, Window) = Trailing(mB, m, Window)
               /\ ClosedTrailing(mA, m, Window) = ClosedTrailing(mB, m, Window)
<1> DEFINE mA == {Minute(r.t) : r \in A}
           mB == {Minute(r.t) : r \in B}
<1>1. \A r : r \in A /\ Minute(r.t) <= m <=> r \in B /\ Minute(r.t) <= m
  BY SameMinutes
<1>2. \A x : x \in mA /\ x <= m <=> x \in mB /\ x <= m
  BY <1>1
<1>3. mA \subseteq Int /\ mB \subseteq Int
  BY MinuteOf DEF Dated
<1> HIDE DEF mA, mB
<1>4. Earlier(mA, m) = Earlier(mB, m)
  <2>1. ASSUME NEW x PROVE x \in Earlier(mA, m) <=> x \in Earlier(mB, m)
    <3>1. CASE x \in Int
      <4>1. x < m => x <= m
        BY <3>1
      <4> QED BY <1>2, <4>1 DEF Earlier
    <3>2. CASE x \notin Int
      BY <1>3, <3>2 DEF Earlier
    <3> QED BY <3>1, <3>2
  <2> QED BY <2>1 DEF Earlier
<1>5. Trailing(mA, m, Window) = Trailing(mB, m, Window)
  BY <1>2 DEF Trailing
<1>6. ClosedTrailing(mA, m, Window) = ClosedTrailing(mB, m, Window)
  BY <1>2 DEF ClosedTrailing
<1> QED BY <1>2, <1>4, <1>5, <1>6 DEF LastBefore, mA, mB

\* The minute before another one.
LEMMA PreviousIsEarlier ==
    ASSUME NEW ms, ms \subseteq Minutes, NEW m \in Int, LastBefore(ms, m) # {}
    PROVE  /\ Max(Earlier(ms, m)) \in Int /\ Max(Earlier(ms, m)) < m
           /\ LastBefore(ms, m) = {Max(Earlier(ms, m))}
<1> DEFINE S == Earlier(ms, m)
<1>1. IsFiniteSet(Minutes)
  BY FS_Interval DEF Minutes
<1>2. Minutes \subseteq Int
  BY DEF Minutes
<1>3. S \subseteq Int /\ IsFiniteSet(S) /\ S # {} /\ \A x \in S : x < m
  BY <1>1, <1>2, FS_Subset DEF Earlier, LastBefore
<1> HIDE DEF S
<1>4. PICK g \in S : \A y \in S : y <= g
  BY <1>3, GreatestInteger
<1>5. Max(S) = g
  BY <1>3, <1>4, GreatestOfPart
<1>6. Max(S) \in Int /\ Max(S) < m
  BY <1>3, <1>5
<1> QED BY <1>3, <1>6 DEF LastBefore, S

\* Cutting out a month changes nothing in it.
LEMMA TrimKept ==
    ASSUME NEW before, NEW after, NEW c, Keeps(before, after, c), NEW k
    PROVE  Keeps(Trim(before, k), Trim(after, k), c)
BY DEF Keeps, Trim, Restrict

\* The volatility index looks back only.
LEMMA VolatilityKept ==
    ASSUME NEW A, NEW B, NEW t0 \in Nat, Dated(A), Dated(B), SameUntil(A, B, t0)
    PROVE  Keeps(VolatilityFrame(A), VolatilityFrame(B), Minute(t0))
<1> DEFINE mA == {Minute(r.t) : r \in A}
           mB == {Minute(r.t) : r \in B}
<1>1. /\ VolatilityFrame(A) = [m \in mA |-> VolatilityRow(A, mA, m)]
      /\ VolatilityFrame(B) = [m \in mB |-> VolatilityRow(B, mB, m)]
  BY DEF VolatilityFrame, VolatilityRow, AtMinutes
<1>2. mA \subseteq Minutes /\ mA \subseteq Int
  BY DEF Dated, Minutes
<1>3. ASSUME NEW m \in mA, m + 1 <= Minute(t0) PROVE m \in mB /\ VolatilityRow(A, mA, m) = VolatilityRow(B, mB, m)
  <2>1. m \in Int
    BY <1>2
  <2>2. /\ \A x : x \in mA /\ x <= m <=> x \in mB /\ x <= m
        /\ Earlier(mA, m) = Earlier(mB, m) /\ LastBefore(mA, m) = LastBefore(mB, m)
        /\ Trailing(mA, m, Window) = Trailing(mB, m, Window)
        /\ ClosedTrailing(mA, m, Window) = ClosedTrailing(mB, m, Window)
    BY <1>3, <2>1, WindowsUntil
  <2>3. \A r : r \in A /\ Minute(r.t) <= m <=> r \in B /\ Minute(r.t) <= m
    BY <1>3, <2>1, SameMinutes
  <2>4. \A set : (\A x \in set : x <= m) => AtMinutes(A, set) = AtMinutes(B, set)
    BY <2>3 DEF AtMinutes
  <2> HIDE DEF mA, mB
  <2>5. m <= m /\ m \in mB
    BY <1>3, <2>1, <2>2
  <2>6. /\ \A x \in Trailing(mA, m, Window) : x <= m
        /\ \A x \in ClosedTrailing(mA, m, Window) : x <= m
    BY DEF Trailing, ClosedTrailing
  <2>7. \A x \in LastBefore(mA, m) : x <= m
    <3>1. CASE LastBefore(mA, m) = {}
      BY <3>1
    <3>2. CASE LastBefore(mA, m) # {}
      <4> DEFINE y == Max(Earlier(mA, m))
      <4>1. y \in Int /\ y < m /\ LastBefore(mA, m) = {y}
        BY <1>2, <2>1, <3>2, PreviousIsEarlier
      <4> HIDE DEF y
      <4>2. y <= m
        BY <2>1, <4>1
      <4> QED BY <4>1, <4>2
    <3> QED BY <3>1, <3>2
  <2>8. \A x \in {m} \cup LastBefore(mA, m) : x <= m
    BY <2>5, <2>7
  <2>9. /\ AtMinutes(A, {m}) = AtMinutes(B, {m})
        /\ AtMinutes(A, {m} \cup LastBefore(mA, m)) = AtMinutes(B, {m} \cup LastBefore(mA, m))
    BY <2>4, <2>5, <2>8
  <2>10. /\ AtMinutes(A, Trailing(mA, m, Window)) = AtMinutes(B, Trailing(mA, m, Window))
         /\ AtMinutes(A, ClosedTrailing(mA, m, Window)) = AtMinutes(B, ClosedTrailing(mA, m, Window))
    BY <2>4, <2>6
  <2> QED BY <2>2, <2>5, <2>9, <2>10 DEF VolatilityRow
<1> HIDE DEF mA, mB
<1> QED BY <1>1, <1>3 DEF Keeps

\* Realized volatility looks back only.
LEMMA RollingUntil ==
    ASSUME NEW A, NEW B, NEW t0 \in Nat, Dated(A), Dated(B), SameUntil(A, B, t0),
           NEW m \in Int, m + 1 <= Minute(t0)
    PROVE  RollingVolatility(A, m) = RollingVolatility(B, m)
<1> DEFINE mA == {Minute(r.t) : r \in A}
           mB == {Minute(r.t) : r \in B}
           at(rows, x) == {r \in rows : Minute(r.t) = x}
<1>1. ASSUME NEW x \in Int, x <= m PROVE Return(A, x) = Return(B, x)
  <2>1. Minute(t0) \in Int /\ x + 1 <= Minute(t0)
    BY <1>1, MinuteOf
  <2>2. Earlier(mA, x) = Earlier(mB, x) /\ LastBefore(mA, x) = LastBefore(mB, x) /\ (x \in mA <=> x \in mB)
    BY <1>1, <2>1, WindowsUntil, SameMinutes
  <2>3. at(A, x) = at(B, x)
    BY <1>1, <2>1, SameMinutes
  <2>4. LastBefore(mA, x) # {} => at(A, Max(Earlier(mA, x))) = at(B, Max(Earlier(mA, x)))
    <3> SUFFICES ASSUME LastBefore(mA, x) # {} PROVE at(A, Max(Earlier(mA, x))) = at(B, Max(Earlier(mA, x)))
      OBVIOUS
    <3> DEFINE y == Max(Earlier(mA, x))
    <3>1. y \in Int /\ y < x
      <4>1. mA \subseteq Minutes
        BY DEF Dated
      <4> HIDE DEF mA
      <4> QED BY <1>1, <4>1, PreviousIsEarlier
    <3>2. y + 1 <= Minute(t0)
      BY <1>1, <2>1, <3>1
    <3>3. ASSUME NEW z \in Int, z + 1 <= Minute(t0) PROVE at(A, z) = at(B, z)
      BY <3>3, SameMinutes
    <3> HIDE DEF y, at
    <3>4. at(A, y) = at(B, y)
      BY <3>1, <3>2, <3>3
    <3> QED BY <3>4 DEF y
  <2>5. /\ Return(A, x) = IF x \notin mA \/ LastBefore(mA, x) = {} THEN {} ELSE at(A, x) \cup at(A, Max(Earlier(mA, x)))
        /\ Return(B, x) = IF x \notin mB \/ LastBefore(mB, x) = {} THEN {} ELSE at(B, x) \cup at(B, Max(Earlier(mB, x)))
    BY DEF Return
  <2> HIDE DEF mA, mB, at
  <2> QED BY <2>2, <2>3, <2>4, <2>5
<1>2. Trailing(mA, m, Window) = Trailing(mB, m, Window)
  BY WindowsUntil
<1>3. \A x \in Trailing(mA, m, Window) : x \in Int /\ x <= m
  BY MinuteOf DEF Dated, Trailing
<1>4. m <= m
  OBVIOUS
<1>5. /\ RollingVolatility(A, m) = IF Return(A, m) = {} THEN {} ELSE UNION {Return(A, x) : x \in Trailing(mA, m, Window)}
      /\ RollingVolatility(B, m) = IF Return(B, m) = {} THEN {} ELSE UNION {Return(B, x) : x \in Trailing(mB, m, Window)}
  BY DEF RollingVolatility
<1> HIDE DEF mA, mB
<1>6. {Return(A, x) : x \in Trailing(mA, m, Window)} = {Return(B, x) : x \in Trailing(mB, m, Window)}
  BY <1>1, <1>2, <1>3
<1> QED BY <1>1, <1>4, <1>5, <1>6

\* Rows of the month and of the months before lie in minutes of the model.
LEMMA OverDated ==
    ASSUME NEW b, NEW b2, NEW t0, Continues(b, b2, t0), NEW src, NEW keys
    PROVE  Dated(Over(b, src, keys)) /\ Dated(Over(b2, src, keys))
<1>1. b \subseteq b2 /\ \A r \in b2 : r.t \in Nat /\ Minute(r.t) \in Minutes
  BY DEF Continues, RowsFit
<1> QED BY <1>1, OverRows DEF Dated

LEMMA MonthDated ==
    ASSUME NEW b, NEW b2, NEW t0, Continues(b, b2, t0), NEW src, NEW k
    PROVE  LET A == ObservedMonth(b, src, k)
               B == ObservedMonth(b2, src, k)
           IN  /\ Dated(A) /\ Dated(B) /\ IsFiniteSet(A) /\ IsFiniteSet(B)
               /\ SameUntil(A, B, t0) /\ \A r \in A : \E o \in B : o.t = r.t
<1>1. b \subseteq b2 /\ IsFiniteSet(b2) /\ \A r \in b2 : r.t \in Nat /\ Minute(r.t) \in Minutes
  BY DEF Continues, RowsFit
<1>2. ObservedMonth(b, src, k) \subseteq b2 /\ ObservedMonth(b2, src, k) \subseteq b2
  BY <1>1, ObservedInMonth
<1>3. IsFiniteSet(ObservedMonth(b, src, k)) /\ IsFiniteSet(ObservedMonth(b2, src, k))
  BY <1>1, <1>2, FS_Subset
<1> QED BY <1>1, <1>2, <1>3, ObservedUntil DEF Dated

\* The volatility index of a month: the snapshot of an instant replaces the historical value.
LEMMA IvMonthKept ==
    ASSUME NEW b, NEW b2, NEW t0, Continues(b, b2, t0), NEW k, NEW keys
    PROVE  Keeps(IvMonth(b, k, keys), IvMonth(b2, k, keys), Minute(t0))
<1> DEFINE hA == Over(b, "volatility_index_data", keys)
           hB == Over(b2, "volatility_index_data", keys)
           sA == Over(b, "volatility_index_snapshot_1m", keys)
           sB == Over(b2, "volatility_index_snapshot_1m", keys)
           A == MergedVolatility(hA, sA)
           B == MergedVolatility(hB, sB)
<1>1. SameUntil(hA, hB, t0) /\ SameUntil(sA, sB, t0) /\ t0 \in Nat
  BY OverUntil DEF Continues
<1>2. Dated(hA) /\ Dated(hB) /\ Dated(sA) /\ Dated(sB)
  BY OverDated
<1>3. IvMonth(b, k, keys) = Trim(VolatilityFrame(A), k) /\ IvMonth(b2, k, keys) = Trim(VolatilityFrame(B), k)
  BY DEF IvMonth
<1> HIDE DEF hA, hB, sA, sB
<1>4. Dated(A) /\ Dated(B)
  BY <1>2 DEF Dated, MergedVolatility
<1>5. SameUntil(A, B, t0)
  <2>1. \A r : r \in sA /\ r.t < t0 <=> r \in sB /\ r.t < t0
    BY <1>1 DEF SameUntil, Until
  <2>2. \A r : r \in hA /\ r.t < t0 <=> r \in hB /\ r.t < t0
    BY <1>1 DEF SameUntil, Until
  <2>3. ASSUME NEW r, r.t < t0 PROVE (\A o \in sA : o.t # r.t) <=> (\A o \in sB : o.t # r.t)
    BY <2>1, <2>3
  <2>4. ASSUME NEW r, r.t < t0 PROVE r \in A <=> r \in B
    BY <2>1, <2>2, <2>3, <2>4 DEF MergedVolatility
  <2> HIDE DEF A, B
  <2> QED BY <2>4 DEF SameUntil, Until
<1> HIDE DEF A, B
<1> QED BY <1>1, <1>3, <1>4, <1>5, VolatilityKept, TrimKept

\* Realized volatility; the canonical series is that of the symbol.
LEMMA RvMonthSettled ==
    ASSUME NEW b, NEW b2, NEW t0, Continues(b, b2, t0), NEW k, NEW keys
    PROVE  Settled(RvMonth(b, k, keys), RvMonth(b2, k, keys), 1, Minute(t0),
                   IF Canonical(b) = Canonical(b2) THEN {} ELSE {"rv"})
<1> DEFINE sA == Over(b, "spot_ohlcv", keys)
           sB == Over(b2, "spot_ohlcv", keys)
           pA == Over(b, "perps_ohlcv", keys)
           pB == Over(b2, "perps_ohlcv", keys)
           cA == Canonical(b)
           cB == Canonical(b2)
           row(s, p, c, m) == [spot_rv |-> RollingVolatility(s, m),
                               perps_rv |-> RollingVolatility(p, m),
                               rv |-> RollingVolatility(IF c = "perps" THEN p ELSE s, m)]
           ms(s, p) == {Minute(r.t) : r \in s \cup p} \cap MinutesOf(k)
<1>1. SameUntil(sA, sB, t0) /\ SameUntil(pA, pB, t0) /\ t0 \in Nat
  BY OverUntil DEF Continues
<1>2. Dated(sA) /\ Dated(sB) /\ Dated(pA) /\ Dated(pB)
  BY OverDated
<1>3. /\ RvMonth(b, k, keys) = [m \in ms(sA, pA) |-> row(sA, pA, cA, m)]
      /\ RvMonth(b2, k, keys) = [m \in ms(sB, pB) |-> row(sB, pB, cB, m)]
  <2>1. ASSUME NEW s, NEW p, NEW c
        PROVE  Trim(RealizedVolatilityFrame(s, p, c), k) = [m \in ms(s, p) |-> row(s, p, c, m)]
    BY DEF Trim, Restrict, RealizedVolatilityFrame
  <2>2. /\ RvMonth(b, k, keys) = Trim(RealizedVolatilityFrame(sA, pA, cA), k)
        /\ RvMonth(b2, k, keys) = Trim(RealizedVolatilityFrame(sB, pB, cB), k)
    BY DEF RvMonth, Canonical
  <2> HIDE DEF row, ms, sA, sB, pA, pB, cA, cB
  <2> QED BY <2>1, <2>2
<1> HIDE DEF sA, sB, pA, pB, cA, cB
<1>4. ASSUME NEW m \in ms(sA, pA), m + 1 <= Minute(t0)
      PROVE  /\ m \in ms(sB, pB)
             /\ RollingVolatility(sA, m) = RollingVolatility(sB, m)
             /\ RollingVolatility(pA, m) = RollingVolatility(pB, m)
  <2>1. m \in Int
    BY DEF MinutesOf, Minutes
  <2>2. /\ m \in {Minute(r.t) : r \in sA} <=> m \in {Minute(r.t) : r \in sB}
        /\ m \in {Minute(r.t) : r \in pA} <=> m \in {Minute(r.t) : r \in pB}
    BY <1>1, <1>2, <1>4, <2>1, SameMinutes
  <2>3. RollingVolatility(sA, m) = RollingVolatility(sB, m) /\ RollingVolatility(pA, m) = RollingVolatility(pB, m)
    BY <1>1, <1>2, <1>4, <2>1, RollingUntil
  <2> QED BY <2>2, <2>3
<1> DEFINE remade == IF cA = cB THEN {} ELSE {"rv"}
<1>5. ASSUME NEW m \in ms(sA, pA), m + 1 <= Minute(t0), NEW c \in {"spot_rv", "perps_rv", "rv"} \ remade
      PROVE  row(sB, pB, cB, m)[c] = row(sA, pA, cA, m)[c]
  BY <1>4, <1>5
<1>6. \A s, p, c, m : DOMAIN row(s, p, c, m) = {"spot_rv", "perps_rv", "rv"}
  OBVIOUS
<1>7. \A m \in ms(sA, pA) : m + 1 <= Minute(t0) => m \in ms(sB, pB)
  BY <1>4
<1> HIDE DEF row, ms, remade
<1>8. Settled([m \in ms(sA, pA) |-> row(sA, pA, cA, m)], [m \in ms(sB, pB) |-> row(sB, pB, cB, m)], 1, Minute(t0), remade)
  BY <1>5, <1>6, <1>7 DEF Settled, Cell
<1> QED BY <1>3, <1>8 DEF remade, cA, cB

\* What is kept of all instants before t0 is kept of the minutes over by then.
LEMMA KeptBefore ==
    ASSUME NEW before, NEW after, NEW t0 \in Nat, DOMAIN before \subseteq Nat, Keeps(before, after, t0)
    PROVE  Keeps(before, after, Minute(t0))
<1>1. Minute(t0) \in Int /\ Minute(t0) <= t0
  <2>1. Minute(t0) \in Int /\ Minute(t0) * Ticks <= t0 /\ t0 < Minute(t0) * Ticks + Ticks
    BY MinuteOf
  <2>2. Minute(t0) <= t0
    <3>1. Ticks \in Nat \ {0}
      OBVIOUS
    <3>2. CASE Minute(t0) < 1
      BY <2>1, <3>2
    <3>3. CASE Minute(t0) >= 1
      <4>1. Minute(t0) * 1 <= Minute(t0) * Ticks
        BY <2>1, <3>1, <3>3
      <4> QED BY <2>1, <3>1, <4>1
    <3> QED BY <2>1, <3>2, <3>3
  <2> QED BY <2>1, <2>2
<1> QED BY <1>1 DEF Keeps

\* What a builder of a month says of the minutes that were over, it goes on saying.
LEMMA SourceMonthSettled ==
    ASSUME NEW b, NEW b2, NEW t0, Continues(b, b2, t0), NEW d, d \notin PerContract, NEW k \in Months, NEW keys
    PROVE  Settled(SourceMonth(d, b, k, keys), SourceMonth(d, b2, k, keys), 1,
                   IF d \in LiveSnapshots THEN t0 ELSE Minute(t0),
                   IF Canonical(b) = Canonical(b2) THEN {} ELSE {"rv"})
<1> DEFINE F(x) == SourceMonth(d, x, k, keys)
           observed(src, x) == ObservedMonth(x, src, k)
           c == IF d \in LiveSnapshots THEN t0 ELSE Minute(t0)
<1>1. t0 \in Nat
  BY DEF Continues
<1>2. \A src : /\ Dated(observed(src, b)) /\ Dated(observed(src, b2))
               /\ IsFiniteSet(observed(src, b)) /\ IsFiniteSet(observed(src, b2))
               /\ SameUntil(observed(src, b), observed(src, b2), t0)
               /\ \A r \in observed(src, b) : \E o \in observed(src, b2) : o.t = r.t
  BY MonthDated
<1>3. ASSUME Keeps(F(b), F(b2), c) PROVE Settled(F(b), F(b2), 1, c, IF Canonical(b) = Canonical(b2) THEN {} ELSE {"rv"})
  BY <1>3, KeptIsSettled
<1> DEFINE built == {"spot_ohlcv", "perps_ohlcv", "funding_1m_feature", "open_interest_1m_feature",
                     "perps_trades_1m_feature", "options_trades_1m_feature", "volatility_index_1m_feature",
                     "realized_volatility_1m_feature", "index_price_1m_feature", "options_surface_1m_feature",
                     "historical_volatility_observed"}
<1>4. built \cap LiveSnapshots = {}
  BY DEF LiveSnapshots, ContractSnapshots, MarketSnapshots, LineageOnly
<1>5. ASSUME d = "spot_ohlcv" PROVE Keeps(F(b), F(b2), c)
  <2>1. /\ F(b) = CandleFrame(observed("spot_ohlcv", b), SpotRow)
        /\ F(b2) = CandleFrame(observed("spot_ohlcv", b2), SpotRow)
        /\ c = Minute(t0)
    BY <1>4, <1>5 DEF SourceMonth
  <2> HIDE DEF F, observed, c
  <2> QED BY <1>1, <1>2, <2>1, CandlesKept
<1>6. ASSUME d = "perps_ohlcv" PROVE Keeps(F(b), F(b2), c)
  <2>1. /\ F(b) = CandleFrame(observed("perps_ohlcv", b), PerpsRow)
        /\ F(b2) = CandleFrame(observed("perps_ohlcv", b2), PerpsRow)
        /\ c = Minute(t0)
    BY <1>4, <1>6 DEF SourceMonth
  <2> HIDE DEF F, observed, c
  <2> QED BY <1>1, <1>2, <2>1, CandlesKept
<1>7. ASSUME d = "historical_volatility_observed" PROVE Keeps(F(b), F(b2), c)
  <2>1. /\ F(b) = CandleFrame(observed("historical_volatility", b), HistoricalVolatilityRow)
        /\ F(b2) = CandleFrame(observed("historical_volatility", b2), HistoricalVolatilityRow)
        /\ c = Minute(t0)
    BY <1>4, <1>7 DEF SourceMonth
  <2> HIDE DEF F, observed, c
  <2> QED BY <1>1, <1>2, <2>1, CandlesKept
<1>8. ASSUME d = "funding_1m_feature" PROVE Keeps(F(b), F(b2), c)
  <2>1. /\ F(b) = FundingFeature(observed("funding", b), k)
        /\ F(b2) = FundingFeature(observed("funding", b2), k)
        /\ c = Minute(t0)
    BY <1>4, <1>8 DEF SourceMonth
  <2> HIDE DEF F, observed, c
  <2> QED BY <1>1, <1>2, <2>1, AsOfKept
<1>9. ASSUME d = "open_interest_1m_feature" PROVE Keeps(F(b), F(b2), c)
  <2>1. /\ F(b) = OpenInterestFeature(observed("open_interest", b), k)
        /\ F(b2) = OpenInterestFeature(observed("open_interest", b2), k)
        /\ c = Minute(t0)
    BY <1>4, <1>9 DEF SourceMonth
  <2> HIDE DEF F, observed, c
  <2> QED BY <1>1, <1>2, <2>1, AsOfKept
<1>10. ASSUME d = "index_price_1m_feature" PROVE Keeps(F(b), F(b2), c)
  <2>1. /\ F(b) = IndexPriceFeature(observed("index_price_snapshot_1m", b))
        /\ F(b2) = IndexPriceFeature(observed("index_price_snapshot_1m", b2))
        /\ c = Minute(t0)
    BY <1>4, <1>10 DEF SourceMonth
  <2> HIDE DEF F, observed, c
  <2> QED BY <1>1, <1>2, <2>1, AsOfKept
<1>11. ASSUME d = "perps_trades_1m_feature" PROVE Keeps(F(b), F(b2), c)
  <2>1. /\ F(b) = TradesMonth(b, "perps_trades", "perps_trades_empty_minutes", k)
        /\ F(b2) = TradesMonth(b2, "perps_trades", "perps_trades_empty_minutes", k)
        /\ c = Minute(t0)
    BY <1>4, <1>11 DEF SourceMonth
  <2> HIDE DEF F, observed, c
  <2> QED BY <1>1, <1>2, <2>1, TradesKept
<1>12. ASSUME d = "options_trades_1m_feature" PROVE Keeps(F(b), F(b2), c)
  <2>1. /\ F(b) = TradesMonth(b, "options_trades", "options_trades_empty_minutes", k)
        /\ F(b2) = TradesMonth(b2, "options_trades", "options_trades_empty_minutes", k)
        /\ c = Minute(t0)
    BY <1>4, <1>12 DEF SourceMonth
  <2> HIDE DEF F, observed, c
  <2> QED BY <1>1, <1>2, <2>1, TradesKept
<1>13. ASSUME d = "volatility_index_1m_feature" PROVE Keeps(F(b), F(b2), c)
  <2>1. F(b) = IvMonth(b, k, keys) /\ F(b2) = IvMonth(b2, k, keys) /\ c = Minute(t0)
    BY <1>4, <1>13 DEF SourceMonth
  <2> HIDE DEF F, observed, c
  <2> QED BY <1>1, <1>2, <2>1, IvMonthKept
<1>14. ASSUME d = "options_surface_1m_feature" PROVE Keeps(F(b), F(b2), c)
  <2>1. /\ F(b) = SurfaceFeature(observed("options_ticker_snapshot_1m", b),
                                 observed("options_instrument_ticker_snapshot_1m", b))
        /\ F(b2) = SurfaceFeature(observed("options_ticker_snapshot_1m", b2),
                                  observed("options_instrument_ticker_snapshot_1m", b2))
        /\ c = Minute(t0)
    BY <1>4, <1>14 DEF SourceMonth
  <2> HIDE DEF F, observed, c
  <2> QED BY <1>1, <1>2, <2>1, SurfaceKept
<1>15. ASSUME d = "realized_volatility_1m_feature"
      PROVE  Settled(F(b), F(b2), 1, c, IF Canonical(b) = Canonical(b2) THEN {} ELSE {"rv"})
  <2>1. F(b) = RvMonth(b, k, keys) /\ F(b2) = RvMonth(b2, k, keys) /\ c = Minute(t0)
    BY <1>4, <1>15 DEF SourceMonth
  <2> HIDE DEF F, c
  <2> QED BY <2>1, RvMonthSettled
<1>16. ASSUME d \notin built PROVE Keeps(F(b), F(b2), c)
  <2>1. F(b) = SnapshotFrame(observed(d, b)) /\ F(b2) = SnapshotFrame(observed(d, b2))
    BY <1>16 DEF SourceMonth, PerContract
  <2>2. DOMAIN SnapshotFrame(observed(d, b)) \subseteq Nat
    BY <1>2 DEF SnapshotFrame, Dated
  <2> HIDE DEF F, observed
  <2>3. Keeps(F(b), F(b2), t0)
    BY <1>1, <1>2, <2>1, SnapshotsKept
  <2>4. Keeps(F(b), F(b2), Minute(t0))
    BY <1>1, <2>1, <2>2, <2>3, KeptBefore
  <2> QED BY <2>3, <2>4
<1> HIDE DEF F, c
<1>17. d \in built \ {"realized_volatility_1m_feature"} => Keeps(F(b), F(b2), c)
  BY <1>5, <1>6, <1>7, <1>8, <1>9, <1>10, <1>11, <1>12, <1>13, <1>14
<1> QED BY <1>3, <1>15, <1>16, <1>17 DEF F, c

-----------------------------------------------------------------------------
(* Silver does not look ahead.                                             *)

\* No command reads Bronze for Silver while another has read it and not published yet.
ReadsApart == \A p, q \in Processes : pc[p] = "silver_publish" /\ pc[q] = "silver_publish" => p = q

Sources == SilverIds \ DerivedDatasets

\* A Silver dataset was built from the rows Silver remembers, if it was built at all, and is
\* built again by whoever has read for the next publication.
SourcesStand ==
    /\ \A d \in Sources :
        \/ \A k \in Months : silver.frame[d][k] = NoFrame
        \/ /\ d \in Scheduled(silver.frame)
           /\ \A k \in Months : silver.frame[d][k] = SourceMonth(d, silver.rows, k, CalculationKeys(k))
    /\ \A p \in Processes : pc[p] = "silver_publish" =>
        /\ silver.rows \subseteq seen[p].rows
        /\ \A d \in Sources : d \in seen[p].frame <=> d \in Scheduled(silver.frame)

\* Rows that are published again are rows of the scenario, and the later ones come later.
LEMMA RowsContinue ==
    ASSUME IInv, FramesFit, NEW b, NEW b2 \in SUBSET bronze, b \subseteq b2
    PROVE  /\ Continues(b, b2, 0)
           /\ b # b2 => Continues(b, b2, NewFrom(b, b2))
<1>1. b2 \subseteq RowsOf(scenario) /\ scenario \in Scenarios
  BY DEF IInv, TypeOK, LayersHoldRows, FramesFit
<1>2. RowsFit(b2)
  BY <1>1, RowsAssumption, FS_Subset DEF RowsFit
<1>3. Continues(b, b2, 0)
  BY <1>2 DEF Continues, RowsFit
<1>4. ASSUME b # b2 PROVE Continues(b, b2, NewFrom(b, b2))
  <2> DEFINE X == b2 \ b
  <2>1. IsFiniteSet(X) /\ Dated(X) /\ X # {}
    BY <1>2, <1>4, FS_Subset DEF RowsFit, Dated
  <2>2. NewFrom(b, b2) = FirstInstant(X)
    BY DEF NewFrom, FirstInstant
  <2> HIDE DEF X
  <2>3. FirstInstant(X) \in Nat /\ \A r \in X : FirstInstant(X) <= r.t
    BY <2>1, EndsOfRows
  <2> QED BY <1>2, <2>2, <2>3 DEF Continues, X
<1> QED BY <1>3, <1>4

\* What others are built from does not disappear.
LEMMA DataStays ==
    ASSUME NEW b, NEW b2, NEW t0, Continues(b, b2, t0), NEW k, NEW keys,
           NEW s \in {"spot_ohlcv", "perps_ohlcv", "options_ticker_snapshot_1m", "options_instrument_ticker_snapshot_1m"},
           DOMAIN SourceMonth(s, b, k, keys) # {}
    PROVE  DOMAIN SourceMonth(s, b2, k, keys) # {}
<1>1. \A x : DOMAIN SourceMonth(s, x, k, keys) # {} <=> ObservedMonth(x, s, k) # {}
  <2>1. CASE s = "spot_ohlcv"
    BY <2>1 DEF SourceMonth, CandleFrame
  <2>2. CASE s = "perps_ohlcv"
    BY <2>2 DEF SourceMonth, CandleFrame
  <2>3. CASE s \in {"options_ticker_snapshot_1m", "options_instrument_ticker_snapshot_1m"}
    BY <2>3 DEF SourceMonth, SnapshotFrame
  <2> QED BY <2>1, <2>2, <2>3
<1> QED BY <1>1, ObservedUntil

\* What is scheduled, said of the datasets built from Bronze.
LEMMA ScheduledSources ==
    ASSUME NEW frame, DOMAIN frame = SilverIds, NEW d \in Sources
    PROVE  d \in Scheduled(frame) <=>
            (d \in DOMAIN SilverInputs => \E s \in SilverInputs[d] \cap Sources, k \in Months : DOMAIN frame[s][k] # {})
<1>1. d # "historical_prediction_1m_feature" /\ d \in SilverIds /\ d # "iv_rv_1m_feature"
  BY DEF Sources, DerivedDatasets
<1>2. CASE d \notin DOMAIN SilverInputs
  BY <1>1, <1>2 DEF Scheduled
<1>3. CASE d \in DOMAIN SilverInputs
  <2>1. SilverInputs[d] \cap DerivedDatasets = {} /\ SilverInputs[d] \subseteq SilverIds
    <3>1. d \in {"realized_volatility_1m_feature", "options_surface_1m_feature"}
      BY <1>1, <1>3 DEF SilverInputs
    <3> QED BY <1>1, <1>3, <3>1, SilverAssumption DEF SilverInputs, DerivedDatasets
  <2>2. d \in Scheduled(frame) <=> \E s \in SilverInputs[d] : HasData(frame, s)
    BY <1>1, <1>3 DEF Scheduled
  <2> QED BY <1>3, <2>1, <2>2 DEF HasData, Sources
<1> QED BY <1>2, <1>3

LEMMA InitSourcesStand == Init => SourcesStand
BY DEF Init, SourcesStand, Sources, NoSilver, Content

\* A dataset built before is built again from the rows that are published now.
LEMMA BuiltAgain ==
    ASSUME IInv, FramesFit, SourcesStand, NEW p \in Processes, SilverPublish(p), NEW d \in Sources
    PROVE  LET Anew == /\ d \in Scheduled(silver'.frame)
                       /\ \A k \in Months : silver'.frame[d][k] = SourceMonth(d, silver'.rows, k, CalculationKeys(k))
           IN  /\ d \in Scheduled(silver.frame) => Anew
               /\ d \notin Scheduled(silver.frame) => \A k \in Months : silver.frame[d][k] = NoFrame /\ silver'.frame[d][k] = NoFrame
<1>1. /\ pc[p] = "silver_publish" /\ silver'.rows = seen[p].rows
      /\ silver.rows \subseteq seen[p].rows /\ seen[p].rows \subseteq bronze
      /\ \A s \in Sources : s \in seen[p].frame <=> s \in Scheduled(silver.frame)
      /\ DOMAIN silver.frame = SilverIds /\ DOMAIN silver'.frame = SilverIds
  BY DEF SilverPublish, SourcesStand, IInv, ReadsStand, TypeOK, LayersHoldRows, SilverSteps, Content
<1>2. \A s \in Sources, k \in Months :
        silver'.frame[s][k] = IF s \in Scheduled(silver.frame) THEN SourceMonth(s, silver'.rows, k, CalculationKeys(k))
                              ELSE silver.frame[s][k]
  BY <1>1, Published DEF Sources
<1>3. Continues(silver.rows, silver'.rows, 0)
  BY <1>1, RowsContinue
<1>4. ASSUME d \in Scheduled(silver.frame) PROVE d \in Scheduled(silver'.frame)
  <2>1. CASE d \notin DOMAIN SilverInputs
    BY <1>1, <2>1, ScheduledSources
  <2>2. CASE d \in DOMAIN SilverInputs
    <3>1. PICK s \in SilverInputs[d] \cap Sources, k \in Months : DOMAIN silver.frame[s][k] # {}
      BY <1>1, <1>4, <2>2, ScheduledSources
    <3>2. s \in {"spot_ohlcv", "perps_ohlcv", "options_ticker_snapshot_1m", "options_instrument_ticker_snapshot_1m"}
      BY <2>2, <3>1 DEF SilverInputs, Sources, DerivedDatasets
    <3>3. DOMAIN NoFrame = {}
      BY DEF NoFrame
    <3>4. s \in Scheduled(silver.frame) /\ silver.frame[s][k] = SourceMonth(s, silver.rows, k, CalculationKeys(k))
      BY <3>1, <3>3 DEF SourcesStand
    <3>5. DOMAIN silver'.frame[s][k] # {}
      BY <1>2, <1>3, <3>1, <3>2, <3>4, DataStays
    <3> QED BY <1>1, <3>1, <3>5, ScheduledSources
  <2> QED BY <2>1, <2>2
<1>5. d \notin Scheduled(silver.frame) => \A k \in Months : silver.frame[d][k] = NoFrame
  BY DEF SourcesStand
<1> QED BY <1>2, <1>4, <1>5

LEMMA SourcesStandNext == IInv /\ FramesFit /\ SourcesStand /\ ReadsApart /\ [Next]_vars => SourcesStand'
<1> SUFFICES ASSUME IInv, FramesFit, SourcesStand, ReadsApart, [Next]_vars PROVE SourcesStand'
  OBVIOUS
<1> DEFINE Built(d) == \/ \A k \in Months : silver.frame[d][k] = NoFrame
                       \/ /\ d \in Scheduled(silver.frame)
                          /\ \A k \in Months : silver.frame[d][k] = SourceMonth(d, silver.rows, k, CalculationKeys(k))
           Reads(p) == /\ silver.rows \subseteq seen[p].rows
                       /\ \A d \in Sources : d \in seen[p].frame <=> d \in Scheduled(silver.frame)
<1>1. silver.rows \subseteq bronze /\ DOMAIN silver.frame = SilverIds
  BY DEF IInv, TypeOK, LayersHoldRows
<1>2. CASE silver' = silver
  <2>1. ASSUME NEW d \in Sources PROVE Built(d)'
    BY <1>2 DEF SourcesStand
  <2>2. ASSUME NEW p \in Processes, pc'[p] = "silver_publish" PROVE Reads(p)'
    <3>1. CASE pc[p] = "silver_publish" /\ seen'[p] = seen[p]
      BY <1>2, <3>1 DEF SourcesStand
    <3>2. CASE SilverRead(p)
      <4>1. seen'[p].rows = bronze /\ seen'[p].frame = Scheduled(silver.frame)
        BY <3>2 DEF SilverRead, IInv, Formed, Content
      <4> QED BY <1>1, <1>2, <4>1
    <3> QED BY <2>2, <3>1, <3>2, WhatIsRead
  <2> QED BY <2>1, <2>2 DEF SourcesStand
<1>3. ASSUME NEW p \in Processes, SilverPublish(p) PROVE SourcesStand'
  <2>1. ASSUME NEW d \in Sources PROVE Built(d)'
    BY <1>3, <2>1, BuiltAgain
  <2>2. ASSUME NEW q \in Processes, pc'[q] = "silver_publish" PROVE FALSE
    <3>1. pc[p] = "silver_publish" /\ Moves(p, "silver_derive") /\ seen' = seen
      BY <1>3, OneMoves DEF SilverPublish, IInv
    <3>2. q # p /\ pc[q] = "silver_publish"
      BY <2>2, <3>1 DEF Moves
    <3> QED BY <3>1, <3>2 DEF ReadsApart
  <2> QED BY <2>1, <2>2 DEF SourcesStand
<1>4. ASSUME NEW p \in Processes, SilverDerive(p) PROVE SourcesStand'
  <2>1. silver'.rows = silver.rows /\ DOMAIN silver'.frame = SilverIds
    BY <1>4 DEF SilverDerive, IInv, Formed, Content
  <2>2. \A d \in Sources, k \in Months : silver'.frame[d][k] = silver.frame[d][k]
    BY <1>4, DerivedFrom DEF Sources
  <2>3. \A d \in Sources : d \in Scheduled(silver'.frame) <=> d \in Scheduled(silver.frame)
    BY <1>1, <2>1, <2>2, ScheduledSources
  <2>4. ASSUME NEW d \in Sources PROVE Built(d)'
    BY <2>1, <2>2, <2>3 DEF SourcesStand
  <2>5. ASSUME NEW q \in Processes, pc'[q] = "silver_publish" PROVE Reads(q)'
    <3>1. CASE pc[q] = "silver_publish" /\ seen'[q] = seen[q]
      BY <2>1, <2>3, <3>1 DEF SourcesStand
    <3>2. ASSUME SilverRead(q) PROVE FALSE
      <4>1. Moves(q, "silver_publish") /\ pc[q] = "silver" /\ pc[p] = "silver_derive"
        BY <1>4, <3>2, OneMoves DEF SilverRead, SilverDerive, IInv
      <4>2. pc'[p] # "silver_derive"
        <5>1. CASE p \in Pipelines
          BY <1>4, <5>1, OneMoves DEF SilverDerive, IInv, Moves
        <5>2. CASE p \notin Pipelines
          BY <1>4, <5>2, EndsCleanly DEF SilverDerive, IInv, Moves, Idle
        <5> QED BY <5>1, <5>2
      <4> QED BY <4>1, <4>2 DEF Moves
    <3> QED BY <2>5, <3>1, <3>2, WhatIsRead
  <2> QED BY <2>4, <2>5 DEF SourcesStand
<1> QED BY <1>2, <1>3, <1>4, WhatChanges

\* A publication with later rows keeps what Silver said of the minutes before them.
LEMMA PublicationSettled ==
    ASSUME IInv, FramesFit, SourcesStand, [Next]_vars, OnlyLater(silver.rows, silver'.rows),
           NEW d \in Sources \ PerContract, NEW k \in Months
    PROVE  LET t0 == NewFrom(silver.rows, silver'.rows)
           IN  Settled(silver.frame[d][k], silver'.frame[d][k], 1, IF d \in LiveSnapshots THEN t0 ELSE Minute(t0),
                       IF Canonical(silver.rows) = Canonical(silver'.rows) THEN {} ELSE {"rv"})
<1>1. PICK p \in Processes : SilverPublish(p)
  <2>1. silver' # silver
    BY DEF OnlyLater
  <2>2. \A p \in Processes : SilverDerive(p) => silver'.rows = silver.rows
    BY DEF SilverDerive, IInv, Formed, Content
  <2> QED BY <2>1, <2>2, WhatChanges DEF OnlyLater
<1>2. silver'.rows \subseteq bronze
  BY <1>1 DEF SilverPublish, Content, IInv, ReadsStand, SilverSteps
<1>3. Continues(silver.rows, silver'.rows, NewFrom(silver.rows, silver'.rows))
  BY <1>2, RowsContinue DEF OnlyLater
<1>4. CASE silver.frame[d][k] = NoFrame
  BY <1>4 DEF Settled, NoFrame
<1>5. CASE silver.frame[d][k] # NoFrame
  <2>1. /\ silver.frame[d][k] = SourceMonth(d, silver.rows, k, CalculationKeys(k))
        /\ silver'.frame[d][k] = SourceMonth(d, silver'.rows, k, CalculationKeys(k))
    BY <1>1, <1>5, BuiltAgain DEF SourcesStand
  <2> QED BY <1>3, <2>1, SourceMonthSettled
<1> QED BY <1>4, <1>5

LEMMA SourcesKeepStanding == Spec /\ []ReadsApart => [](IInv /\ FramesFit /\ SourcesStand)
BY InitIInv, IInvNext, InitFramesFit, FramesFitNext, InitSourcesStand, SourcesStandNext, PTL DEF Spec

\* Without commands by hand nobody reads beside the holder of the lock.
LEMMA LockKeepsApart == ASSUME "silver" \notin ByHand PROVE Spec => []ReadsApart
<1>1. IInv => ReadsApart
  <2> SUFFICES ASSUME IInv, NEW p \in Processes, NEW q \in Processes,
                      pc[p] = "silver_publish", pc[q] = "silver_publish"
               PROVE  p = q
    BY DEF ReadsApart
  <2>1. p \in Pipelines /\ q \in Pipelines
    BY WhoIsAt DEF IInv, TypeOK, Processes
  <2> QED BY <2>1 DEF IInv, LockHeld, Idle
<1> QED BY <1>1, InvariantHolds, PTL

-----------------------------------------------------------------------------
(* Theorems.                                                               *)

\* Whatever pipelines and commands by hand run at a time: every process is at a step of
\* its own, one pipeline at most holds the lock, and Silver, Gold, the publication result
\* and the table hold only rows and datasets the layer before them had.
THEOREM TypeCorrectness == Spec => []TypeOK
<1>1. IInv => TypeOK
  BY DEF IInv
<1> QED BY <1>1, InvariantHolds, PTL

\* A pipeline that ends well has served every row its Bronze step found or loaded, for any
\* number of pipelines, commands by hand, failures and rows, unless a command by hand
\* replaced Silver or Gold with older rows meanwhile (the lock of main, _run_pipeline and
\* the publication result).
THEOREM PipelinesServeTheirData == Spec => RunServesItsData
<1> DEFINE Serves ==
      \A p \in Pipelines : pc[p] = "sync" /\ pc'[p] = "done" /\ "silver" \notin disturbed[p] =>
        \A id \in DOMAIN seen[p]
                    \cup IF "gold" \in disturbed[p] THEN {} ELSE {i \in DOMAIN M1Of : M1Of[i] \in DOMAIN seen[p]} :
            id \in Ids => id \in DOMAIN table' /\ owed[p] \subseteq table'[id].rows
<1>1. ASSUME IInv, Next PROVE Serves
  <2> SUFFICES ASSUME NEW p \in Pipelines, pc[p] = "sync", pc'[p] = "done", "silver" \notin disturbed[p],
                      NEW id \in Ids,
                      id \in DOMAIN seen[p] \/ ("gold" \notin disturbed[p] /\ id \in Coarse(p))
               PROVE  id \in DOMAIN table' /\ owed[p] \subseteq table'[id].rows
    BY DEF Coarse
  <2>1. id \in DOMAIN result /\ owed[p] \subseteq result[id].rows
    BY <1>1 DEF IInv, ResultDeclares
  <2>2. table' = Replace(table, result)
    <3>1. p \in Processes /\ Formed
      BY <1>1 DEF IInv, Processes
    <3>2. CASE Fail(p)
      BY <3>1, <3>2, EndsCleanly DEF Fail, Idle, Moves
    <3>3. ASSUME NEW q \in Processes, q # p, NEW step, Moves(q, step) PROVE FALSE
      BY <3>1, <3>3 DEF Moves
    <3>4. ASSUME NEW q \in Processes, Step(q), ~Sync(q) PROVE FALSE
      <4>1. CASE SilverDerive(q) \/ GoldFanOut(q)
        <5>1. PICK step : Moves(q, step)
          BY <3>1, <4>1, OneMoves, EndsCleanly DEF SilverDerive, GoldFanOut, Idle
        <5> QED BY <3>3, <4>1, <5>1 DEF SilverDerive, GoldFanOut
      <4>2. CASE ~(SilverDerive(q) \/ GoldFanOut(q))
        <5>1. PICK step : Moves(q, step)
          BY <3>1, <3>4, <4>2, OneMoves DEF Step, Bronze, SilverRead, SilverPublish, GoldRead, GoldPublish
        <5> QED BY <3>3, <3>4, <4>2, <5>1 DEF Step, Bronze, SilverRead, SilverPublish, GoldRead, GoldPublish
      <4> QED BY <4>1, <4>2
    <3>5. ASSUME NEW q \in Processes, Sync(q) PROVE table' = Replace(table, result)
      BY <3>5 DEF Sync
    <3>6. ASSUME NEW r \in scenario.later, Arrive(r) PROVE FALSE
      BY <3>6 DEF Arrive, processes
    <3>7. ASSUME NEW q \in Pipelines, StartPipeline(q) PROVE FALSE
      BY <3>1, <3>3, <3>7, OneMoves DEF StartPipeline, Idle, Processes
    <3>8. ASSUME NEW q \in Pipelines, q # p, Fail(q) PROVE FALSE
      BY <3>1, <3>3, <3>8, EndsCleanly DEF Fail, Idle, Processes
    <3>9. ASSUME NEW h \in ByHand, StartByHand(h) PROVE FALSE
      BY <3>1, <3>3, <3>9, OneMoves DEF StartByHand, Idle, Processes
    <3> QED BY <1>1, <3>2, <3>4, <3>5, <3>6, <3>7, <3>8, <3>9 DEF Next
  <2> QED BY <2>1, <2>2 DEF Replace
<1>2. ASSUME IInv, UNCHANGED vars PROVE Serves
  BY <1>2 DEF vars, processes
<1>3. IInv /\ [Next]_vars => [Serves]_vars
  BY <1>1, <1>2
<1> QED BY <1>3, InvariantHolds, PTL DEF Spec, RunServesItsData

\* A month of a rolling feature, built from the months its windows reach into, is what the
\* whole history gives, for any window, length of a month, market and gaps; what is made of
\* returns if there is a price before the windows begin (lookback_month_keys,
\* silver_volatility, silver_realized_volatility, silver_iv_rv).
THEOREM MonthsAreWhole == Spec => MonthsMatchHistory
<1> DEFINE iv == "volatility_index_1m_feature"
           rv == "realized_volatility_1m_feature"
           ivrv == "iv_rv_1m_feature"
           Builds(p, d, step) == pc[p] = step /\ pc'[p] # step /\ d \in SilverIds \cap seen[p].frame
           Back(sources, k) == ReachesBack(ObservedMinutes(silver'.rows, sources), k)
           Matches ==
            \A p \in Processes, k \in Months :
                /\ Builds(p, iv, "silver_publish") =>
                    /\ DOMAIN silver'.frame[iv][k] = DOMAIN SourceMonth(iv, silver'.rows, k, Months)
                    /\ \A m \in DOMAIN SourceMonth(iv, silver'.rows, k, Months), c \in {"iv", "iv_zscore", "iv_percentile"} :
                        silver'.frame[iv][k][m][c] = SourceMonth(iv, silver'.rows, k, Months)[m][c]
                    /\ Back({"volatility_index_data", "volatility_index_snapshot_1m"}, k) =>
                        silver'.frame[iv][k] = SourceMonth(iv, silver'.rows, k, Months)
                /\ Builds(p, rv, "silver_publish") /\ Back({"spot_ohlcv"}, k) /\ Back({"perps_ohlcv"}, k) =>
                    silver'.frame[rv][k] = SourceMonth(rv, silver'.rows, k, Months)
                /\ Builds(p, ivrv, "silver_derive") =>
                    silver'.frame[ivrv][k] = DerivedMonth(ivrv, silver'.frame, k, Months)
<1>1. ASSUME IInv, FramesFit, [Next]_vars PROVE [Matches]_silver
  <2> SUFFICES ASSUME silver' # silver PROVE Matches
    OBVIOUS
  <2>1. \A r \in silver'.rows : Minute(r.t) \in Minutes
    <3>1. silver'.rows \subseteq market'
      BY <1>1, IInvNext DEF IInv, TypeOK, LayersHoldRows
    <3>2. FramesFit'
      BY <1>1, FramesFitNext
    <3> QED BY <3>1, <3>2, RowsAssumption DEF FramesFit
  <2>2. ASSUME NEW p \in Processes, NEW q \in Processes, SilverPublish(q), NEW step, pc[p] = step, pc'[p] # step
        PROVE  p = q /\ step = "silver_publish"
    <3>1. Moves(q, "silver_derive")
      BY <1>1, <2>2, OneMoves DEF SilverPublish, IInv
    <3> QED BY <2>2, <3>1 DEF Moves, SilverPublish
  <2>3. ASSUME NEW p \in Processes, NEW q \in Processes, SilverDerive(q), NEW step, pc[p] = step, pc'[p] # step
        PROVE  p = q /\ step = "silver_derive"
    <3>1. PICK end : Moves(q, end)
      BY <1>1, <2>3, OneMoves, EndsCleanly DEF SilverDerive, IInv, Idle
    <3> QED BY <2>3, <3>1 DEF Moves, SilverDerive
  <2>4. ASSUME NEW p \in Processes, NEW k \in Months, Builds(p, iv, "silver_publish")
        PROVE  /\ DOMAIN silver'.frame[iv][k] = DOMAIN SourceMonth(iv, silver'.rows, k, Months)
               /\ \A m \in DOMAIN SourceMonth(iv, silver'.rows, k, Months), c \in {"iv", "iv_zscore", "iv_percentile"} :
                    silver'.frame[iv][k][m][c] = SourceMonth(iv, silver'.rows, k, Months)[m][c]
               /\ Back({"volatility_index_data", "volatility_index_snapshot_1m"}, k) =>
                    silver'.frame[iv][k] = SourceMonth(iv, silver'.rows, k, Months)
    <3>1. SilverPublish(p)
      BY <1>1, <2>2, <2>3, <2>4, WhatChanges
    <3>2. silver'.frame[iv][k] = IvMonth(silver'.rows, k, CalculationKeys(k))
      BY <2>4, <3>1, Published, SourceMonths DEF DerivedDatasets
    <3>3. SourceMonth(iv, silver'.rows, k, Months) = IvMonth(silver'.rows, k, Months)
      BY SourceMonths
    <3> QED BY <2>1, <3>2, <3>3, IvMonthMatches
  <2>5. ASSUME NEW p \in Processes, NEW k \in Months, Builds(p, rv, "silver_publish"), Back({"spot_ohlcv"}, k), Back({"perps_ohlcv"}, k)
        PROVE  silver'.frame[rv][k] = SourceMonth(rv, silver'.rows, k, Months)
    <3>1. SilverPublish(p)
      BY <1>1, <2>2, <2>3, <2>5, WhatChanges
    <3>2. silver'.frame[rv][k] = RvMonth(silver'.rows, k, CalculationKeys(k))
      BY <2>5, <3>1, Published, SourceMonths DEF DerivedDatasets
    <3> QED BY <2>1, <2>5, <3>2, RvMonthMatches, SourceMonths
  <2>6. ASSUME NEW p \in Processes, NEW k \in Months, Builds(p, ivrv, "silver_derive")
        PROVE  silver'.frame[ivrv][k] = DerivedMonth(ivrv, silver'.frame, k, Months)
    <3>1. SilverDerive(p)
      BY <1>1, <2>2, <2>3, <2>6, WhatChanges
    <3>2. iv \in SilverIds /\ rv \in SilverIds
      BY <2>6, SilverAssumption DEF SilverInputs
    <3>3. silver'.frame[ivrv][k] = IvRvMonth(silver.frame, k, CalculationKeys(k))
      BY <1>1, <2>6, <3>1, DerivedFrom DEF DerivedDatasets, DerivedMonth
    <3>4. IvRvMonth(silver.frame, k, CalculationKeys(k)) = IvRvMonth(silver.frame, k, Months)
      BY <1>1, <3>2, IvRvMatches DEF FramesFit
    <3>5. \A j \in Months : silver'.frame[iv][j] = silver.frame[iv][j] /\ silver'.frame[rv][j] = silver.frame[rv][j]
      BY <1>1, <3>1, <3>2, DerivedFrom DEF DerivedDatasets
    <3>6. IvRvMonth(silver.frame, k, Months) = IvRvMonth(silver'.frame, k, Months)
      BY <3>5 DEF IvRvMonth
    <3> QED BY <3>3, <3>4, <3>6 DEF DerivedMonth
  <2> QED BY <2>4, <2>5, <2>6
<1>2. IInv /\ FramesFit /\ [Next]_vars => [Matches]_silver
  BY <1>1
<1>3. [][Matches]_silver <=> MonthsMatchHistory
  BY DEF MonthsMatchHistory
<1> QED BY <1>2, <1>3, FramesStayFit, PTL DEF Spec

\* A prediction target says what it is named for, for any horizon, gaps in the rows, and
\* builds that overlap: although the code counts rows, the joined grid has one a minute
\* (build_minute_grid, _prediction_target_rows).
THEOREM TargetsKeepTheirTime == Spec => TargetsAreTheFuture
<1> DEFINE Ahead == TargetsId \in DOMAIN gold' => TargetsAhead(gold'[TargetsId].rows, gold'[TargetsId].frame)
<1>1. IInv /\ FramesFit /\ [Next]_vars => IInv' /\ FramesFit'
  BY IInvNext, FramesFitNext
<1>2. Spec => [](IInv /\ FramesFit /\ TargetsStand)
  BY InitIInv, InitFramesFit, InitTargetsStand, <1>1, TargetsStandNext, PTL DEF Spec
<1>3. IInv /\ FramesFit /\ TargetsStand /\ [Next]_vars => [Ahead]_gold
  BY TargetsStandNext DEF TargetsStand
<1>4. [][Ahead]_gold <=> TargetsAreTheFuture
  BY DEF TargetsAreTheFuture, TargetsAhead, TargetsId, Candle
<1> QED BY <1>2, <1>3, <1>4, PTL DEF Spec

\* What Silver says of a minute that is over does not change because something happens
\* afterwards, for any rows, months, windows and datasets: no command reads Bronze for
\* Silver while another one is between its reading and its publication (the as-of joins and
\* trailing windows of silver_*, and the join of the two volatility feeds).
THEOREM SilverLooksBack == Spec /\ []ReadsApart => PastIsSettled
<1> DEFINE Keeping == OnlyLater(silver.rows, silver'.rows) =>
        LET t0 == NewFrom(silver.rows, silver'.rows)
            remade == IF Canonical(silver.rows) = Canonical(silver'.rows) THEN {} ELSE {"rv"}
        IN \A d \in SilverIds \ (DerivedDatasets \cup PerContract), k \in Months :
            Settled(silver.frame[d][k], silver'.frame[d][k], 1, IF d \in LiveSnapshots THEN t0 ELSE Minute(t0), remade)
<1>1. IInv /\ FramesFit /\ SourcesStand /\ [Next]_vars => [Keeping]_silver
  BY PublicationSettled DEF Sources
<1>2. PastIsSettled <=> [][Keeping]_silver
  BY DEF PastIsSettled
<1> HIDE DEF Keeping
<1> QED BY <1>1, <1>2, SourcesKeepStanding, PTL DEF Spec

\* Without silver-build by hand the pipeline lock sees to that (main of
\* run_medallion_pipeline).
COROLLARY PipelinesLookBack == ASSUME "silver" \notin ByHand PROVE Spec => PastIsSettled
BY LockKeepsApart, SilverLooksBack, PTL
=============================================================================
