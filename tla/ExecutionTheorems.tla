------------------------- MODULE ExecutionTheorems -------------------------
(***************************************************************************)
(* Theorems about Execution, for every number of batches, their            *)
(* transactions, certificates, clients, deployments and bounds.            *)
(***************************************************************************)
EXTENDS Execution, TLAPS

USE DEF disk, history

-----------------------------------------------------------------------------
(***************************************************************************)
(* The batch file.                                                         *)
(***************************************************************************)

LEMMA EmptyFile == IsFile(Empty) /\ DOMAIN Empty = {}
  BY DEF IsFile, Empty

LEMMA PutFacts ==
  ASSUME NEW f, NEW k, NEW r
  PROVE  /\ DOMAIN Put(f, k, r) = DOMAIN f \cup {k}
         /\ Put(f, k, r)[k] = r
         /\ \A i \in DOMAIN f \ {k} : Put(f, k, r)[i] = f[i]
  BY DEF Put

\* What a save makes of the file.
LEMMA WriteFacts ==
  ASSUME NEW f, Write(f)
  PROVE  file' \in {file, f, Empty} /\ UNCHANGED replaced
  BY DEF Write

\* The next index is beyond all keys.
LEMMA NextIndex ==
  ASSUME NEW f, IsFile(f), NEW d \in Nat
  PROVE  /\ next_index(f, d) \in Nat
         /\ \A k \in DOMAIN f : k < next_index(f, d)
<1>1. CASE DOMAIN f = {}
  BY <1>1 DEF next_index
<1>2. CASE DOMAIN f # {}
  <2> DEFINE top == CHOOSE k \in DOMAIN f : \A i \in DOMAIN f : i <= k
  <2>1. top \in DOMAIN f /\ \A i \in DOMAIN f : i <= top
    BY <1>2 DEF IsFile
  <2>2. next_index(f, d) = 1 + top
    BY <1>2 DEF next_index
  <2>3. DOMAIN f \subseteq Nat
    BY DEF IsFile
  <2> QED BY <2>1, <2>2, <2>3
<1> QED BY <1>1, <1>2

\* A file with one more record.
LEMMA PutFile ==
  ASSUME NEW f, IsFile(f), NEW d \in Nat, NEW b \in 1..N
  PROVE  IsFile(Put(f, next_index(f, d), NewRecord(b)))
<1> DEFINE k == next_index(f, d)
           g == Put(f, k, NewRecord(b))
<1>1. k \in Nat /\ \A i \in DOMAIN f : i < k
  BY NextIndex
<1>2. /\ DOMAIN g = DOMAIN f \cup {k}
      /\ g[k] = NewRecord(b)
      /\ \A i \in DOMAIN f \ {k} : g[i] = f[i]
  <2> HIDE DEF k
  <2> QED BY DEF Put
<1>3. NewRecord(b) \in Record
  BY DEF NewRecord, Record
<1>4. DOMAIN f \subseteq Nat /\ \A i \in DOMAIN f : f[i] \in Record
  BY DEF IsFile
<1> HIDE DEF k, g
<1>5. k \in DOMAIN g /\ \A i \in DOMAIN g : i <= k
  BY <1>1, <1>2, <1>4
<1>6. IsFile(g)
  BY <1>1, <1>2, <1>3, <1>4, <1>5 DEF IsFile
<1> QED BY <1>6 DEF g, k

\* The copy with the blockhash has the same keys and batches.
LEMMA RecordedFile ==
  ASSUME IsFile(batches), key \in DOMAIN batches, built \in Block
  PROVE  /\ IsFile(Recorded)
         /\ DOMAIN Recorded = DOMAIN batches
         /\ \A k \in DOMAIN batches : Recorded[k].batch = batches[k].batch
         /\ Recorded[key].block = built
         /\ \A k \in DOMAIN batches \ {key} : Recorded[k].block = batches[k].block
<1>1. DOMAIN Recorded = DOMAIN batches
  BY DEF Recorded
<1>2. \A k \in DOMAIN batches :
        Recorded[k] = IF k = key THEN [batches[k] EXCEPT !.block = built] ELSE batches[k]
  BY DEF Recorded
<1>3. \A k \in DOMAIN batches : batches[k] \in Record
  BY DEF IsFile
<1>4. \A k \in DOMAIN batches : Recorded[k] \in Record /\ Recorded[k].batch = batches[k].batch
  BY <1>2, <1>3 DEF Record
<1>5. /\ Recorded[key].block = built
      /\ \A k \in DOMAIN batches \ {key} : Recorded[k].block = batches[k].block
  BY <1>2, <1>3 DEF Record
<1>6. IsFile(Recorded)
  BY <1>1, <1>4 DEF IsFile
<1> QED BY <1>1, <1>4, <1>5, <1>6

-----------------------------------------------------------------------------
(***************************************************************************)
(* Blocks.                                                                 *)
(***************************************************************************)

LEMMA AppendBlock ==
  ASSUME NEW b \in Block, NEW S \in SUBSET Tx
  PROVE  /\ Append(b, S) \in Block
         /\ Len(Append(b, S)) = Len(b) + 1
         /\ Len(b) \in Nat
         /\ Append(b, S)[Len(b) + 1] = S
         /\ \A i \in 1..Len(b) : Append(b, S)[i] = b[i]
  BY DEF Block

LEMMA EmptyBlock == << >> \in Block /\ Len(<< >>) = 0
  BY DEF Block

LEMMA Clients ==
  /\ First \in Endpoint
  /\ \A i \in 1..Len(ENDPOINTS) : ENDPOINTS[i] \in Endpoint
  /\ Len(ENDPOINTS) \in Nat \ {0}
  BY EndpointsAssumption DEF First, Endpoint

-----------------------------------------------------------------------------
(***************************************************************************)
(* Type correctness.                                                       *)
(***************************************************************************)

\* What the processes of each part do to the variables they share.
LEMMA ExtractionType ==
  ASSUME TypeOK, Extraction, UNCHANGED <<deployment, feeder, node, driver>>
  PROVE  TypeOK'
<1> USE BatchesAssumption, ExtractionAssumption
        DEF TypeOK, deployment, feeder, node, driver, memory
<1>1. CASE BeginCertificate
  BY <1>1 DEF BeginCertificate, extractor
<1>2. CASE EndCertificate
  BY <1>2 DEF EndCertificate, extractor
<1>3. CASE TearCertificate
  BY <1>3 DEF TearCertificate, extractor
<1>4. CASE StartExtractor
  BY <1>4 DEF StartExtractor, certificates
<1>5. CASE Skip
  BY <1>5 DEF Skip, Reading, certificates
<1>6. CASE Extract
  <2>1. cursor + 1 \in 1..N
    BY <1>6 DEF Extract, Reading
  <2>2. IsFile(out_records')
    BY <1>6, <2>1, PutFile DEF Extract
  <2> QED BY <1>6, <2>1, <2>2 DEF Extract, Replace, Reading, certificates
<1>7. CASE Missing
  BY <1>7 DEF Missing, Reading, certificates
<1>8. CASE GiveUp
  BY <1>8, EmptyFile DEF GiveUp, Replace, Exit, certificates
<1>9. CASE Finish
  BY <1>9, EmptyFile DEF Finish, Replace, Exit, certificates
<1>10. CASE Abort
  BY <1>10, EmptyFile DEF Abort, Exit, certificates
<1> QED
  BY <1>1, <1>2, <1>3, <1>4, <1>5, <1>6, <1>7, <1>8, <1>9, <1>10
     DEF Extraction, Output, Extractor

LEMMA FeedingType ==
  ASSUME TypeOK, Feeding, UNCHANGED <<deployment, certificates, extractor, driver>>
  PROVE  TypeOK'
<1> USE BatchesAssumption DEF TypeOK, deployment, certificates, extractor, driver, memory
<1>1. CASE StartRaw2
  BY <1>1 DEF StartRaw2, StartFeeder, Least, node
<1>2. CASE StartChunk
  BY <1>2 DEF StartChunk, StartFeeder, node
<1>3. CASE SendRaw
  BY <1>3 DEF SendRaw
<1>4. CASE SendForkchoice
  BY <1>4 DEF SendForkchoice, node
<1>5. CASE OpenBatches
  BY <1>5, EmptyFile DEF OpenBatches, Truncate, node
<1>6. CASE SaveBatch
  <2>1. IsFile(Put(copy, next_index(copy, 1), NewRecord(chunk)))
    BY <1>6, PutFile DEF SaveBatch
  <2>2. IsFile(file') /\ UNCHANGED replaced
    BY <1>6, <2>1, EmptyFile, WriteFacts DEF SaveBatch
  <2> QED BY <1>6, <2>2, EmptyFile DEF SaveBatch, Done, node
<1>7. CASE SaveMarker
  BY <1>7, EmptyFile DEF SaveMarker, Done, node
<1>8. CASE TornMarker
  BY <1>8, EmptyFile DEF TornMarker, Done, node
<1>9. CASE FeederDies
  BY <1>9, EmptyFile DEF FeederDies, Done, node
<1> QED
  BY <1>1, <1>2, <1>3, <1>4, <1>5, <1>6, <1>7, <1>8, <1>9 DEF Feeding, Feeder

\* Where the process is after it is off, or after it looked for a batch.
LEMMA OffType ==
  ASSUME Off
  PROVE  /\ pc' = "off" /\ batches' = Empty /\ IsFile(batches')
         /\ base' = << >> /\ built' = << >> /\ base' \in Block /\ built' \in Block
         /\ count' \in Nat
  BY EmptyFile, EmptyBlock DEF Off

LEMMA SeekType ==
  ASSUME NEW f, IsFile(f), NEW from, Seek(f, from)
  PROVE  /\ pc' \in {"off", "send"}
         /\ batches' \in {Empty, f} /\ IsFile(batches')
         /\ pc' = "send" => key' \in DOMAIN batches'
         /\ base' = << >> /\ built' = << >> /\ base' \in Block /\ built' \in Block
         /\ count' \in Nat
  BY EmptyFile, EmptyBlock, OffType DEF Seek, Least, Pending

\* The blocks that the clients can build are blocks.
LEMMA PayloadType ==
  ASSUME TypeOK, NEW e \in Endpoint, NEW b \in Block, NEW S \in Payloads(e, b)
  PROVE  S \in SUBSET Tx /\ Append(b, S) \in Block
  BY AppendBlock DEF Payloads, TypeOK

LEMMA ForkchoiceType ==
  ASSUME TypeOK, NEW e \in Endpoint, NEW b \in Block, forkchoiceUpdated(e, b)
  PROVE  head' \in [Endpoint -> Block]
  BY DEF forkchoiceUpdated, TypeOK

LEMMA NewPayloadType ==
  ASSUME TypeOK, NEW e \in Endpoint, NEW b \in Block, newPayload(e, b)
  PROVE  known' \in [Endpoint -> SUBSET Block]
  BY DEF newPayload, TypeOK

LEMMA AttemptType ==
  ASSUME TypeOK, NEW b \in Block, NEW M, Attempt(b, M),
         UNCHANGED <<deployment, certificates, extractor, feeder>>
  PROVE  TypeOK'
<1>1. First \in Endpoint
  BY Clients
<1>2. head' \in [Endpoint -> Block]
  BY <1>1, ForkchoiceType DEF Attempt
<1>3. PICK S \in Payloads(First, b) :
        IF S \in M
          THEN pc' = "submit" /\ built' = Append(b, S) /\ UNCHANGED count
          ELSE count' = count + 1 /\ UNCHANGED <<pc, built>>
  BY DEF Attempt
<1>4. Append(b, S) \in Block
  BY <1>1, PayloadType
<1>5. UNCHANGED <<file, replaced, known, pool, batches, key, base, drivers, unadopted>> /\ pc = "attempt"
  BY DEF Attempt, Attempting
<1>6. built' \in Block /\ count' \in Nat /\ pc' \in {"attempt", "submit"}
  <2>1. pc = "attempt" /\ built \in Block /\ count \in Nat
    BY <1>5 DEF TypeOK
  <2>2. CASE S \in M
    BY <1>3, <1>4, <2>1, <2>2
  <2>3. CASE S \notin M
    BY <1>3, <2>1, <2>3
  <2> QED BY <2>2, <2>3
<1> HIDE DEF Attempt
<1> QED
  BY <1>2, <1>5, <1>6 DEF TypeOK, deployment, certificates, extractor, feeder

LEMMA RetryType ==
  ASSUME TypeOK, RetryDriver, UNCHANGED <<deployment, certificates, extractor, feeder>>
  PROVE  TypeOK'
<1>a. First \in Endpoint /\ head[First] \in Block /\ base \in Block /\ built \in Block
  BY Clients DEF TypeOK
<1>b. IsFile(file) /\ IsFile(batches) /\ (pc # "off" => key \in DOMAIN batches)
  BY DEF TypeOK
<1>1. CASE StartRetry
  <2>1. Seek(file, 0) /\ drivers' = drivers + 1 /\ UNCHANGED <<file, replaced, node, unadopted>>
    BY <1>1 DEF StartRetry
  <2> HIDE DEF Seek
  <2> QED BY <1>b, <2>1, SeekType DEF TypeOK, deployment, certificates, extractor, feeder, node
<1>2. CASE SendTxs
  <2>1. ExpectedTxs \in SUBSET Tx
    BY <1>b, <1>2, BatchesAssumption
       DEF SendTxs, ExpectedTxs, Current, IsFile, Record
  <2>2. pool' \in [Endpoint -> SUBSET Tx]
    BY <1>a, <1>2, <2>1 DEF SendTxs, sendRawTransaction, TypeOK
  <2> QED BY <1>2, <1>a, <2>2 DEF SendTxs, TypeOK, deployment, certificates, extractor, feeder
<1>3. CASE BuildRetry \/ BuildRetry2 \/ BuildRetry3
  BY <1>3, <1>a, AttemptType DEF BuildRetry, BuildRetry2, BuildRetry3
<1>4. CASE Retry
  BY <1>4 DEF Retry, Attempting, TypeOK, deployment, certificates, extractor, feeder, node
<1>5. CASE Submit
  <2>1. known' \in [Endpoint -> SUBSET Block]
    BY <1>5, <1>a, NewPayloadType DEF Submit
  <2> QED BY <1>5, <2>1
    DEF Submit, TypeOK, deployment, certificates, extractor, feeder, memory
<1>6. CASE LoseAnswer
  <2>1. head' \in [Endpoint -> Block] /\ known' \in [Endpoint -> SUBSET Block]
    <3>1. head \in [Endpoint -> Block] /\ known \in [Endpoint -> SUBSET Block]
      BY DEF TypeOK
    <3> QED BY <1>6, <1>a, <3>1, ForkchoiceType, NewPayloadType DEF LoseAnswer, Lost
  <2>2. pc # "off"
    BY <1>6 DEF LoseAnswer, Lost
  <2> QED BY <1>6, <2>1, <2>2, EmptyBlock
    DEF LoseAnswer, TypeOK, deployment, certificates, extractor, feeder
<1>7. CASE Refused \/ GiveUpBatch
  <2>1. Seek(batches, key + 1) /\ UNCHANGED <<file, replaced, node, drivers, unadopted>>
    BY <1>7 DEF Refused, GiveUpBatch
  <2> HIDE DEF Seek
  <2> QED BY <1>b, <2>1, SeekType DEF TypeOK, deployment, certificates, extractor, feeder, node
<1>8. CASE FinalForkchoice
  <2>1. head' \in [Endpoint -> Block]
    <3>1. head \in [Endpoint -> Block]
      BY DEF TypeOK
    <3> QED BY <1>8, <1>a, <3>1, ForkchoiceType DEF FinalForkchoice
  <2> QED BY <1>8, <2>1
    DEF FinalForkchoice, TypeOK, deployment, certificates, extractor, feeder, memory
<1>9. CASE Save
  <2>1. /\ Seek(Recorded, key + 1) /\ UNCHANGED <<replaced, node, drivers, unadopted>>
        /\ file' \in {file, Recorded, Empty}
    BY <1>9, WriteFacts DEF Save
  <2>2. IsFile(Recorded)
    BY <1>9, <1>a, <1>b, RecordedFile DEF Save
  <2>3. /\ pc' \in {"off", "send"} /\ IsFile(batches')
        /\ pc' = "send" => key' \in DOMAIN batches'
        /\ base' \in Block /\ built' \in Block /\ count' \in Nat
    BY <2>1, <2>2, SeekType
  <2>4. IsFile(file')
    BY <1>b, <2>1, <2>2, EmptyFile
  <2> HIDE DEF Seek, Recorded
  <2> QED BY <2>1, <2>3, <2>4 DEF TypeOK, deployment, certificates, extractor, feeder, node
<1>10. CASE OpenSave
  BY <1>10, EmptyFile
     DEF OpenSave, Truncate, TypeOK, deployment, certificates, extractor, feeder, node, memory
<1> QED
  BY <1>1, <1>2, <1>3, <1>4, <1>5, <1>6, <1>7, <1>8, <1>9, <1>10 DEF RetryDriver

LEMMA EndpointType ==
  ASSUME TypeOK, EndpointDriver, UNCHANGED <<deployment, certificates, extractor, feeder>>
  PROVE  TypeOK'
<1>a. First \in Endpoint /\ head[First] \in Block /\ base \in Block /\ built \in Block
  BY Clients DEF TypeOK
<1>b. pc \in {"endpoint", "check", "record", "store", "finalize"} => url \in Endpoint
  BY Clients DEF TypeOK, url
<1>d. head \in [Endpoint -> Block]
  BY DEF TypeOK
<1>c. IsFile(file) /\ IsFile(batches) /\ (pc # "off" => key \in DOMAIN batches)
  BY DEF TypeOK
<1>1. CASE StartNew \/ StartMain \/ StartWithRetry
  BY <1>1, <1>a, EmptyBlock, Clients
     DEF StartNew, StartMain, StartWithRetry, Begin, Least, Pending, TypeOK,
         deployment, certificates, extractor, feeder, node
\* On to the next client with the same copy, or its version with the block.
<1>2. ASSUME NEW f, IsFile(f), key \in DOMAIN f, NextEndpoint(f),
             pc \in {"endpoint", "check", "record", "store", "finalize"}
      PROVE  /\ pc' \in {"off", "endpoint"} /\ IsFile(batches')
             /\ pc' # "off" => key' \in DOMAIN batches' /\ count' < Len(ENDPOINTS)
             /\ base' \in Block /\ built' \in Block /\ count' \in Nat
  <2>1. CASE count + 1 = Len(ENDPOINTS)
    BY <1>2, <2>1, OffType DEF NextEndpoint
  <2>2. CASE count + 1 # Len(ENDPOINTS)
    BY <1>2, <1>a, <2>2, EmptyBlock, Clients DEF NextEndpoint, TypeOK
  <2> QED BY <2>1, <2>2
<1>3. CASE NoPayloadId \/ NotValid
  <2>1. /\ NextEndpoint(batches)
        /\ UNCHANGED <<file, replaced, known, pool, drivers, unadopted>>
        /\ pc \in {"endpoint", "check"}
    BY <1>3 DEF NoPayloadId, NotValid, node
  <2>2. head' \in [Endpoint -> Block]
    BY <1>3, <1>a, <1>b, <1>d, ForkchoiceType DEF NoPayloadId, NotValid, node
  <2> HIDE DEF NextEndpoint
  <2> QED
    BY <1>2, <1>c, <2>1, <2>2 DEF TypeOK, deployment, certificates, extractor, feeder, node
<1>4. CASE Match
  <2>1. head' \in [Endpoint -> Block]
    BY <1>4, <1>a, <1>b, ForkchoiceType DEF Match
  <2>2. Append(base, ExpectedTxs) \in Block
    BY <1>4, <1>a, <1>b, PayloadType DEF Match
  <2> QED BY <1>4, <2>1, <2>2
    DEF Match, TypeOK, deployment, certificates, extractor, feeder
<1>5. CASE Mismatch
  <2>1. head' \in [Endpoint -> Block]
    BY <1>5, <1>a, <1>b, ForkchoiceType DEF Mismatch
  <2> QED BY <1>5, <2>1, OffType
    DEF Mismatch, TypeOK, deployment, certificates, extractor, feeder
<1>6. CASE NewPayload
  <2>1. known' \in [Endpoint -> SUBSET Block]
    BY <1>6, <1>a, <1>b, NewPayloadType DEF NewPayload
  <2> QED BY <1>6, <2>1
    DEF NewPayload, TypeOK, deployment, certificates, extractor, feeder, memory
<1>7. CASE RecordBlock \/ ReplaceRecord
  <2>1. IsFile(Recorded) /\ DOMAIN Recorded = DOMAIN batches
    BY <1>7, <1>a, <1>c, RecordedFile DEF RecordBlock, ReplaceRecord
  <2>2. /\ file' \in {file, Recorded, Empty} /\ replaced' \in {replaced, TRUE}
        /\ batches' = Recorded
        /\ pc \in {"record", "store"} /\ pc' = "finalize"
        /\ UNCHANGED <<node, key, base, built, count, drivers, unadopted>>
    BY <1>7, WriteFacts DEF RecordBlock, ReplaceRecord, Replace
  <2>3. IsFile(file')
    BY <1>c, <2>1, <2>2, EmptyFile
  <2> HIDE DEF Recorded
  <2> QED BY <2>1, <2>2, <2>3 DEF TypeOK, deployment, certificates, extractor, feeder, node
<1>8. CASE OpenRecord
  BY <1>8, EmptyFile
     DEF OpenRecord, Truncate, TypeOK, deployment, certificates, extractor, feeder, node, memory
<1>9. CASE FinalizeHead
  <2>1. head' \in [Endpoint -> Block]
    BY <1>9, <1>a, <1>b, <1>d, ForkchoiceType DEF FinalizeHead
  <2>2. /\ NextEndpoint(batches)
        /\ UNCHANGED <<file, replaced, known, pool, drivers, unadopted>>
        /\ pc = "finalize"
    BY <1>9 DEF FinalizeHead
  <2> HIDE DEF NextEndpoint
  <2> QED
    BY <1>2, <1>c, <2>1, <2>2 DEF TypeOK, deployment, certificates, extractor, feeder
<1> QED
  BY <1>1, <1>3, <1>4, <1>5, <1>6, <1>7, <1>8, <1>9 DEF EndpointDriver

LEMMA TypeStep == TypeOK /\ [Next]_vars => TypeOK'
<1> SUFFICES ASSUME TypeOK, [Next]_vars PROVE TypeOK'
  OBVIOUS
<1>1. CASE Extraction /\ UNCHANGED <<deployment, feeder, node, driver>>
  BY <1>1, ExtractionType
<1>2. CASE Feeding /\ UNCHANGED <<deployment, certificates, extractor, driver>>
  BY <1>2, FeedingType
<1>3. CASE Driving /\ UNCHANGED <<deployment, certificates, extractor, feeder>>
  <2>1. CASE Die
    BY <1>3, <2>1, OffType
       DEF Die, TypeOK, deployment, certificates, extractor, feeder, node
  <2> QED BY <1>3, <2>1, RetryType, EndpointType DEF Driving
<1>4. CASE Arrive /\ UNCHANGED <<deployment, certificates, extractor, feeder, driver>>
  BY <1>4, BatchesAssumption
     DEF Arrive, sendRawTransaction, TypeOK, deployment, certificates, extractor, feeder,
         driver, memory
<1>5. CASE UNCHANGED vars
  BY <1>5
     DEF vars, TypeOK, deployment, certificates, extractor, feeder, node, driver, memory
<1> QED BY <1>1, <1>2, <1>3, <1>4, <1>5 DEF Next

LEMMA TypeInit == Init => TypeOK
<1> SUFFICES ASSUME Init PROVE TypeOK
  OBVIOUS
<1> USE DEF Init
<1>1. [producer |-> producer, script |-> script] \in Deployments
  BY DeploymentsAssumption
<1>2. IsFile(file) /\ IsFile(out_records) /\ IsFile(copy) /\ IsFile(batches)
  BY EmptyFile DEF ExtractionInit, FeederInit, DriverInit
<1>3. /\ head \in [Endpoint -> Block] /\ pool \in [Endpoint -> SUBSET Tx]
      /\ known \in [Endpoint -> SUBSET Block]
  BY EmptyBlock DEF NodeInit
<1>4. /\ ordered \in 0..N /\ tail \in {"none", "open", "torn"}
      /\ stage \in {"off", "scan"} /\ cursor \in 0..ordered /\ tries \in Nat
      /\ extractors \in Nat
  BY BatchesAssumption DEF ExtractionInit
<1>5. /\ feeding = "off" /\ chunk \in 0..N /\ marker \in 0..N /\ feeders \in Nat
  BY BatchesAssumption DEF FeederInit
<1>6. /\ pc = "off" /\ base \in Block /\ built \in Block /\ count \in Nat
      /\ drivers \in Nat /\ unadopted \subseteq Block /\ replaced \in BOOLEAN
  BY EmptyBlock DEF DriverInit
<1> HIDE DEF Init
<1> QED BY <1>1, <1>2, <1>3, <1>4, <1>5, <1>6 DEF TypeOK

\* The files, the clients and the processes keep their types: every key is a
\* number, every record names a batch, and a process works on a record it has.
THEOREM TypeCorrect == Spec => []TypeOK
  BY TypeInit, TypeStep, PTL DEF Spec

-----------------------------------------------------------------------------
(***************************************************************************)
(* What a step can do to the copies of the batch file: one copy replaces   *)
(* another, the block of one batch is recorded, or a batch is appended.    *)
(***************************************************************************)
Extended == Put(out_records, next_index(out_records, 0), NewRecord(cursor + 1))
Fed      == Put(copy, next_index(copy, 1), NewRecord(chunk))

Written(f) ==
    \/ f \in {Empty, file, out_records, copy, batches}
    \/ f = Recorded /\ pc \in {"write", "record", "store"}
    \/ f = Extended /\ producer = "extractor" /\ Reading /\ ~Processed(cursor + 1)
    \/ f = Fed /\ producer # "extractor" /\ feeding = "write"

LEMMA Copies ==
  ASSUME TypeOK, [Next]_vars
  PROVE  Written(file') /\ Written(out_records') /\ Written(copy') /\ Written(batches')
<1> USE DEF Written
<1>1. CASE Extraction /\ UNCHANGED <<deployment, feeder, node, driver>>
  <2>1. CASE Output
    BY <1>1, <2>1
       DEF Output, BeginCertificate, EndCertificate, TearCertificate, extractor, feeder,
           driver, memory
  <2>2. CASE StartExtractor \/ Skip \/ Missing
    BY <1>1, <2>2 DEF StartExtractor, Skip, Missing, feeder, driver, memory
  <2>3. CASE Extract
    BY <1>1, <2>3 DEF Extraction, Extract, Replace, Extended, feeder, driver, memory
  <2>4. CASE GiveUp \/ Finish \/ Abort
    BY <1>1, <2>4 DEF GiveUp, Finish, Abort, Replace, Exit, feeder, driver, memory
  <2> QED BY <1>1, <2>1, <2>2, <2>3, <2>4 DEF Extraction, Extractor
<1>2. CASE Feeding /\ UNCHANGED <<deployment, certificates, extractor, driver>>
  <2>1. CASE StartRaw2 \/ StartChunk \/ SendRaw \/ SendForkchoice
    BY <1>2, <2>1
       DEF StartRaw2, StartChunk, StartFeeder, SendRaw, SendForkchoice, extractor, driver,
           memory
  <2>2. CASE SaveBatch
    BY <1>2, <2>2, WriteFacts DEF Feeding, SaveBatch, Done, Fed, extractor, driver, memory
  <2>3. CASE OpenBatches \/ SaveMarker \/ TornMarker \/ FeederDies
    BY <1>2, <2>3
       DEF OpenBatches, Truncate, SaveMarker, TornMarker, FeederDies, Done, extractor, driver,
           memory
  <2> QED BY <1>2, <2>1, <2>2, <2>3 DEF Feeding, Feeder
<1>3. CASE Driving /\ UNCHANGED <<deployment, certificates, extractor, feeder>>
  <2> USE <1>3 DEF extractor, feeder
  <2>a. \A f, from : Seek(f, from) => batches' \in {Empty, f}
    BY DEF Seek, Off
  <2>b. \A f : NextEndpoint(f) => batches' \in {Empty, batches, f}
    BY DEF NextEndpoint, Off
  <2>1. CASE StartRetry \/ SendTxs \/ Retry \/ Submit \/ LoseAnswer \/ Refused
    BY <2>a, <2>1
       DEF StartRetry, SendTxs, Retry, Submit, LoseAnswer, Refused, memory
  <2>2. CASE BuildRetry \/ BuildRetry2 \/ BuildRetry3
    BY <2>2 DEF BuildRetry, BuildRetry2, BuildRetry3, Attempt
  <2>3. CASE FinalForkchoice \/ OpenSave \/ GiveUpBatch \/ Die
    BY <2>a, <2>3 DEF FinalForkchoice, OpenSave, Truncate, GiveUpBatch, Die, Off, memory
  <2>4. CASE Save
    BY <2>a, <2>4, WriteFacts DEF Save
  <2>5. CASE StartNew \/ StartMain \/ StartWithRetry \/ Match \/ Mismatch \/ NewPayload
    BY <2>5
       DEF StartNew, StartMain, StartWithRetry, Begin, Match, Mismatch, NewPayload, Off,
           memory
  <2>6. CASE NoPayloadId \/ NotValid \/ FinalizeHead
    BY <2>b, <2>6 DEF NoPayloadId, NotValid, FinalizeHead
  <2>7. CASE OpenRecord \/ RecordBlock \/ ReplaceRecord
    BY <2>7, WriteFacts DEF OpenRecord, Truncate, RecordBlock, ReplaceRecord, Replace, memory
  <2> QED
    BY <2>1, <2>2, <2>3, <2>4, <2>5, <2>6, <2>7 DEF Driving, RetryDriver, EndpointDriver
<1>4. CASE Arrive /\ UNCHANGED <<deployment, certificates, extractor, feeder, driver>>
  BY <1>4 DEF Arrive, extractor, feeder, driver, memory
<1>5. CASE UNCHANGED vars
  BY <1>5 DEF vars, extractor, feeder, driver, memory
<1> QED BY <1>1, <1>2, <1>3, <1>4, <1>5 DEF Next

\* The producer and the script stay what they are.
LEMMA SameDeployment == [Next]_vars => producer' = producer /\ script' = script
  BY DEF Next, vars, deployment

-----------------------------------------------------------------------------
(***************************************************************************)
(* The order in the file.                                                  *)
(***************************************************************************)

\* What the extractor has passed is in its copy.
CursorInv ==
    stage = "scan" =>
        \A b \in 1..cursor : \E k \in DOMAIN out_records : out_records[k].batch = b

OrderInv ==
    producer = "extractor" =>
        /\ IsPrefix(file) /\ IsPrefix(out_records) /\ IsPrefix(copy) /\ IsPrefix(batches)
        /\ CursorInv

\* The next batch comes at the next key.
LEMMA PrefixExtended ==
  ASSUME TypeOK, IsPrefix(out_records), CursorInv, Reading, ~Processed(cursor + 1)
  PROVE  /\ IsPrefix(Extended)
         /\ \A b \in 1..(cursor + 1) : \E k \in DOMAIN Extended : Extended[k].batch = b
<1>1. PICK n \in 0..N :
        DOMAIN out_records = 0..(n - 1) /\ \A k \in 0..(n - 1) : out_records[k].batch = k + 1
  BY DEF IsPrefix
<1>2. cursor \in Nat /\ cursor + 1 \in 1..N
  BY BatchesAssumption DEF TypeOK, Reading
<1>3. n = cursor
  <2>1. cursor <= n
    <3>1. cursor # 0 => \E k \in DOMAIN out_records : out_records[k].batch = cursor
      BY <1>2 DEF CursorInv, Reading
    <3> QED BY <1>1, <1>2, <3>1, BatchesAssumption
  <2>2. ~(cursor < n)
    <3> SUFFICES ASSUME cursor < n PROVE FALSE
      OBVIOUS
    <3>1. cursor \in DOMAIN out_records /\ out_records[cursor].batch = cursor + 1
      BY <1>1, <1>2, BatchesAssumption
    <3> QED BY <3>1 DEF Processed
  <2> QED BY <1>1, <1>2, <2>1, <2>2, BatchesAssumption
<1>4. next_index(out_records, 0) = n
  <2>1. CASE n = 0
    BY <1>1, <2>1 DEF next_index
  <2>2. CASE n # 0
    <3> DEFINE top == CHOOSE k \in DOMAIN out_records : \A i \in DOMAIN out_records : i <= k
    <3>1. n - 1 \in DOMAIN out_records /\ \A i \in DOMAIN out_records : i <= n - 1
      BY <1>1, <2>2
    <3>2. top \in DOMAIN out_records /\ \A i \in DOMAIN out_records : i <= top
      BY <3>1
    <3>3. top = n - 1
      BY <1>1, <3>1, <3>2
    <3>4. next_index(out_records, 0) = 1 + top
      BY <3>1 DEF next_index
    <3> HIDE DEF top
    <3> QED BY <3>3, <3>4
  <2> QED BY <2>1, <2>2
<1>5. /\ DOMAIN Extended = 0..cursor
      /\ \A k \in 0..cursor : Extended[k].batch = k + 1
  <2>1. /\ DOMAIN Extended = 0..(cursor - 1) \cup {cursor}
        /\ Extended[cursor] = NewRecord(cursor + 1)
        /\ \A k \in 0..(cursor - 1) \ {cursor} : Extended[k] = out_records[k]
    BY <1>1, <1>3, <1>4 DEF Extended, Put
  <2> HIDE DEF Extended
  <2>2. NewRecord(cursor + 1).batch = cursor + 1
    BY DEF NewRecord
  <2> QED BY <1>1, <1>2, <1>3, <2>1, <2>2
<1>6. IsPrefix(Extended)
  <2>1. 0..cursor = 0..((cursor + 1) - 1) /\ cursor + 1 \in 0..N
    BY <1>2, BatchesAssumption
  <2> HIDE DEF Extended
  <2> QED BY <1>5, <2>1 DEF IsPrefix
<1>7. ASSUME NEW b \in 1..(cursor + 1)
      PROVE  \E k \in DOMAIN Extended : Extended[k].batch = b
  <2>1. b - 1 \in 0..cursor /\ (b - 1) + 1 = b
    BY <1>2, <1>7
  <2> QED BY <1>5, <2>1
<1> QED BY <1>6, <1>7

LEMMA CursorStep ==
  ASSUME TypeOK, producer = "extractor", IsPrefix(out_records), CursorInv, [Next]_vars
  PROVE  CursorInv'
<1>1. CASE UNCHANGED extractor
  BY <1>1 DEF extractor, CursorInv
<1>2. CASE StartExtractor \/ GiveUp \/ Finish \/ Abort
  <2>1. cursor' = 0
    BY <1>2 DEF StartExtractor, GiveUp, Finish, Abort, Exit
  <2> QED BY <2>1 DEF CursorInv
<1>3. CASE Skip
  <2>1. /\ stage = "scan" /\ cursor' = cursor + 1 /\ UNCHANGED out_records
        /\ \E k \in DOMAIN out_records : out_records[k].batch = cursor + 1
    BY <1>3 DEF Skip, Reading, Processed
  <2>2. \A b \in 1..(cursor + 1) : b \in 1..cursor \/ b = cursor + 1
    BY BatchesAssumption DEF TypeOK
  <2> QED BY <2>1, <2>2 DEF CursorInv
<1>4. CASE Extract
  <2>1. /\ Reading /\ ~Processed(cursor + 1)
        /\ out_records' = Extended /\ cursor' = cursor + 1
    BY <1>4 DEF Extract, Extended
  <2>2. \A b \in 1..(cursor + 1) : \E k \in DOMAIN Extended : Extended[k].batch = b
    BY <2>1, PrefixExtended
  <2> HIDE DEF Extended
  <2> QED BY <2>1, <2>2 DEF CursorInv
<1>5. CASE Missing
  BY <1>5 DEF Missing, CursorInv
<1>6. \/ UNCHANGED extractor
      \/ StartExtractor \/ Skip \/ Extract \/ Missing \/ GiveUp \/ Finish \/ Abort
  BY DEF Next, vars, Extraction, Extractor, Output, BeginCertificate, EndCertificate,
         TearCertificate
<1> QED BY <1>1, <1>2, <1>3, <1>4, <1>5, <1>6

LEMMA OrderStep == TypeOK /\ OrderInv /\ [Next]_vars => OrderInv'
<1> SUFFICES ASSUME TypeOK, OrderInv, [Next]_vars, producer = "extractor"
             PROVE  /\ IsPrefix(file') /\ IsPrefix(out_records')
                    /\ IsPrefix(copy') /\ IsPrefix(batches')
                    /\ CursorInv'
  BY SameDeployment DEF OrderInv, IsPrefix
<1>1. IsPrefix(Empty)
  BY BatchesAssumption DEF IsPrefix, Empty
<1>2. /\ IsPrefix(file) /\ IsPrefix(out_records) /\ IsPrefix(copy) /\ IsPrefix(batches)
      /\ CursorInv
  BY DEF OrderInv
<1>3. ASSUME NEW f, Written(f) PROVE IsPrefix(f)
  <2>1. CASE f \in {Empty, file, out_records, copy, batches}
    BY <1>1, <1>2, <2>1
  <2>2. CASE f = Recorded /\ pc \in {"write", "record", "store"}
    <3>1. /\ DOMAIN Recorded = DOMAIN batches
          /\ \A k \in DOMAIN batches : Recorded[k].batch = batches[k].batch
      BY <2>2, RecordedFile DEF TypeOK
    <3> HIDE DEF Recorded
    <3> QED BY <1>2, <2>2, <3>1 DEF IsPrefix
  <2>3. CASE f = Extended /\ Reading /\ ~Processed(cursor + 1)
    BY <1>2, <2>3, PrefixExtended
  <2> QED BY <1>3, <2>1, <2>2, <2>3 DEF Written
<1>4. CursorInv'
  BY <1>2, CursorStep
<1> QED BY <1>3, <1>4, Copies

LEMMA OrderInit == Init => OrderInv
<1>1. IsPrefix(Empty)
  BY BatchesAssumption DEF IsPrefix, Empty
<1> QED
  BY <1>1 DEF Init, ExtractionInit, FeederInit, DriverInit, OrderInv, CursorInv

\* The batch file and every copy of it hold the first batches of the order of
\* consensus, at the keys 0, 1, 2, ...
THEOREM OrderKept == Spec => []FileFollowsOrder
<1>1. OrderInv => FileFollowsOrder
  BY DEF OrderInv, FileFollowsOrder
<1> QED BY <1>1, TypeInit, TypeStep, OrderInit, OrderStep, PTL DEF Spec

-----------------------------------------------------------------------------
(***************************************************************************)
(* The blocks of the clients and of the driver.                            *)
(***************************************************************************)
RetrySteps    == {"send", "attempt", "submit", "final", "save", "write"}
EndpointSteps == {"endpoint", "check", "record", "store", "finalize"}

\* Which script takes which steps.
ScriptInv ==
    /\ pc \in RetrySteps => script \in RetryScripts
    /\ pc \in EndpointSteps => script \in EndpointScripts
    /\ pc \in {"final", "save", "write"} => script # "retry"

\* The driver builds on a head that the first client had.
BaseInv ==
    /\ pc \in {"attempt", "submit", "final", "save", "write"} => Ancestor(base, head[First])
    /\ pc \in EndpointSteps => base \in known[First]

\* The built block has the transactions of the batch, on that head.
BuiltInv ==
    /\ pc \in {"check", "record", "store", "finalize"} => built = Append(base, ExpectedTxs)
    /\ pc \in {"record", "store", "finalize"} => \E e \in Endpoint : built \in known[e]
    /\ pc \in {"submit", "final"} /\ script # "retry" =>
         built = Append(head[First], ExpectedTxs)
    /\ pc \in {"final", "save", "write"} => built \in known[First]
    /\ pc \in {"save", "write"} =>
         /\ built = head[First] \/ built \in unadopted
         /\ built # << >> /\ built[Len(built)] = ExpectedTxs

PerBatch(b) == \A i \in 1..Len(b) : \E n \in 1..N : b[i] = Txs[n]

\* The clients know their heads, and only blocks of one batch each.
KnownInv ==
    \A e \in Endpoint : head[e] \in known[e] /\ \A b \in known[e] : PerBatch(b)

DriverInv == ScriptInv /\ BaseInv /\ BuiltInv /\ KnownInv

LEMMA Ancestors ==
  ASSUME NEW a \in Block, NEW b \in Block, NEW S \in SUBSET Tx
  PROVE  /\ Ancestor(a, a)
         /\ Ancestor(a, b) => Ancestor(a, Append(b, S))
         /\ ~Ancestor(Append(a, S), a)
         /\ Append(a, S) # << >> /\ Append(a, S)[Len(Append(a, S))] = S
<1>1. Len(a) \in Nat /\ Len(b) \in Nat
  BY DEF Block
<1>2. Ancestor(a, a)
  BY <1>1 DEF Ancestor
<1>3. Ancestor(a, b) => Ancestor(a, Append(b, S))
  <2>1. \A i \in 1..Len(a) : Len(a) <= Len(b) => i \in 1..Len(b)
    BY <1>1
  <2> QED BY <1>1, <2>1, AppendBlock DEF Ancestor
<1>4. ~Ancestor(Append(a, S), a)
  BY <1>1, AppendBlock DEF Ancestor
<1>5. Append(a, S) # << >> /\ Append(a, S)[Len(Append(a, S))] = S
  BY <1>1, AppendBlock, EmptyBlock
<1> QED BY <1>2, <1>3, <1>4, <1>5

\* The transactions of the batch that the driver works on.
LEMMA CurrentBatch ==
  ASSUME TypeOK, pc # "off"
  PROVE  Current \in 1..N /\ ExpectedTxs = Txs[Current] /\ ExpectedTxs \in SUBSET Tx
<1>1. batches[key] \in Record
  BY DEF TypeOK, IsFile
<1> QED BY <1>1, BatchesAssumption DEF Current, ExpectedTxs, Record

LEMMA PerBatchAppend ==
  ASSUME TypeOK, pc # "off", NEW b \in Block, PerBatch(b)
  PROVE  PerBatch(Append(b, ExpectedTxs))
<1>1. Current \in 1..N /\ ExpectedTxs = Txs[Current] /\ ExpectedTxs \in SUBSET Tx
  BY CurrentBatch
<1> DEFINE S == ExpectedTxs
           c == Append(b, S)
<1>2. /\ Len(c) = Len(b) + 1 /\ Len(b) \in Nat /\ c[Len(b) + 1] = S
      /\ \A i \in 1..Len(b) : c[i] = b[i]
  BY <1>1, AppendBlock
<1> HIDE DEF c
<1>3. ASSUME NEW i \in 1..Len(c) PROVE \E n \in 1..N : c[i] = Txs[n]
  <2>1. i \in 1..Len(b) \/ i = Len(b) + 1
    BY <1>2
  <2> QED BY <1>1, <1>2, <2>1 DEF PerBatch
<1>4. PerBatch(c)
  BY <1>3 DEF PerBatch
<1> QED BY <1>4 DEF c

-----------------------------------------------------------------------------
(***************************************************************************)
(* What a step can do to the clients: one of them moves its head to a      *)
(* block it knows and whose descendant it does not have, or one of them    *)
(* accepts the block that the driver built.                                *)
(***************************************************************************)
HeadMoves ==
    \/ head' = head
    \/ \E e \in Endpoint : \E b \in known[e] :
         /\ ~Ancestor(b, head[e])
         /\ head' = [head EXCEPT ![e] = b]
         /\ script \in RetryScripts =>
              e = First /\ b = Append(head[First], ExpectedTxs) /\ pc # "off"

Submitting == pc = "check" \/ (pc = "submit" /\ script # "retry")

KnownGrows ==
    \/ known' = known
    \/ /\ Submitting
       /\ \E e \in Endpoint : known' = [known EXCEPT ![e] = @ \cup {built}]

LEMMA ForkchoiceMoves ==
  ASSUME TypeOK, NEW e \in Endpoint, NEW b \in Block, forkchoiceUpdated(e, b)
  PROVE  \/ head' = head
         \/ b \in known[e] /\ ~Ancestor(b, head[e]) /\ head' = [head EXCEPT ![e] = b]
<1>1. CASE b = head[e]
  BY <1>1 DEF forkchoiceUpdated, TypeOK
<1>2. CASE b # head[e]
  BY <1>2 DEF forkchoiceUpdated, Adopts
<1> QED BY <1>1, <1>2

\* The head on which an attempt builds is the head of the client already.
LEMMA AttemptFacts ==
  ASSUME TypeOK, ScriptInv, BaseInv, BuildRetry \/ BuildRetry2 \/ BuildRetry3
  PROVE  /\ pc = "attempt" /\ pc' \in {"attempt", "submit"}
         /\ UNCHANGED <<head, known, batches, key, base, unadopted>>
         /\ pc' = "submit" /\ script # "retry" => built' = Append(head[First], ExpectedTxs)
<1> DEFINE Facts(parent, M) ==
      /\ pc = "attempt" /\ pc' \in {"attempt", "submit"}
      /\ UNCHANGED <<head, known, batches, key, base, unadopted>>
      /\ pc' = "submit" => \E S \in M : built' = Append(parent, S)
<1>1. ASSUME NEW M, Attempt(head[First], M) PROVE Facts(head[First], M)
  <2>1. head' = head
    BY <1>1, Clients DEF Attempt, forkchoiceUpdated, TypeOK
  <2> QED BY <1>1, <2>1 DEF Attempt, Attempting
<1>2. CASE BuildRetry
  BY <1>1, <1>2 DEF BuildRetry
<1>3. CASE BuildRetry2
  BY <1>1, <1>3 DEF BuildRetry2, all_txs_exactly_match
<1>4. CASE BuildRetry3
  <2>1. Attempt(base, all_txs_exactly_match)
    BY <1>4 DEF BuildRetry3
  <2>2. base = head[First]
    <3>1. pc = "attempt" /\ Adopts(First, base)
      BY <2>1 DEF Attempt, Attempting
    <3> QED BY <3>1 DEF Adopts, BaseInv
  <2> QED BY <1>1, <2>1, <2>2 DEF all_txs_exactly_match
<1> QED BY <1>2, <1>3, <1>4

LEMMA RetryEffects ==
  ASSUME TypeOK, ScriptInv, BaseInv, BuiltInv, RetryDriver
  PROVE  HeadMoves /\ KnownGrows
<1>a. First \in Endpoint /\ built \in Block
  BY Clients DEF TypeOK
<1>1. CASE \/ StartRetry \/ SendTxs \/ Retry \/ Refused \/ OpenSave \/ Save \/ GiveUpBatch
  BY <1>1
     DEF StartRetry, SendTxs, Retry, Refused, OpenSave, Save, GiveUpBatch, node, HeadMoves,
         KnownGrows
<1>2. CASE BuildRetry \/ BuildRetry2 \/ BuildRetry3
  BY <1>2, AttemptFacts DEF HeadMoves, KnownGrows
<1>3. CASE Submit
  BY <1>3, <1>a DEF Submit, Submits, newPayload, HeadMoves, KnownGrows, Submitting
<1>4. ASSUME forkchoiceUpdated(First, built), pc = "final" PROVE HeadMoves
  <2>1. built = Append(head[First], ExpectedTxs) /\ built \in known[First]
    BY <1>4 DEF ScriptInv, BuiltInv
  <2> QED BY <1>4, <1>a, <2>1, ForkchoiceMoves DEF HeadMoves
<1>5. CASE LoseAnswer
  <2>1. CASE pc = "submit" /\ newPayload(First, built) /\ UNCHANGED head
    BY <1>5, <1>a, <2>1
       DEF LoseAnswer, Submits, newPayload, HeadMoves, KnownGrows, Submitting
  <2>2. CASE pc = "final" /\ forkchoiceUpdated(First, built) /\ UNCHANGED known
    BY <1>4, <2>2 DEF KnownGrows
  <2>3. CASE UNCHANGED <<head, known>>
    BY <2>3 DEF HeadMoves, KnownGrows
  <2> QED BY <1>5, <2>1, <2>2, <2>3 DEF LoseAnswer, Lost
<1>6. CASE FinalForkchoice
  <2>1. HeadMoves
    <3>1. CASE head' = head
      BY <3>1 DEF HeadMoves
    <3> QED BY <1>4, <1>6, <3>1 DEF FinalForkchoice
  <2> QED BY <1>6, <2>1 DEF FinalForkchoice, KnownGrows
<1> QED BY <1>1, <1>2, <1>3, <1>5, <1>6 DEF RetryDriver

LEMMA EndpointEffects ==
  ASSUME TypeOK, ScriptInv, EndpointDriver
  PROVE  HeadMoves /\ KnownGrows
<1>a. base \in Block /\ built \in Block
  BY DEF TypeOK
<1>b. pc \in EndpointSteps => url \in Endpoint /\ script \notin RetryScripts
  BY Clients DEF TypeOK, url, EndpointSteps, ScriptInv, RetryScripts, EndpointScripts
<1>1. CASE \/ StartNew \/ StartMain \/ StartWithRetry \/ NotValid
           \/ OpenRecord \/ RecordBlock \/ ReplaceRecord
  BY <1>1
     DEF StartNew, StartMain, StartWithRetry, Begin, NotValid, OpenRecord, RecordBlock,
         ReplaceRecord, node, HeadMoves, KnownGrows
<1>c. ASSUME NEW b \in Block, forkchoiceUpdated(url, b) \/ UNCHANGED head, pc \in EndpointSteps
      PROVE  HeadMoves
  <2>1. CASE UNCHANGED head
    BY <2>1 DEF HeadMoves
  <2> QED BY <1>b, <1>c, <2>1, ForkchoiceMoves DEF HeadMoves
<1>2. CASE Match \/ Mismatch \/ NoPayloadId
  <2>1. /\ pc \in EndpointSteps
        /\ forkchoiceUpdated(url, base) \/ UNCHANGED head
        /\ UNCHANGED known
    BY <1>2 DEF Match, Mismatch, NoPayloadId, EndpointSteps
  <2> QED BY <1>a, <1>c, <2>1 DEF KnownGrows
<1>3. CASE NewPayload
  <2>1. pc = "check" /\ url \in Endpoint /\ newPayload(url, built) /\ UNCHANGED head
    BY <1>3, <1>b DEF NewPayload, EndpointSteps
  <2> QED BY <2>1 DEF newPayload, HeadMoves, KnownGrows, Submitting
<1>4. CASE FinalizeHead
  <2>1. /\ pc \in EndpointSteps
        /\ forkchoiceUpdated(url, built) \/ UNCHANGED head
        /\ UNCHANGED known
    BY <1>4 DEF FinalizeHead, EndpointSteps
  <2> QED BY <1>a, <1>c, <2>1 DEF KnownGrows
<1> QED BY <1>1, <1>2, <1>3, <1>4 DEF EndpointDriver

LEMMA Effects ==
  ASSUME TypeOK, DriverInv, [Next]_vars
  PROVE  HeadMoves /\ KnownGrows
<1> USE DEF DriverInv
<1>1. CASE Driving
  <2>1. CASE Die
    BY <2>1 DEF Die, node, HeadMoves, KnownGrows
  <2> QED BY <1>1, <2>1, RetryEffects, EndpointEffects DEF Driving
<1>2. CASE ~Driving
  <2>1. UNCHANGED <<head, known>>
    BY <1>2
       DEF Next, vars, node, Feeding, Feeder, StartRaw2, StartChunk, StartFeeder, SendRaw,
           SendForkchoice, OpenBatches, SaveBatch, SaveMarker, TornMarker, FeederDies, Arrive
  <2> QED BY <2>1 DEF HeadMoves, KnownGrows
<1> QED BY <1>1, <1>2

\* What a client has accepted stays.
LEMMA KnownStays ==
  ASSUME TypeOK, KnownGrows
  PROVE  \A e \in Endpoint : known[e] \subseteq known'[e]
  BY DEF KnownGrows, TypeOK

LEMMA KnownStep ==
  ASSUME TypeOK, DriverInv, [Next]_vars
  PROVE  KnownInv'
<1>1. HeadMoves /\ KnownGrows
  BY Effects
<1>2. Submitting => PerBatch(built)
  <2>1. CASE pc = "check"
    <3>1. built = Append(base, ExpectedTxs) /\ base \in Block /\ PerBatch(base)
      BY <2>1, Clients DEF DriverInv, BuiltInv, BaseInv, KnownInv, EndpointSteps, TypeOK
    <3> QED BY <2>1, <3>1, PerBatchAppend
  <2>2. CASE pc = "submit" /\ script # "retry"
    <3>1. /\ built = Append(head[First], ExpectedTxs)
          /\ head[First] \in Block /\ PerBatch(head[First])
      BY <2>2, Clients DEF DriverInv, BuiltInv, KnownInv, TypeOK
    <3> QED BY <2>2, <3>1, PerBatchAppend
  <2> QED BY <2>1, <2>2 DEF Submitting
<1>3. ASSUME NEW e \in Endpoint, NEW b \in known'[e] PROVE PerBatch(b)
  <2>1. b \in known[e] \/ (Submitting /\ b = built)
    BY <1>1, <1>3 DEF KnownGrows, TypeOK
  <2> QED BY <1>2, <2>1 DEF DriverInv, KnownInv
<1>4. ASSUME NEW e \in Endpoint PROVE head'[e] \in known'[e]
  <2>1. head'[e] \in known[e]
    BY <1>1 DEF HeadMoves, DriverInv, KnownInv, TypeOK
  <2> QED BY <1>1, <2>1, KnownStays
<1> QED BY <1>3, <1>4 DEF KnownInv, PerBatch

\* The scripts that save last only move the head of the client forward.
LEMMA HeadForward ==
  ASSUME TypeOK, HeadMoves, script \in RetryScripts, NEW a \in Block, Ancestor(a, head[First])
  PROVE  Ancestor(a, head'[First])
<1>1. First \in Endpoint /\ head[First] \in Block
  BY Clients DEF TypeOK
<1>2. CASE head' = head
  BY <1>2
<1>3. CASE pc # "off" /\ head' = [head EXCEPT ![First] = Append(head[First], ExpectedTxs)]
  <2>1. head'[First] = Append(head[First], ExpectedTxs)
    BY <1>1, <1>3 DEF TypeOK
  <2> QED BY <1>1, <1>3, <2>1, CurrentBatch, Ancestors
<1> QED BY <1>2, <1>3 DEF HeadMoves

LEMMA RetryStep ==
  ASSUME TypeOK, DriverInv, RetryDriver, HeadMoves, KnownGrows, script' = script
  PROVE  ScriptInv' /\ BaseInv' /\ BuiltInv'
<1>a. /\ First \in Endpoint /\ head[First] \in Block /\ base \in Block /\ built \in Block
      /\ ScriptInv /\ BaseInv /\ BuiltInv
  BY Clients DEF TypeOK, DriverInv
<1>b. pc # "off" => ExpectedTxs \in SUBSET Tx
  BY CurrentBatch
<1> USE DEF RetrySteps, EndpointSteps
<1>1. CASE StartRetry \/ Refused \/ Save \/ GiveUpBatch
  <2>1. pc' \in {"off", "send"}
    BY <1>1 DEF StartRetry, Refused, Save, GiveUpBatch, Seek, Off
  <2>2. script \in RetryScripts
    BY <1>1, <1>a DEF StartRetry, Refused, Save, GiveUpBatch, ScriptInv
  <2> QED BY <2>1, <2>2 DEF ScriptInv, BaseInv, BuiltInv
<1>2. CASE SendTxs
  <2>1. pc = "send" /\ pc' = "attempt" /\ base' = head[First] /\ UNCHANGED head
    BY <1>2 DEF SendTxs
  <2> QED BY <1>a, <2>1, Ancestors DEF ScriptInv, BaseInv, BuiltInv
<1>3. CASE BuildRetry \/ BuildRetry2 \/ BuildRetry3
  <2>1. /\ pc = "attempt" /\ pc' \in {"attempt", "submit"}
        /\ UNCHANGED <<head, known, batches, key, base>>
        /\ pc' = "submit" /\ script # "retry" => built' = Append(head[First], ExpectedTxs)
    BY <1>3, <1>a, AttemptFacts
  <2>2. ExpectedTxs' = ExpectedTxs
    BY <2>1 DEF ExpectedTxs, Current
  <2> QED BY <1>a, <2>1, <2>2 DEF ScriptInv, BaseInv, BuiltInv
<1>4. CASE Retry
  <2>1. pc = "attempt" /\ UNCHANGED <<pc, head, base>>
    BY <1>4 DEF Retry, Attempting, node
  <2> QED BY <1>a, <2>1 DEF ScriptInv, BaseInv, BuiltInv
<1>5. CASE LoseAnswer
  <2>1. /\ pc \in {"submit", "final"} /\ pc' = "attempt" /\ base' = base
        /\ script \in RetryScripts
    BY <1>5, <1>a DEF LoseAnswer, Lost, ScriptInv
  <2>2. Ancestor(base, head'[First])
    BY <1>a, <2>1, HeadForward DEF BaseInv
  <2> QED BY <2>1, <2>2 DEF ScriptInv, BaseInv, BuiltInv
<1>6. CASE Submit
  <2>1. /\ pc = "submit" /\ pc' = "final" /\ script \in RetryScripts \ {"retry"}
        /\ newPayload(First, built) /\ UNCHANGED <<head, batches, key, base, built>>
    BY <1>6 DEF Submit, Submits, memory
  <2>2. built \in known'[First]
    BY <1>a, <2>1 DEF newPayload, TypeOK
  <2>3. ExpectedTxs' = ExpectedTxs
    BY <2>1 DEF ExpectedTxs, Current
  <2> QED BY <1>a, <2>1, <2>2, <2>3 DEF ScriptInv, BaseInv, BuiltInv
<1>7. CASE FinalForkchoice
  <2>1. /\ pc = "final" /\ pc' = "save"
        /\ forkchoiceUpdated(First, built) \/ built \in unadopted'
        /\ UNCHANGED <<known, batches, key, base, built>>
        /\ script \in RetryScripts \ {"retry"}
    BY <1>7, <1>a DEF FinalForkchoice, Submits, memory
  <2>2. built = Append(head[First], ExpectedTxs) /\ built \in known[First]
    BY <1>a, <2>1 DEF BuiltInv
  <2>3. Adopts(First, built)
    BY <1>a, <1>b, <2>1, <2>2, Ancestors DEF Adopts
  <2>4. head'[First] = built \/ built \in unadopted'
    BY <1>a, <2>1, <2>3 DEF forkchoiceUpdated, TypeOK
  <2>5. built # << >> /\ built[Len(built)] = ExpectedTxs
    BY <1>a, <1>b, <2>1, <2>2, Ancestors
  <2>6. ExpectedTxs' = ExpectedTxs
    BY <2>1 DEF ExpectedTxs, Current
  <2>7. Ancestor(base, head'[First])
    BY <1>a, <2>1, HeadForward DEF BaseInv
  <2> QED BY <2>1, <2>2, <2>4, <2>5, <2>6, <2>7 DEF ScriptInv, BaseInv, BuiltInv
<1>8. CASE OpenSave
  <2>1. /\ pc = "save" /\ pc' = "write"
        /\ UNCHANGED <<head, known, batches, key, base, built, unadopted>>
    BY <1>8 DEF OpenSave, node, memory
  <2>2. ExpectedTxs' = ExpectedTxs
    BY <2>1 DEF ExpectedTxs, Current
  <2> QED BY <1>a, <2>1, <2>2 DEF ScriptInv, BaseInv, BuiltInv
<1> QED BY <1>1, <1>2, <1>3, <1>4, <1>5, <1>6, <1>7, <1>8 DEF RetryDriver

LEMMA EndpointStep ==
  ASSUME TypeOK, DriverInv, EndpointDriver, KnownGrows, script' = script
  PROVE  ScriptInv' /\ BaseInv' /\ BuiltInv'
<1>a. /\ First \in Endpoint /\ base \in Block /\ built \in Block
      /\ ScriptInv /\ BaseInv /\ BuiltInv /\ KnownInv
  BY Clients DEF TypeOK, DriverInv
<1>b. known[First] \subseteq known'[First]
  BY Clients, KnownStays
<1> USE DEF RetrySteps, EndpointSteps
<1>c. ASSUME pc \in EndpointSteps, pc' \in EndpointSteps, UNCHANGED base
      PROVE  ScriptInv' /\ BaseInv'
  BY <1>a, <1>b, <1>c DEF ScriptInv, BaseInv
<1>1. CASE StartNew \/ StartMain \/ StartWithRetry
  <2>1. /\ pc' = "endpoint" /\ base' = head[First] /\ UNCHANGED known
        /\ script \in EndpointScripts
    BY <1>1 DEF StartNew, StartMain, StartWithRetry, Begin, node, EndpointScripts
  <2>2. head[First] \in known[First]
    BY <1>a DEF KnownInv
  <2> QED BY <2>1, <2>2 DEF ScriptInv, BaseInv, BuiltInv
<1>2. CASE NoPayloadId \/ NotValid \/ FinalizeHead \/ Mismatch
  <2>1. pc \in EndpointSteps /\ (pc' = "off" \/ (pc' = "endpoint" /\ UNCHANGED base))
    BY <1>2 DEF NoPayloadId, NotValid, FinalizeHead, Mismatch, NextEndpoint, Off
  <2> QED BY <1>c, <2>1 DEF ScriptInv, BaseInv, BuiltInv
<1>3. CASE Match
  <2>1. /\ pc = "endpoint" /\ pc' = "check" /\ built' = Append(base, ExpectedTxs)
        /\ UNCHANGED <<batches, key, base>>
    BY <1>3 DEF Match
  <2>2. ExpectedTxs' = ExpectedTxs
    BY <2>1 DEF ExpectedTxs, Current
  <2> QED BY <1>c, <2>1, <2>2 DEF BuiltInv
<1>4. CASE NewPayload
  <2>1. /\ pc = "check" /\ pc' = "record" /\ newPayload(url, built)
        /\ UNCHANGED <<batches, key, base, built>>
    BY <1>4 DEF NewPayload, memory
  <2>2. url \in Endpoint
    BY <2>1, Clients DEF TypeOK, url
  <2>3. built \in known'[url]
    BY <2>1, <2>2 DEF newPayload, TypeOK
  <2>4. ExpectedTxs' = ExpectedTxs
    BY <2>1 DEF ExpectedTxs, Current
  <2> QED BY <1>a, <1>c, <2>1, <2>2, <2>3, <2>4 DEF BuiltInv
<1>6. CASE OpenRecord
  <2>1. /\ pc = "record" /\ pc' = "store" /\ script # "new"
        /\ UNCHANGED <<known, batches, key, base, built>>
    BY <1>6 DEF OpenRecord, node, memory
  <2>2. ExpectedTxs' = ExpectedTxs
    BY <2>1 DEF ExpectedTxs, Current
  <2> QED BY <1>a, <1>c, <2>1, <2>2 DEF BuiltInv
<1>5. CASE RecordBlock \/ ReplaceRecord
  <2>1. /\ pc \in {"record", "store"} /\ pc' = "finalize" /\ batches' = Recorded
        /\ UNCHANGED <<known, key, base, built>>
    BY <1>5 DEF RecordBlock, ReplaceRecord, node
  <2>2. Recorded[key].batch = batches[key].batch
    BY <1>a, <2>1, RecordedFile DEF TypeOK
  <2>3. ExpectedTxs' = ExpectedTxs
    BY <2>1, <2>2 DEF ExpectedTxs, Current
  <2> QED BY <1>a, <1>c, <2>1, <2>3 DEF BuiltInv
<1> QED BY <1>1, <1>2, <1>3, <1>4, <1>5, <1>6 DEF EndpointDriver

LEMMA DriverStep ==
  ASSUME TypeOK, DriverInv, [Next]_vars
  PROVE  DriverInv'
<1>1. HeadMoves /\ KnownGrows /\ KnownInv' /\ script' = script
  BY Effects, KnownStep, SameDeployment
<1>2. CASE Driving
  <2>1. CASE Die
    BY <1>1, <2>1
       DEF Die, Off, DriverInv, ScriptInv, BaseInv, BuiltInv, RetrySteps, EndpointSteps
  <2> QED BY <1>1, <1>2, <2>1, RetryStep, EndpointStep DEF Driving, DriverInv
<1>3. CASE ~Driving
  <2>1. UNCHANGED <<head, known, pc, batches, key, base, built, unadopted>>
    BY <1>3
       DEF Next, vars, node, driver, memory, Feeding, Feeder, StartRaw2, StartChunk,
           StartFeeder, SendRaw, SendForkchoice, OpenBatches, SaveBatch, SaveMarker,
           TornMarker, FeederDies, Arrive
  <2>2. ExpectedTxs' = ExpectedTxs
    BY <2>1 DEF ExpectedTxs, Current
  <2> QED BY <1>1, <2>1, <2>2 DEF DriverInv, ScriptInv, BaseInv, BuiltInv
<1> QED BY <1>2, <1>3

LEMMA DriverStart == Init => DriverInv
<1> SUFFICES ASSUME Init PROVE DriverInv
  OBVIOUS
<1>1. pc = "off" /\ head = [e \in Endpoint |-> << >>] /\ known = [e \in Endpoint |-> {<< >>}]
  BY DEF Init, DriverInit, NodeInit
<1>2. PerBatch(<< >>)
  BY DEF PerBatch
<1> QED
  BY <1>1, <1>2
     DEF DriverInv, ScriptInv, BaseInv, BuiltInv, KnownInv, RetrySteps, EndpointSteps

\* Every block that a client accepts is made of the transactions of exactly one
\* batch, for any choice that the clients make among the pending ones.
THEOREM OneBatchPerBlock == Spec => []BlockPerBatch
<1>1. DriverInv => BlockPerBatch
  BY DEF DriverInv, KnownInv, PerBatch, BlockPerBatch
<1> QED BY <1>1, TypeInit, TypeStep, DriverStart, DriverStep, PTL DEF Spec

-----------------------------------------------------------------------------
(***************************************************************************)
(* The blocks in the copies of the batch file.                             *)
(***************************************************************************)

\* A block recorded for a batch executes it and is known; where the script asks
\* the first client to make it the head before, it is on the client's chain or
\* the client did not adopt it; and where the script compares the height with
\* the key, the two stay together.
Known(b, n) ==
    /\ b # << >> /\ b[Len(b)] = Txs[n]
    /\ \E e \in Endpoint : b \in known[e]

OnChain(b) == script \in RetryScripts => Ancestor(b, head[First]) \/ b \in unadopted

Fits(b, k) == script = "new" => Len(b) = k + 1

RecordsRight(f) ==
    \A k \in DOMAIN f :
        LET b == f[k].block
        IN  b # NoBlock => Known(b, f[k].batch) /\ OnChain(b) /\ Fits(b, k)

RecordInv ==
    RecordsRight(file) /\ RecordsRight(out_records) /\ RecordsRight(copy) /\ RecordsRight(batches)

\* The guard on the height.
KeyInv == pc \in EndpointSteps /\ script = "new" => key = Len(base)

LEMMA KeyStep ==
  ASSUME TypeOK, DriverInv, KeyInv, [Next]_vars
  PROVE  KeyInv'
<1>1. script' = script
  BY SameDeployment
<1>2. CASE StartNew \/ StartMain \/ StartWithRetry
  <2>1. head[First] \in Block
    BY Clients DEF TypeOK
  <2>2. Len(head[First]) \in Nat
    BY <2>1, AppendBlock, BatchesAssumption
  <2>3. base' = head[First] /\ key' \in DOMAIN file /\ DOMAIN file \subseteq Nat
    BY <1>2 DEF StartNew, StartMain, StartWithRetry, Begin, Least, Pending, TypeOK, IsFile
  <2>4. script = "new" => key' = height
    BY <1>2 DEF StartNew, StartMain, StartWithRetry
  <2> QED BY <1>1, <2>2, <2>3, <2>4 DEF KeyInv, height
<1>3. CASE EndpointDriver /\ ~(StartNew \/ StartMain \/ StartWithRetry)
  <2>1. /\ pc \in EndpointSteps
        /\ pc' = "off" \/ (pc' \in EndpointSteps /\ UNCHANGED <<key, base>>)
    BY <1>3
       DEF EndpointDriver, NoPayloadId, Match, Mismatch, NewPayload, NotValid, OpenRecord,
           RecordBlock, ReplaceRecord, FinalizeHead, NextEndpoint, Off, memory, EndpointSteps
  <2> QED BY <1>1, <2>1 DEF KeyInv, EndpointSteps
<1>4. CASE RetryDriver
  <2>1. pc' \notin EndpointSteps
    <3>1. CASE StartRetry \/ Refused \/ Save \/ GiveUpBatch
      BY <3>1 DEF StartRetry, Refused, Save, GiveUpBatch, Seek, Off, EndpointSteps
    <3>2. CASE BuildRetry \/ BuildRetry2 \/ BuildRetry3
      BY <3>2, AttemptFacts DEF DriverInv, EndpointSteps
    <3>3. CASE SendTxs \/ Retry \/ Submit \/ LoseAnswer \/ FinalForkchoice \/ OpenSave
      BY <3>3
         DEF SendTxs, Retry, Attempting, Submit, LoseAnswer, FinalForkchoice, OpenSave,
             EndpointSteps
    <3> QED BY <1>4, <3>1, <3>2, <3>3 DEF RetryDriver
  <2> QED BY <2>1 DEF KeyInv
<1>5. CASE Die
  BY <1>5 DEF Die, Off, KeyInv, EndpointSteps
<1>6. CASE UNCHANGED driver
  BY <1>1, <1>6 DEF driver, memory, KeyInv
<1>7. UNCHANGED driver \/ Driving
  BY DEF Next, vars
<1> QED BY <1>2, <1>3, <1>4, <1>5, <1>6, <1>7 DEF Driving

\* The block that is about to be recorded.
LEMMA BuiltFits ==
  ASSUME TypeOK, DriverInv, KeyInv, pc \in {"write", "record", "store"}
  PROVE  built \in Block /\ Known(built, Current) /\ OnChain(built) /\ Fits(built, key)
<1>1. /\ built \in Block /\ base \in Block /\ ExpectedTxs = Txs[Current]
      /\ ExpectedTxs \in SUBSET Tx /\ First \in Endpoint
  BY CurrentBatch, Clients DEF TypeOK
<1>2. CASE pc = "write"
  <2>1. /\ built = head[First] \/ built \in unadopted
        /\ built # << >> /\ built[Len(built)] = ExpectedTxs
        /\ built \in known[First] /\ script \in RetryScripts
    BY <1>2 DEF DriverInv, BuiltInv, ScriptInv, RetrySteps
  <2> QED BY <1>1, <2>1, Ancestors DEF Known, OnChain, Fits, RetryScripts
<1>3. CASE pc \in {"record", "store"}
  <2>1. /\ built = Append(base, ExpectedTxs) /\ \E e \in Endpoint : built \in known[e]
        /\ script \in EndpointScripts
    BY <1>3 DEF DriverInv, BuiltInv, ScriptInv, EndpointSteps
  <2>2. built # << >> /\ built[Len(built)] = ExpectedTxs
    BY <1>1, <2>1, Ancestors
  <2>3. Len(built) = Len(base) + 1 /\ Len(base) \in Nat
    BY <1>1, <2>1, AppendBlock
  <2>4. key \in Nat
    BY <1>3 DEF TypeOK, IsFile
  <2>5. Fits(built, key)
    BY <1>3, <2>3, <2>4 DEF KeyInv, EndpointSteps, Fits
  <2> QED BY <1>1, <2>1, <2>2, <2>5 DEF Known, OnChain, EndpointScripts, RetryScripts
<1> QED BY <1>2, <1>3

\* Nothing that is right becomes wrong.
LEMMA RightStays ==
  ASSUME TypeOK, HeadMoves, KnownGrows, script' = script, unadopted \subseteq unadopted',
         NEW b \in Block, NEW n, NEW k, Known(b, n), OnChain(b), Fits(b, k)
  PROVE  Known(b, n)' /\ OnChain(b)' /\ Fits(b, k)'
<1>1. Known(b, n)'
  BY KnownStays DEF Known
<1>2. OnChain(b)'
  BY HeadForward DEF OnChain
<1> QED BY <1>1, <1>2 DEF Fits

LEMMA UnadoptedStays == [Next]_vars => unadopted \subseteq unadopted'
<1> SUFFICES ASSUME [Next]_vars PROVE unadopted \subseteq unadopted'
  OBVIOUS
<1>1. CASE RetryDriver
  BY <1>1
     DEF RetryDriver, StartRetry, SendTxs, BuildRetry, BuildRetry2, BuildRetry3, Attempt, Retry,
         Submit, LoseAnswer, Refused, FinalForkchoice, OpenSave, Save, GiveUpBatch
<1>2. CASE EndpointDriver
  BY <1>2
     DEF EndpointDriver, StartNew, StartMain, StartWithRetry, Begin, NoPayloadId, Match, Mismatch,
         NewPayload, NotValid, OpenRecord, RecordBlock, ReplaceRecord, FinalizeHead
<1>3. CASE Die \/ UNCHANGED driver
  BY <1>3 DEF Die, driver
<1>4. UNCHANGED driver \/ Driving
  BY DEF Next, vars
<1> QED BY <1>1, <1>2, <1>3, <1>4 DEF Driving

LEMMA RecordStep ==
  ASSUME TypeOK, DriverInv, KeyInv, RecordInv, [Next]_vars
  PROVE  RecordInv'
<1>1. HeadMoves /\ KnownGrows /\ script' = script /\ unadopted \subseteq unadopted'
  BY Effects, SameDeployment, UnadoptedStays
<1>a. /\ IsFile(file) /\ IsFile(out_records) /\ IsFile(copy) /\ IsFile(batches)
      /\ pc # "off" => key \in DOMAIN batches
      /\ feeding # "off" => chunk \in 1..N
      /\ Reading => cursor + 1 \in 1..N
  BY BatchesAssumption DEF TypeOK, Reading
<1> DEFINE Right(f) ==
      \A k \in DOMAIN f :
          f[k].block # NoBlock =>
              /\ f[k].block \in Block
              /\ Known(f[k].block, f[k].batch) /\ OnChain(f[k].block) /\ Fits(f[k].block, k)
<1>2. ASSUME NEW f, IsFile(f), RecordsRight(f) PROVE Right(f)
  BY <1>2 DEF IsFile, Record, RecordsRight
<1>3. ASSUME NEW f, IsFile(f), RecordsRight(f), NEW d, NEW n PROVE Right(Put(f, d, NewRecord(n)))
  <2> DEFINE g == Put(f, d, NewRecord(n))
  <2>1. /\ DOMAIN g = DOMAIN f \cup {d} /\ g[d].block = NoBlock
        /\ \A k \in DOMAIN f \ {d} : g[k] = f[k]
    BY DEF Put, NewRecord
  <2>2. Right(f)
    BY <1>2, <1>3
  <2> HIDE DEF g
  <2>3. Right(g)
    BY <2>1, <2>2
  <2> QED BY <2>3 DEF g
<1>4. ASSUME pc \in {"write", "record", "store"} PROVE Right(Recorded)
  <2>1. /\ built \in Block /\ Known(built, batches[key].batch)
        /\ OnChain(built) /\ Fits(built, key)
    BY <1>4, BuiltFits DEF Current
  <2>2. /\ DOMAIN Recorded = DOMAIN batches
        /\ \A k \in DOMAIN batches : Recorded[k].batch = batches[k].batch
        /\ Recorded[key].block = built
        /\ \A k \in DOMAIN batches \ {key} : Recorded[k].block = batches[k].block
    BY <1>4, <1>a, <2>1, RecordedFile
  <2>3. Right(batches)
    BY <1>a, <1>2 DEF RecordInv
  <2> HIDE DEF Recorded
  <2> QED BY <2>1, <2>2, <2>3
<1>5. Right(Empty)
  BY EmptyFile
<1>6. ASSUME NEW f, Written(f) PROVE Right(f)
  BY <1>a, <1>2, <1>3, <1>4, <1>5, <1>6 DEF Written, Extended, Fed, RecordInv
<1>7. ASSUME NEW f, Right(f) PROVE RecordsRight(f)'
  BY <1>1, <1>7, RightStays DEF RecordsRight
<1> QED BY <1>6, <1>7, Copies DEF RecordInv

LEMMA RecordStart == Init => KeyInv /\ RecordInv
<1>1. RecordsRight(Empty)
  BY EmptyFile DEF RecordsRight
<1> QED
  BY <1>1
     DEF Init, ExtractionInit, FeederInit, DriverInit, KeyInv, RecordInv, EndpointSteps

RightInv == TypeOK /\ DriverInv /\ KeyInv /\ RecordInv

LEMMA Right == Spec => []RightInv
<1>1. Init => RightInv
  BY TypeInit, DriverStart, RecordStart DEF RightInv
<1>2. RightInv /\ [Next]_vars => RightInv'
  BY TypeStep, DriverStep, KeyStep, RecordStep DEF RightInv
<1> QED BY <1>1, <1>2, PTL DEF Spec

\* A recorded block has the transactions of the batch it is recorded for, and
\* a client has accepted it, whatever copies of the file were written over
\* which.
THEOREM RecordedBlocksKnown == Spec => []RecordedIsKnown
<1>1. RightInv => RecordedIsKnown
  BY DEF RightInv, RecordInv, RecordsRight, Known, RecordedIsKnown
<1> QED BY <1>1, Right, PTL

\* The scripts that set the head before they save record only blocks of the
\* client's canonical chain and blocks that the client, asked to, did not make
\* its head, with any number of attempts and of lost answers.
THEOREM RecordedBlocksOnChain == Spec => []RecordedOnChain
<1>1. RightInv => RecordedOnChain
  BY DEF RightInv, RecordInv, RecordsRight, OnChain, RecordedOnChain
<1> QED BY <1>1, Right, PTL

-----------------------------------------------------------------------------
(***************************************************************************)
(* The refinement.                                                         *)
(***************************************************************************)

\* A block that executes the first batches, in their order.
InOrderBlock(b) == Len(b) \in 0..N /\ \A i \in 1..Len(b) : b[i] = Txs[i]

ChainInv ==
    script = "new" =>
        /\ producer = "extractor"
        /\ \A e \in Endpoint : \A b \in known[e] : InOrderBlock(b)

LEMMA ChainStart == Init => ChainInv
<1> SUFFICES ASSUME Init, script = "new"
             PROVE  producer = "extractor" /\ \A e \in Endpoint : \A b \in known[e] : InOrderBlock(b)
  BY DEF ChainInv
<1>1. producer = "extractor"
  BY DeploymentsAssumption DEF Init
<1>2. known = [e \in Endpoint |-> {<< >>}]
  BY DEF Init, NodeInit
<1>3. InOrderBlock(<< >>)
  BY BatchesAssumption DEF InOrderBlock
<1> QED BY <1>1, <1>2, <1>3

LEMMA ChainStep ==
  ASSUME TypeOK, DriverInv, KeyInv, OrderInv, ChainInv, [Next]_vars
  PROVE  ChainInv'
<1> SUFFICES ASSUME script = "new", NEW e \in Endpoint, NEW b \in known'[e]
             PROVE  InOrderBlock(b)
  BY SameDeployment DEF ChainInv, InOrderBlock
<1>1. \A c \in known[e] : InOrderBlock(c)
  BY DEF ChainInv
<1>2. b \in known[e] \/ (Submitting /\ b = built)
  BY Effects DEF KnownGrows, TypeOK
<1>3. CASE Submitting /\ b = built
  <2>1. pc = "check"
    BY <1>3 DEF Submitting, DriverInv, ScriptInv, RetrySteps, RetryScripts
  <2>2. /\ built = Append(base, ExpectedTxs) /\ base \in known[First] /\ base \in Block
        /\ key = Len(base) /\ key \in DOMAIN batches
    BY <2>1 DEF DriverInv, BuiltInv, BaseInv, KeyInv, EndpointSteps, TypeOK
  <2>3. ExpectedTxs = Txs[Current] /\ Current \in 1..N /\ ExpectedTxs \in SUBSET Tx
    BY <2>1, CurrentBatch
  <2>4. Current = key + 1
    BY <2>2 DEF OrderInv, ChainInv, IsPrefix, Current
  <2>5. InOrderBlock(base)
    BY <2>2, Clients DEF ChainInv
  <2>6. /\ Len(built) = Len(base) + 1 /\ Len(base) \in Nat
        /\ built[Len(base) + 1] = Txs[Len(base) + 1]
        /\ \A i \in 1..Len(base) : built[i] = Txs[i]
    BY <2>2, <2>3, <2>4, <2>5, AppendBlock DEF InOrderBlock
  <2>7. Len(base) + 1 \in 1..N
    BY <2>2, <2>3, <2>4
  <2>8. Len(built) \in 0..N
    BY <2>6, <2>7, BatchesAssumption
  <2>9. ASSUME NEW i \in 1..Len(built) PROVE built[i] = Txs[i]
    <3>1. i \in 1..Len(base) \/ i = Len(base) + 1
      BY <2>6
    <3> QED BY <2>6, <3>1
  <2> QED BY <1>3, <2>8, <2>9 DEF InOrderBlock
<1> QED BY <1>1, <1>2, <1>3

\* The chain of the abstract specification.
LEMMA FirstBlocksOf ==
  ASSUME NEW b \in Block, InOrderBlock(b)
  PROVE  b = InOrder!FirstBlocks(Len(b))
<1>1. Len(b) \in Nat /\ DOMAIN b = 1..Len(b) /\ b = [i \in 1..Len(b) |-> b[i]]
  BY DEF Block
<1> QED BY <1>1 DEF InOrderBlock, InOrder!FirstBlocks

\* Of two such blocks, one that does not belong to the chain of the other is
\* higher.
LEMMA HigherBlock ==
  ASSUME NEW a \in Block, NEW b \in Block, InOrderBlock(a), InOrderBlock(b), ~Ancestor(b, a)
  PROVE  Len(a) < Len(b)
<1> SUFFICES ASSUME ~(Len(a) < Len(b)) PROVE FALSE
  OBVIOUS
<1>1. Len(b) <= Len(a) /\ Len(a) \in Nat /\ Len(b) \in Nat
  BY BatchesAssumption DEF InOrderBlock
<1>2. \A i \in 1..Len(b) : i \in 1..Len(a)
  BY <1>1
<1> QED BY <1>1, <1>2 DEF InOrderBlock, Ancestor

RightOrder == RightInv /\ OrderInv /\ ChainInv

LEMMA InRightOrder == Spec => []RightOrder
<1>1. Init => RightOrder
  BY TypeInit, DriverStart, RecordStart, OrderInit, ChainStart DEF RightOrder, RightInv
<1>2. RightOrder /\ [Next]_vars => RightOrder'
  BY TypeStep, DriverStep, KeyStep, RecordStep, OrderStep, ChainStep DEF RightOrder, RightInv
<1> QED BY <1>1, <1>2, PTL DEF Spec

\* state_transition_new.py, over the file that the extractor writes, records for
\* a batch only the block that executes all batches up to this one, in their
\* order, although the file, the clients and its own copy may each be ahead of
\* the others.
THEOREM RecordedBlocksExecute == Spec => []RecordedExecutes
<1>1. ASSUME RightOrder, script = "new", NEW k \in DOMAIN file, file[k].block # NoBlock
      PROVE  file[k].block = [i \in 1..(k + 1) |-> Txs[i]]
  <2> DEFINE b == file[k].block
  <2>1. b \in Block
    BY <1>1 DEF RightOrder, RightInv, TypeOK, IsFile, Record
  <2>2. Known(b, file[k].batch) /\ Fits(b, k)
    BY <1>1 DEF RightOrder, RightInv, RecordInv, RecordsRight
  <2>3. InOrderBlock(b)
    BY <1>1, <2>2 DEF RightOrder, ChainInv, Known
  <2>4. Len(b) = k + 1
    BY <1>1, <2>2 DEF Fits
  <2> HIDE DEF b
  <2>5. b = [i \in 1..Len(b) |-> Txs[i]]
    BY <2>1, <2>3, FirstBlocksOf DEF InOrder!FirstBlocks
  <2>6. b = [i \in 1..(k + 1) |-> Txs[i]]
    BY <2>4, <2>5
  <2> QED BY <2>6 DEF b
<1>2. RightOrder => RecordedExecutes
  BY <1>1 DEF RecordedExecutes
<1> QED BY <1>2, InRightOrder, PTL

LEMMA InOrderInit == Init => InOrder!Init
<1> SUFFICES ASSUME Init PROVE Executed = [c \in Endpoint |-> InOrder!FirstBlocks(0)]
  BY DEF InOrder!Init
<1>1. [i \in 1..0 |-> Txs[i]] = << >>
  OBVIOUS
<1>2. head = [e \in Endpoint |-> << >>]
  BY DEF Init, NodeInit
<1> QED BY <1>1, <1>2 DEF Executed, InOrder!FirstBlocks

LEMMA InOrderStep ==
  ASSUME TypeOK, DriverInv, ChainInv, [Next]_vars
  PROVE  [InOrder!Next]_Executed
<1>1. HeadMoves /\ script' = script
  BY Effects, SameDeployment
<1>2. CASE script # "new" \/ head' = head
  BY <1>1, <1>2 DEF Executed
<1>3. CASE script = "new" /\ head' # head
  <2>a. PICK e \in Endpoint :
          \E b \in known[e] : ~Ancestor(b, head[e]) /\ head' = [head EXCEPT ![e] = b]
    BY <1>1, <1>3 DEF HeadMoves
  <2>1. PICK b \in known[e] : ~Ancestor(b, head[e]) /\ head' = [head EXCEPT ![e] = b]
    BY <2>a
  <2>2. /\ b \in Block /\ head[e] \in Block
        /\ InOrderBlock(b) /\ InOrderBlock(head[e])
    BY <1>3 DEF ChainInv, DriverInv, KnownInv, TypeOK
  <2>3. /\ Len(head[e]) \in 0..N /\ Len(b) \in 0..N /\ Len(head[e]) < Len(b)
        /\ head[e] = InOrder!FirstBlocks(Len(head[e]))
        /\ b = InOrder!FirstBlocks(Len(b))
    BY <2>1, <2>2, FirstBlocksOf, HigherBlock DEF InOrderBlock
  <2>4. Executed = head /\ Executed' = head'
    BY <1>1, <1>3 DEF Executed
  <2>5. InOrder!Execute(e)
    <3> DEFINE n == Len(head[e])
               m == Len(b)
    <3>1. head' = [head EXCEPT ![e] = InOrder!FirstBlocks(m)]
      BY <2>1, <2>3
    <3>2. n \in 0..N /\ m \in 0..N /\ n < m /\ head[e] = InOrder!FirstBlocks(n)
      BY <2>3
    <3> HIDE DEF n, m
    <3> QED BY <2>4, <3>1, <3>2 DEF InOrder!Execute
  <2> QED BY <2>5 DEF InOrder!Next
<1> QED BY <1>2, <1>3

\* state_transition_new.py, over the file that the extractor writes, executes
\* the batches in the order of consensus on every client, without a gap.
THEOREM Refinement == Spec => ExecutesInOrder
<1>1. Init => InOrder!Init
  BY InOrderInit
<1>2. RightOrder /\ [Next]_vars => [InOrder!Next]_Executed
  BY InOrderStep DEF RightOrder, RightInv
<1> QED BY <1>1, <1>2, InRightOrder, PTL DEF Spec, ExecutesInOrder, InOrder!Spec
=============================================================================
