----------------------------- MODULE Extraction -----------------------------
(***************************************************************************)
(* extract_batches_from_ordered_certs.py: from the certificates that the   *)
(* node appends to its output, in consensus order, to the batch file.      *)
(***************************************************************************)
EXTENDS Batches, Integers

CONSTANTS
    Ends,         \* the batches that are the last ones of a certificate
    Inline,       \* the batches whose transactions are in the certificate
    max_retries,  \* calls of the CLI for a batch, or -1 for no limit
    MaxExtractors \* bound: how often the extractor is started

ASSUME ExtractionAssumption ==
    /\ Ends \subseteq 1..N
    /\ Inline \subseteq 1..N
    /\ MaxExtractors \in Nat

VARIABLES
    ordered,     \* the batches of the certificates that can be read
    tail,        \* what follows them: "none", an object still "open", or "torn"
    stage,       \* the extractor: "off" or "scan"
    out_records, \* its copy of the batch file
    cursor,      \* the batches it has passed
    tries,       \* the calls of the CLI that failed for the next batch
    extractors   \* how often it was started

certificates == <<ordered, tail>>
extractor    == <<stage, out_records, cursor, tries, extractors>>

ExtractionInit ==
    /\ ordered = 0
    /\ tail = "none"
    /\ stage = "off"
    /\ out_records = Empty
    /\ cursor = 0
    /\ tries = 0
    /\ extractors = 0

-----------------------------------------------------------------------------
\* The node's output.  Certificates without a payload hold no batch.

BeginCertificate ==
    /\ tail = "none" /\ ordered < N
    /\ tail' = "open"
    /\ UNCHANGED <<ordered, disk, extractor>>

EndCertificate ==
    /\ tail = "open"
    /\ \E n \in Ends : /\ n > ordered
                       /\ \A m \in Ends : m > ordered => n <= m
                       /\ ordered' = n
    /\ tail' = "none"
    /\ UNCHANGED <<disk, extractor>>

\* The node dies while it writes.  What it appends after its restart follows
\* the incomplete object, and nothing of it can be parsed.
TearCertificate ==
    /\ tail = "open"
    /\ tail' = "torn"
    /\ UNCHANGED <<ordered, disk, extractor>>

-----------------------------------------------------------------------------
\* The extractor.

StartExtractor ==
    /\ stage = "off" /\ extractors < MaxExtractors
    /\ stage' = "scan"
    /\ out_records' = file
    /\ cursor' = 0 /\ tries' = 0
    /\ extractors' = extractors + 1
    /\ UNCHANGED <<disk, certificates>>

\* Mutant: the certificate that is being written is read as well.
Reading_partial ==
    stage = "scan" /\ cursor < (IF tail = "open" THEN N ELSE ordered)

\* The next batch is in a complete certificate.
Reading == stage = "scan" /\ cursor < ordered

\* Mutant: nothing counts as processed.
Processed_never(b) == FALSE

Processed(b) == \E k \in DOMAIN out_records : out_records[k].batch = b

Skip ==
    /\ Reading /\ Processed(cursor + 1)
    /\ cursor' = cursor + 1
    /\ UNCHANGED <<disk, certificates, stage, out_records, tries, extractors>>

\* A list of the certificate is used as it is; one from the CLI if not empty.
Available(b) == b \in Inline \/ Txs[b] # {}

Extract ==
    /\ Reading /\ ~Processed(cursor + 1) /\ Available(cursor + 1)
    /\ out_records' = Put(out_records, next_index(out_records, 0), NewRecord(cursor + 1))
    /\ Replace(out_records')
    /\ cursor' = cursor + 1
    /\ tries' = 0
    /\ UNCHANGED <<certificates, stage, extractors>>

\* The process ends, and its memory with it.
Exit ==
    /\ stage' = "off" /\ out_records' = Empty
    /\ cursor' = 0 /\ tries' = 0
    /\ UNCHANGED <<certificates, extractors>>

\* The CLI fails, times out, or does not find the batch in the workers' stores.
Missing ==
    /\ Reading /\ ~Processed(cursor + 1) /\ cursor + 1 \notin Inline
    /\ max_retries # -1 => tries + 1 < max_retries
    /\ tries' = IF max_retries = -1 THEN 0 ELSE tries + 1
    /\ UNCHANGED <<disk, certificates, stage, out_records, cursor, extractors>>

\* The last call of the CLI for a batch failed.
GiveUp ==
    /\ Reading /\ ~Processed(cursor + 1) /\ cursor + 1 \notin Inline
    /\ max_retries # -1 /\ tries + 1 >= max_retries
    /\ Replace(out_records)
    /\ Exit

\* At the end of the certificates, or on a signal: the last snapshot.
Finish == stage = "scan" /\ Replace(out_records) /\ Exit

\* An incomplete object at the end of the input, or the process is killed.
Abort == stage = "scan" /\ UNCHANGED disk /\ Exit

Extractor ==
    \/ StartExtractor \/ Skip \/ Extract \/ Missing \/ GiveUp \/ Finish \/ Abort

Output == BeginCertificate \/ EndCertificate \/ TearCertificate
=============================================================================
