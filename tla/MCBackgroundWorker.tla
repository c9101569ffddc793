------------------------- MODULE MCBackgroundWorker -------------------------
(***************************************************************************)
(* A run of one document (with its dependent OCR item) and two files to    *)
(* summarize, small enough to explore completely.                          *)
(***************************************************************************)
EXTENDS BackgroundWorker

CONSTANTS doc, ocr, sum1, sum2

MCItems == {doc, ocr, sum1, sum2}
MCKindOf == [i \in MCItems |->
               IF i = doc THEN "document-extraction"
               ELSE IF i = ocr THEN "ocr" ELSE "summarize-local"]
MCOcrOf == [d \in {doc} |-> ocr]
MCRank == [i \in MCItems |-> IF i = sum1 THEN 1 ELSE IF i = doc THEN 2
                             ELSE IF i = ocr THEN 3 ELSE 4]
MCQueued == MCItems \ {ocr}
Pending0 == {i \in Items : disk[i] = "pending"}
\* A configured concurrency of zero is possible and means one.
MCConcurrency == [k \in Kinds |-> IF k = "document-extraction" THEN 2
                                  ELSE IF k = "ocr" THEN 0 ELSE 1]

\* Bounds: the run holds two of the queued items, at most one durable cancel is on
\* file, and at most one of an exit of the process and a failed write happens.
MCInit == /\ Init
          /\ Pending0 \in {{doc, sum1}, {sum1, sum2}}
          /\ ~cancelFile.run
          /\ cancelFile.items \in {{}, {sum1}}
          /\ exits + faults >= 1
MCSpec == MCInit /\ [][WorkerNext]_workerVars
MCFairSpec == MCSpec /\ WorkerFairness
=============================================================================
