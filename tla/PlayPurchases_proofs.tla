------------------------ MODULE PlayPurchases_proofs ------------------------
(***************************************************************************)
(* Proofs about PlayPurchases, for every set of purchases and of requests     *)
(* and every value of the bounds.  The argument: what the loop works on is      *)
(* claimed for it (OwnRows), so an operation that is being sent without being    *)
(* the loop's was left by a restart, and costs one attempt more than the limit  *)
(* at most for each of them (AttemptsCounted); and a sweep is claimed before      *)
(* the call, for longer than the next pass is away, so that two passes that      *)
(* follow each other do not both fail in a sweep unless the process restarted    *)
(* between them (SweepsApart).                                              *)
(***************************************************************************)
EXTENDS PlayPurchases, TLAPS

USE PlayAssumption
-----------------------------------------------------------------------------
(* The inductive invariant.                                                 *)

\* Where the loop is tells what it holds.
LoopInPlace ==
    /\ loop.at = "sleep" => loop = Asleep
    /\ ran => loop.at = "sleep"
    /\ loop.at \in {"apply", "queue", "finish", "fail"} => loop.row \in loop.todo
    /\ loop.at \in {"entry", "void", "settle"} => loop.todo = {}
    /\ loop.at \in {"void", "settle"} => loop.token \in Token
    /\ loop.at = "apply" => loop.answer \in Answer /\ play[loop.row[1]] # "unbought"

\* So does a request.
RequestsInPlace ==
    \A q \in Request :
      /\ req[q].at \in {"apply", "queue"} => req[q].token \in Token
      /\ req[q].at = "apply" => req[q].answer \in Answer /\ play[req[q].token] # "unbought"

\* What is recorded or reconciled was bought.
Bought ==
    \A t \in Token :
      purchase[t] # None \/ row[<<t, "reconcile">>].status # None => play[t] # "unbought"

\* A restart can cost an operation one attempt more than the limit.
AttemptsCounted ==
    \A r \in Row :
      /\ row[r].attempts <= MaxAttempts + crashes
      /\ row[r].status = "lost" \/ (row[r].status = "sending" /\ r \notin loop.todo)
         => row[r].attempts < MaxAttempts + crashes
      /\ row[r].status \in {None, "pending"} => row[r].attempts = 0
      /\ row[r].status \in {"failed", "due"} => row[r].attempts < MaxAttempts

\* A sweep that failed is not due before the next pass is over.
SweepsApart ==
    /\ missed <= 1 + crashes
    /\ sweepIn = 0 \/ (ran /\ sweepIn = 1) \/ loop.at \in {"entry", "void", "settle"}
       => missed <= crashes
    /\ loop.at \in {"entry", "void", "settle"} => sweepIn = Retry

\* The invariants of the purchases together.
PlayIInv ==
    /\ TypeOK
    /\ LoopInPlace
    /\ RequestsInPlace
    /\ Bought
    /\ AttemptsCounted
    /\ SweepsApart
    /\ AcknowledgedByRow
    /\ OwnRows
-----------------------------------------------------------------------------
(* What the operators return.                                               *)

\* A verification of what was bought has an answer.
LEMMA VerifiedAnswer ==
    ASSUME TypeOK, NEW t \in Token, play[t] # "unbought"
    PROVE  Verified(t) \in Answer
BY DEF TypeOK, Verified, Answer

\* A row is an operation of a purchase.
LEMMA RowOf ==
    /\ \A r \in Row : r[1] \in Token /\ r[2] \in Kind /\ r = <<r[1], r[2]>>
    /\ \A t \in Token : <<t, "acknowledge">> \in Row /\ <<t, "reconcile">> \in Row
BY DEF Row, Kind

\* Queueing adds a row, and changes none.
LEMMA QueuedRows ==
    ASSUME TypeOK, NEW r \in Row, row' = Queued(r)
    PROVE  /\ row' \in [Row -> Operation]
           /\ row'[r].status # None
           /\ \A o \in Row : o # r \/ row[o].status # None => row'[o] = row[o]
           /\ row[r].status = None =>
                row'[r].status = "pending" /\ row'[r].attempts = 0
<1>1. row \in [Row -> Operation]
  BY DEF TypeOK
<1>2. [status |-> "pending", attempts |-> 0] \in Operation
  BY DEF Operation
<1>. QED  BY <1>1, <1>2 DEF Queued, None

\* What the end of an operation leaves.
LEMMA OperationOverEffect ==
    ASSUME TypeOK, LoopInPlace, loop.at \in {"finish", "fail"},
           NEW status \in {"sent", "dead", "failed"}, NEW wait \in 0..Day,
           OperationOver(status, wait)
    PROVE  /\ loop.row \in loop.todo /\ loop.row \in Row
           /\ row' \in [Row -> Operation]
           /\ row'[loop.row].status = status
           /\ row'[loop.row].attempts = row[loop.row].attempts
           /\ \A r \in Row : r # loop.row => row'[r] = row[r]
           /\ nextRec' \in [Token -> 0..Day]
           /\ loop' \in Pass /\ loop'.at = "call" /\ loop'.todo = loop.todo \ {loop.row}
           /\ UNCHANGED <<play, acked, voided, listed, purchase, event, sweepIn, dayLeft,
                          ran, missed, req, faults, crashes>>
<1>1. loop.row \in loop.todo /\ loop.todo \subseteq Row /\ loop \in Pass
  BY DEF TypeOK, Pass, LoopInPlace
<1>2. loop.row \in Row /\ loop.row[1] \in Token
  BY <1>1, RowOf
<1>3. row \in [Row -> Operation] /\ nextRec \in [Token -> 0..Day]
  BY DEF TypeOK
<1>4. row[loop.row] \in Operation
  BY <1>2, <1>3
<1>5. row' = [row EXCEPT ![loop.row].status = status]
  BY DEF OperationOver
<1>6. [row[loop.row] EXCEPT !.status = status] \in Operation
  BY <1>4 DEF Operation
<1>7. /\ row' \in [Row -> Operation]
      /\ row'[loop.row] = [row[loop.row] EXCEPT !.status = status]
      /\ \A r \in Row : r # loop.row => row'[r] = row[r]
  BY <1>2, <1>3, <1>5, <1>6
<1>8. row'[loop.row].status = status /\ row'[loop.row].attempts = row[loop.row].attempts
  BY <1>4, <1>7 DEF Operation
<1>9. nextRec' \in [Token -> 0..Day]
  BY <1>3 DEF OperationOver
<1>10. /\ loop' \in Pass /\ loop'.at = "call"
       /\ loop'.todo = loop.todo \ {loop.row}
  BY <1>1 DEF OperationOver, Pass
<1>. QED
  BY <1>1, <1>2, <1>7, <1>8, <1>9, <1>10
  DEF OperationOver, googleVars, clockVars, boundVars
-----------------------------------------------------------------------------
(* Every step keeps the invariant.                                          *)

\* Somebody orders at Google.
LEMMA OrderKeeps ==
  ASSUME PlayIInv, NEW t \in Token, Order(t)
  PROVE  PlayIInv'
<1>1. TypeOK'
  BY DEF Order, PlayIInv, TypeOK, googleVars, bookVars, clockVars, boundVars
<1>2. LoopInPlace'
  BY DEF Order, PlayIInv, LoopInPlace, googleVars, bookVars, clockVars
<1>3. RequestsInPlace'
  BY DEF Order, PlayIInv, RequestsInPlace, googleVars
<1>4. Bought'
  BY DEF Order, PlayIInv, Bought, googleVars, bookVars
<1>5. AttemptsCounted'
  BY DEF Order, PlayIInv, AttemptsCounted, bookVars, boundVars
<1>6. SweepsApart'
  BY DEF Order, PlayIInv, SweepsApart, clockVars, boundVars
<1>7. AcknowledgedByRow'
  BY DEF Order, PlayIInv, AcknowledgedByRow, googleVars, bookVars
<1>8. OwnRows'
  BY DEF Order, PlayIInv, OwnRows, bookVars
<1>. QED  BY <1>1, <1>2, <1>3, <1>4, <1>5, <1>6, <1>7, <1>8 DEF PlayIInv

\* A pending order is paid.
LEMMA PayKeeps ==
  ASSUME PlayIInv, NEW t \in Token, Pay(t)
  PROVE  PlayIInv'
<1>1. TypeOK'
  BY DEF Pay, PlayIInv, TypeOK, googleVars, bookVars, clockVars, boundVars
<1>2. LoopInPlace'
  BY DEF Pay, PlayIInv, LoopInPlace, googleVars, bookVars, clockVars
<1>3. RequestsInPlace'
  BY DEF Pay, PlayIInv, RequestsInPlace, googleVars
<1>4. Bought'
  BY DEF Pay, PlayIInv, Bought, googleVars, bookVars
<1>5. AttemptsCounted'
  BY DEF Pay, PlayIInv, AttemptsCounted, bookVars, boundVars
<1>6. SweepsApart'
  BY DEF Pay, PlayIInv, SweepsApart, clockVars, boundVars
<1>7. AcknowledgedByRow'
  BY DEF Pay, PlayIInv, AcknowledgedByRow, googleVars, bookVars
<1>8. OwnRows'
  BY DEF Pay, PlayIInv, OwnRows, bookVars
<1>. QED  BY <1>1, <1>2, <1>3, <1>4, <1>5, <1>6, <1>7, <1>8 DEF PlayIInv

\* A pending order is cancelled before it is paid.
LEMMA DropKeeps ==
  ASSUME PlayIInv, NEW t \in Token, Drop(t)
  PROVE  PlayIInv'
<1>1. TypeOK'
  BY DEF Drop, PlayIInv, TypeOK, googleVars, bookVars, clockVars, boundVars
<1>2. LoopInPlace'
  BY DEF Drop, PlayIInv, LoopInPlace, googleVars, bookVars, clockVars
<1>3. RequestsInPlace'
  BY DEF Drop, PlayIInv, RequestsInPlace, googleVars
<1>4. Bought'
  BY DEF Drop, PlayIInv, Bought, googleVars, bookVars
<1>5. AttemptsCounted'
  BY DEF Drop, PlayIInv, AttemptsCounted, bookVars, boundVars
<1>6. SweepsApart'
  BY DEF Drop, PlayIInv, SweepsApart, clockVars, boundVars
<1>7. AcknowledgedByRow'
  BY DEF Drop, PlayIInv, AcknowledgedByRow, googleVars, bookVars
<1>8. OwnRows'
  BY DEF Drop, PlayIInv, OwnRows, bookVars
<1>. QED  BY <1>1, <1>2, <1>3, <1>4, <1>5, <1>6, <1>7, <1>8 DEF PlayIInv

\* Google refunds a purchase, and lists it as voided.
LEMMA VoidKeeps ==
  ASSUME PlayIInv, NEW t \in Token, Void(t)
  PROVE  PlayIInv'
<1>1. TypeOK'
  BY DEF Void, PlayIInv, TypeOK, googleVars, bookVars, clockVars, boundVars
<1>2. LoopInPlace'
  BY DEF Void, PlayIInv, LoopInPlace, googleVars, bookVars, clockVars
<1>3. RequestsInPlace'
  BY DEF Void, PlayIInv, RequestsInPlace, googleVars
<1>4. Bought'
  BY DEF Void, PlayIInv, Bought, googleVars, bookVars
<1>5. AttemptsCounted'
  BY DEF Void, PlayIInv, AttemptsCounted, bookVars, boundVars
<1>6. SweepsApart'
  BY DEF Void, PlayIInv, SweepsApart, clockVars, boundVars
<1>7. AcknowledgedByRow'
  BY DEF Void, PlayIInv, AcknowledgedByRow, googleVars, bookVars
<1>8. OwnRows'
  BY DEF Void, PlayIInv, OwnRows, bookVars
<1>. QED  BY <1>1, <1>2, <1>3, <1>4, <1>5, <1>6, <1>7, <1>8 DEF PlayIInv

\* A report of a purchase comes in and Google is asked: the answer is kept for the
\* later write.
LEMMA ArriveKeeps ==
  ASSUME PlayIInv, NEW q \in Request, NEW t \in Token, Arrive(q, t)
  PROVE  PlayIInv'
<1>1. TypeOK'
  BY VerifiedAnswer
  DEF Arrive, Message, PlayIInv, TypeOK, googleVars, bookVars, clockVars, boundVars
<1>2. LoopInPlace'
  BY VerifiedAnswer DEF Arrive, PlayIInv, LoopInPlace, googleVars, bookVars, clockVars
<1>3. RequestsInPlace'
  BY VerifiedAnswer DEF Arrive, PlayIInv, RequestsInPlace, googleVars
<1>4. Bought'
  BY VerifiedAnswer DEF Arrive, PlayIInv, Bought, googleVars, bookVars
<1>5. AttemptsCounted'
  BY VerifiedAnswer DEF Arrive, PlayIInv, AttemptsCounted, bookVars, boundVars
<1>6. SweepsApart'
  BY VerifiedAnswer DEF Arrive, PlayIInv, SweepsApart, clockVars, boundVars
<1>7. AcknowledgedByRow'
  BY VerifiedAnswer DEF Arrive, PlayIInv, AcknowledgedByRow, googleVars, bookVars
<1>8. OwnRows'
  BY VerifiedAnswer DEF Arrive, PlayIInv, OwnRows, bookVars
<1>. QED  BY <1>1, <1>2, <1>3, <1>4, <1>5, <1>6, <1>7, <1>8 DEF PlayIInv

\* The answer is written, however old it is by now.
LEMMA ReportKeeps ==
  ASSUME PlayIInv, NEW q \in Request, Report(q)
  PROVE  PlayIInv'
<1>1. TypeOK'
  BY DEF Report, Write, Over, Unsent, Message, Answer, Ended, PlayIInv, TypeOK,
      googleVars, clockVars, boundVars
<1>2. LoopInPlace'
  BY DEF Report, Answer, PlayIInv, LoopInPlace, googleVars, bookVars, clockVars
<1>3. RequestsInPlace'
  BY DEF Report, Over, Unsent, Message, Answer, Ended, PlayIInv, TypeOK,
      RequestsInPlace, googleVars
<1>4. Bought'
  BY DEF Report, Write, Ended, PlayIInv, TypeOK, LoopInPlace, RequestsInPlace, Bought,
      AttemptsCounted, SweepsApart, AcknowledgedByRow, OwnRows, googleVars
<1>5. AttemptsCounted'
  BY DEF Report, PlayIInv, AttemptsCounted, bookVars, boundVars
<1>6. SweepsApart'
  BY DEF Report, PlayIInv, SweepsApart, clockVars, boundVars
<1>7. AcknowledgedByRow'
  BY DEF Report, PlayIInv, AcknowledgedByRow, googleVars, bookVars
<1>8. OwnRows'
  BY DEF Report, PlayIInv, OwnRows, bookVars
<1>. QED  BY <1>1, <1>2, <1>3, <1>4, <1>5, <1>6, <1>7, <1>8 DEF PlayIInv

\* The acknowledgement of a reported purchase is queued.
LEMMA ReportQueuesKeeps ==
  ASSUME PlayIInv, NEW q \in Request, ReportQueues(q)
  PROVE  PlayIInv'
<1>1. TypeOK'
  BY DEF ReportQueues, Queued, Over, Unsent, Message, Operation, Row, Kind, PlayIInv,
      TypeOK, LoopInPlace, RequestsInPlace, AcknowledgedByRow, OwnRows, googleVars,
      clockVars, boundVars
<1>2. LoopInPlace'
  BY DEF ReportQueues, PlayIInv, LoopInPlace, googleVars, bookVars, clockVars
<1>3. RequestsInPlace'
  BY DEF ReportQueues, Queued, Over, Unsent, PlayIInv, RequestsInPlace, googleVars
<1>4. Bought'
  BY DEF ReportQueues, Queued, Over, Unsent, PlayIInv, Bought, googleVars
<1>5. AttemptsCounted'
  BY DEF ReportQueues, Queued, PlayIInv, AttemptsCounted, boundVars
<1>6. SweepsApart'
  BY DEF ReportQueues, PlayIInv, SweepsApart, clockVars, boundVars
<1>7. AcknowledgedByRow'
  BY DEF ReportQueues, Queued, Row, Kind, PlayIInv, TypeOK, AcknowledgedByRow,
      googleVars
<1>8. OwnRows'
  <2>1. req[q].token \in Token /\ row' = Queued(<<req[q].token, "acknowledge">>)
    BY DEF ReportQueues, PlayIInv, RequestsInPlace
  <2>2. \A r \in loop.todo : r \in Row /\ row[r].status # None
    BY DEF PlayIInv, OwnRows, TypeOK, Pass, None
  <2>3. TypeOK /\ <<req[q].token, "acknowledge">> \in Row
    BY <2>1, RowOf DEF PlayIInv
  <2>4. \A r \in loop.todo : row'[r] = row[r]
    BY <2>1, <2>2, <2>3, QueuedRows
  <2>. QED  BY <2>4 DEF ReportQueues, PlayIInv, OwnRows
<1>. QED  BY <1>1, <1>2, <1>3, <1>4, <1>5, <1>6, <1>7, <1>8 DEF PlayIInv

\* The loop claims what is due, which is where an attempt is counted.
LEMMA ClaimKeeps ==
  ASSUME PlayIInv, Claim
  PROVE  PlayIInv'
<1>a. /\ loop' \in Pass /\ loop'.at = "call" /\ loop'.todo = Claimable
      /\ loop.todo = {} /\ ~ran /\ loop.at = "sleep"
  <2>1. loop \in Pass /\ Claimable \subseteq Row
    BY DEF PlayIInv, TypeOK, Claimable
  <2>2. loop.todo = {}
    BY DEF Claim, PlayIInv, LoopInPlace, Asleep
  <2>. QED  BY <2>1, <2>2 DEF Claim, Pass
<1>b. \A r \in Claimable :
        /\ r \in Row /\ row[r].attempts < MaxAttempts + crashes
        /\ row[r].status \in {None, "pending", "due", "lost"}
        /\ r[2] = "reconcile" \/ row[r].status # None
        /\ row[r].status = None => play[r[1]] # "unbought"
  <2>. SUFFICES ASSUME NEW r \in Claimable
                PROVE  /\ r \in Row /\ row[r].attempts < MaxAttempts + crashes
                       /\ row[r].status \in {None, "pending", "due", "lost"}
                       /\ r[2] = "reconcile" \/ row[r].status # None
                       /\ row[r].status = None => play[r[1]] # "unbought"
    OBVIOUS
  <2>1. /\ r \in Row /\ row[r].status \in {None, "pending", "due", "lost"}
        /\ r[2] = "reconcile" \/ row[r].status # None
        /\ row[r].status = None => purchase[r[1]] # None
    BY DEF Claimable, Due, None
  <2>2. row[r].attempts < MaxAttempts + crashes
    <3>1. crashes \in Nat
      BY DEF PlayIInv, TypeOK
    <3>2. row[r].attempts \in Nat
      BY <2>1 DEF PlayIInv, TypeOK, Operation
    <3>3. \/ row[r].attempts = 0 \/ row[r].attempts < MaxAttempts
          \/ row[r].attempts < MaxAttempts + crashes
      BY <2>1 DEF PlayIInv, AttemptsCounted
    <3>. QED  BY <3>1, <3>2, <3>3
  <2>. QED  BY <2>1, <2>2, RowOf DEF PlayIInv, Bought
<1>c. \A r \in Row :
        /\ row'[r] \in Operation
        /\ r \in Claimable => row'[r].status = "sending" /\ row'[r].attempts = row[r].attempts + 1
        /\ r \notin Claimable => row'[r] = row[r]
  <2>. SUFFICES ASSUME NEW r \in Row
                PROVE  /\ row'[r] \in Operation
                       /\ r \in Claimable => row'[r].status = "sending" /\ row'[r].attempts = row[r].attempts + 1
                       /\ r \notin Claimable => row'[r] = row[r]
    OBVIOUS
  <2>1. row[r] \in Operation /\ MaxAttempts + crashes <= MaxAttempts + MaxCrashes
    BY DEF PlayIInv, TypeOK
  <2>2. CASE r \notin Claimable
    BY <2>1, <2>2 DEF Claim
  <2>3. CASE r \in Claimable
    <3>1. row'[r] = [status |-> "sending", attempts |-> row[r].attempts + 1]
      BY <2>3 DEF Claim
    <3>2. row[r].attempts + 1 \in 0..MaxAttempts + MaxCrashes
      BY <1>b, <2>1, <2>3 DEF Operation, PlayIInv, TypeOK
    <3>. QED  BY <2>3, <3>1, <3>2 DEF Operation
  <2>. QED  BY <2>2, <2>3
<1>1. TypeOK'
  BY <1>a, <1>c DEF Claim, PlayIInv, TypeOK, googleVars, bookVars, clockVars, boundVars
<1>2. LoopInPlace'
  BY DEF Claim, PlayIInv, LoopInPlace, googleVars, bookVars, clockVars
<1>3. RequestsInPlace'
  BY DEF Claim, PlayIInv, RequestsInPlace, googleVars
<1>4. Bought'
  BY <1>b, <1>c, RowOf DEF Claim, PlayIInv, Bought, googleVars, bookVars
<1>5. AttemptsCounted'
  <2>1. \A r \in Row : row[r].attempts \in Nat
    BY DEF PlayIInv, TypeOK, Operation
  <2>2. \A r \in Row : row[r].status = "lost" => r \in Claimable
    BY DEF Claimable
  <2>3. crashes' = crashes /\ crashes \in Nat
    BY DEF Claim, boundVars, PlayIInv, TypeOK
  <2>4. \A r \in Claimable : row'[r].status = "sending" /\ row'[r].attempts <= MaxAttempts + crashes
    BY <1>b, <1>c, <2>1, <2>3
  <2>5. \A r \in Row \ Claimable : row'[r] = row[r] /\ row[r].status # "lost"
    BY <1>c, <2>2
  <2>. QED  BY <1>a, <2>3, <2>4, <2>5 DEF PlayIInv, AttemptsCounted, None
<1>6. SweepsApart'
  BY DEF Claim, PlayIInv, SweepsApart, clockVars, boundVars
<1>7. AcknowledgedByRow'
  BY <1>c, RowOf DEF Claim, PlayIInv, TypeOK, AcknowledgedByRow, googleVars, None
<1>8. OwnRows'
  BY DEF Claim, Claimable, Due, Row, Kind, PlayIInv, OwnRows
<1>. QED  BY <1>1, <1>2, <1>3, <1>4, <1>5, <1>6, <1>7, <1>8 DEF PlayIInv

\* The loop acknowledges a purchase at Google.
LEMMA CallAcknowledgeKeeps ==
  ASSUME PlayIInv, NEW r \in Row, CallAcknowledge(r)
  PROVE  PlayIInv'
<1>1. TypeOK'
  BY DEF CallAcknowledge, Pass, Row, PlayIInv, TypeOK, bookVars, clockVars, boundVars
<1>2. LoopInPlace'
  BY DEF CallAcknowledge, PlayIInv, LoopInPlace, googleVars, bookVars, clockVars
<1>3. RequestsInPlace'
  BY DEF CallAcknowledge, PlayIInv, RequestsInPlace, googleVars
<1>4. Bought'
  BY DEF CallAcknowledge, PlayIInv, Bought, googleVars, bookVars
<1>5. AttemptsCounted'
  BY DEF CallAcknowledge, Row, PlayIInv, AttemptsCounted, bookVars, boundVars
<1>6. SweepsApart'
  BY DEF CallAcknowledge, PlayIInv, SweepsApart, clockVars, boundVars
<1>7. AcknowledgedByRow'
  <2>1. row[r].status = "sending" /\ r \in Row /\ r[2] = "acknowledge"
    BY DEF CallAcknowledge, PlayIInv, OwnRows
  <2>2. row[<<r[1], "acknowledge">>].status # None
    BY <2>1, RowOf DEF None
  <2>. QED  BY <2>2 DEF CallAcknowledge, PlayIInv, AcknowledgedByRow, bookVars
<1>8. OwnRows'
  BY DEF CallAcknowledge, PlayIInv, OwnRows, bookVars
<1>. QED  BY <1>1, <1>2, <1>3, <1>4, <1>5, <1>6, <1>7, <1>8 DEF PlayIInv

\* The loop asks Google about a purchase.
LEMMA CallVerifyKeeps ==
  ASSUME PlayIInv, NEW r \in Row, CallVerify(r)
  PROVE  PlayIInv'
<1>a. row[r].status = "sending" /\ r \in Row /\ r[1] \in Token /\ <<r[1], "reconcile">> = r
  BY RowOf DEF CallVerify, PlayIInv, OwnRows
<1>b. play[r[1]] # "unbought" /\ Verified(r[1]) \in Answer
  <2>1. play[r[1]] # "unbought"
    BY <1>a DEF PlayIInv, Bought, None
  <2>. QED  BY <1>a, <2>1, VerifiedAnswer DEF PlayIInv
<1>c. /\ loop' \in Pass /\ loop'.at = "apply" /\ loop'.row = r /\ loop'.todo = loop.todo
      /\ loop'.answer = Verified(r[1]) /\ r \in loop.todo
  <2>1. loop \in Pass
    BY DEF PlayIInv, TypeOK
  <2>. QED  BY <1>a, <1>b, <2>1 DEF CallVerify, Pass
<1>1. TypeOK'
  BY <1>c DEF CallVerify, PlayIInv, TypeOK, googleVars, bookVars, clockVars, boundVars
<1>2. LoopInPlace'
  BY <1>a, <1>b, <1>c
  DEF CallVerify, PlayIInv, LoopInPlace, googleVars, bookVars, clockVars
<1>3. RequestsInPlace'
  BY DEF CallVerify, PlayIInv, RequestsInPlace, googleVars
<1>4. Bought'
  BY DEF CallVerify, PlayIInv, Bought, googleVars, bookVars
<1>5. AttemptsCounted'
  BY DEF CallVerify, Row, PlayIInv, AttemptsCounted, bookVars, boundVars
<1>6. SweepsApart'
  BY DEF CallVerify, PlayIInv, SweepsApart, clockVars, boundVars
<1>7. AcknowledgedByRow'
  BY DEF CallVerify, PlayIInv, AcknowledgedByRow, googleVars, bookVars
<1>8. OwnRows'
  BY DEF CallVerify, PlayIInv, OwnRows, bookVars
<1>. QED  BY <1>1, <1>2, <1>3, <1>4, <1>5, <1>6, <1>7, <1>8 DEF PlayIInv

\* The call to Google fails.
LEMMA CallFailsKeeps ==
  ASSUME PlayIInv, NEW r \in Row, CallFails(r)
  PROVE  PlayIInv'
<1>1. TypeOK'
  <2>1. loop' \in Pass
    BY DEF CallFails, PlayIInv, TypeOK, Pass
  <2>2. faults' \in 0..MaxFaults
    BY DEF CallFails, Fault, PlayIInv, TypeOK
  <2>. QED
    BY <2>1, <2>2 DEF CallFails, PlayIInv, TypeOK, googleVars, bookVars, clockVars
<1>2. LoopInPlace'
  BY DEF CallFails, PlayIInv, LoopInPlace, googleVars, bookVars, clockVars
<1>3. RequestsInPlace'
  BY DEF CallFails, PlayIInv, RequestsInPlace, googleVars
<1>4. Bought'
  BY DEF CallFails, PlayIInv, Bought, googleVars, bookVars
<1>5. AttemptsCounted'
  BY DEF CallFails, Row, PlayIInv, AttemptsCounted, bookVars, boundVars
<1>6. SweepsApart'
  BY DEF CallFails, PlayIInv, SweepsApart, clockVars, boundVars
<1>7. AcknowledgedByRow'
  BY DEF CallFails, PlayIInv, AcknowledgedByRow, googleVars, bookVars
<1>8. OwnRows'
  BY DEF CallFails, PlayIInv, OwnRows, bookVars
<1>. QED  BY <1>1, <1>2, <1>3, <1>4, <1>5, <1>6, <1>7, <1>8 DEF PlayIInv

\* The loop writes what Google said.
LEMMA ApplyKeeps ==
  ASSUME PlayIInv, Apply
  PROVE  PlayIInv'
<1>1. TypeOK'
  <2>1. loop \in Pass /\ loop.answer \in Answer
    BY DEF Apply, PlayIInv, TypeOK, LoopInPlace
  <2>2. loop' \in Pass
    BY <2>1 DEF Apply, Pass
  <2>3. purchase' \in [Token -> {None, "paid", "suspended"} \cup Ended]
    BY <2>1 DEF Apply, Write, Answer, Ended, PlayIInv, TypeOK
  <2>. QED  BY <2>2, <2>3 DEF Apply, PlayIInv, TypeOK, googleVars, clockVars, boundVars
<1>2. LoopInPlace'
  BY DEF Apply, Write, Pass, Ended, PlayIInv, TypeOK, LoopInPlace, RequestsInPlace,
      Bought, OwnRows, googleVars, clockVars
<1>3. RequestsInPlace'
  BY DEF Apply, Answer, PlayIInv, RequestsInPlace, googleVars
<1>4. Bought'
  BY DEF Apply, Write, Ended, PlayIInv, TypeOK, LoopInPlace, RequestsInPlace, Bought,
      AttemptsCounted, SweepsApart, AcknowledgedByRow, OwnRows, googleVars
<1>5. AttemptsCounted'
  BY DEF Apply, Pass, PlayIInv, TypeOK, AttemptsCounted, boundVars
<1>6. SweepsApart'
  BY DEF Apply, Write, Pass, Row, Ended, PlayIInv, TypeOK, SweepsApart, clockVars,
      boundVars
<1>7. AcknowledgedByRow'
  BY DEF Apply, PlayIInv, AcknowledgedByRow, googleVars, bookVars
<1>8. OwnRows'
  BY DEF Apply, Pass, PlayIInv, TypeOK, OwnRows
<1>. QED  BY <1>1, <1>2, <1>3, <1>4, <1>5, <1>6, <1>7, <1>8 DEF PlayIInv

\* It queues the acknowledgement of what it fulfilled.
LEMMA ApplyQueuesKeeps ==
  ASSUME PlayIInv, ApplyQueues
  PROVE  PlayIInv'
<1>a. loop.row \in Row /\ <<loop.row[1], "acknowledge">> \in Row
  BY RowOf DEF ApplyQueues, PlayIInv, TypeOK, LoopInPlace, Pass
<1>b. loop' \in Pass /\ loop'.at = "finish" /\ loop'.todo = loop.todo /\ loop'.row = loop.row
  <2>1. loop \in Pass
    BY DEF PlayIInv, TypeOK
  <2>. QED  BY <2>1 DEF ApplyQueues, Pass
<1>1. TypeOK'
  BY <1>a, <1>b, QueuedRows
  DEF ApplyQueues, PlayIInv, TypeOK, googleVars, bookVars, clockVars, boundVars
<1>2. LoopInPlace'
  BY DEF ApplyQueues, PlayIInv, LoopInPlace, googleVars, bookVars, clockVars
<1>3. RequestsInPlace'
  BY DEF ApplyQueues, PlayIInv, RequestsInPlace, googleVars
<1>4. Bought'
  BY DEF ApplyQueues, Queued, PlayIInv, Bought, googleVars
<1>5. AttemptsCounted'
  BY DEF ApplyQueues, Queued, Row, Kind, PlayIInv, AttemptsCounted, boundVars
<1>6. SweepsApart'
  BY DEF ApplyQueues, PlayIInv, SweepsApart, clockVars, boundVars
<1>7. AcknowledgedByRow'
  BY DEF ApplyQueues, Queued, Row, Kind, PlayIInv, TypeOK, AcknowledgedByRow, googleVars
<1>8. OwnRows'
  <2>1. \A r \in loop.todo : r \in Row /\ row[r].status # None
    BY DEF PlayIInv, OwnRows, TypeOK, Pass, None
  <2>. QED  BY <1>a, <1>b, <2>1, QueuedRows DEF ApplyQueues, PlayIInv, OwnRows
<1>. QED  BY <1>1, <1>2, <1>3, <1>4, <1>5, <1>6, <1>7, <1>8 DEF PlayIInv

\* An operation is done, and the purchase's next reconciliation is a day away.
LEMMA FinishKeeps ==
  ASSUME PlayIInv, Finish
  PROVE  PlayIInv'
<1>a. /\ loop.row \in loop.todo /\ loop.row \in Row
      /\ row' \in [Row -> Operation]
      /\ row'[loop.row].status = "sent"
      /\ row'[loop.row].attempts = row[loop.row].attempts
      /\ \A r \in Row : r # loop.row => row'[r] = row[r]
      /\ nextRec' \in [Token -> 0..Day]
      /\ loop' \in Pass /\ loop'.at = "call" /\ loop'.todo = loop.todo \ {loop.row}
      /\ UNCHANGED <<play, acked, voided, listed, purchase, event, sweepIn, dayLeft, ran,
                     missed, req, faults, crashes>>
  <2>1. Day \in 0..Day
    OBVIOUS
  <2>. QED  BY <2>1, OperationOverEffect DEF Finish, PlayIInv
<1>1. TypeOK'
  BY <1>a DEF PlayIInv, TypeOK
<1>2. LoopInPlace'
  BY <1>a DEF Finish, PlayIInv, LoopInPlace
<1>3. RequestsInPlace'
  BY <1>a DEF PlayIInv, RequestsInPlace
<1>4. Bought'
  <2>1. row[loop.row].status = "sending"
    BY <1>a DEF PlayIInv, OwnRows
  <2>. QED  BY <1>a, <2>1, RowOf DEF PlayIInv, Bought, None
<1>5. AttemptsCounted'
  BY <1>a DEF PlayIInv, AttemptsCounted, None
<1>6. SweepsApart'
  BY <1>a DEF PlayIInv, SweepsApart, Finish
<1>7. AcknowledgedByRow'
  BY <1>a, RowOf DEF PlayIInv, TypeOK, AcknowledgedByRow, None
<1>8. OwnRows'
  BY <1>a DEF PlayIInv, OwnRows, Pass
<1>. QED  BY <1>1, <1>2, <1>3, <1>4, <1>5, <1>6, <1>7, <1>8 DEF PlayIInv

\* An operation failed: it is tried again, or given up at its last attempt.
LEMMA FailKeeps ==
  ASSUME PlayIInv, Fail
  PROVE  PlayIInv'
<1>a. /\ loop.row \in loop.todo /\ loop.row \in Row
      /\ row' \in [Row -> Operation]
      /\ /\ row'[loop.row].status \in {"dead", "failed"}
         /\ row'[loop.row].status = "failed" => row[loop.row].attempts < MaxAttempts
      /\ row'[loop.row].attempts = row[loop.row].attempts
      /\ \A r \in Row : r # loop.row => row'[r] = row[r]
      /\ nextRec' \in [Token -> 0..Day]
      /\ loop' \in Pass /\ loop'.at = "call" /\ loop'.todo = loop.todo \ {loop.row}
      /\ UNCHANGED <<play, acked, voided, listed, purchase, event, sweepIn, dayLeft, ran,
                     missed, req, faults, crashes>>
  <2>1. 1 \in 0..Day
    OBVIOUS
  <2>2. CASE GivenUp
    <3>1. loop.at = "fail" /\ OperationOver("dead", 1)
      BY <2>2 DEF Fail
    <3>. QED  BY <2>1, <3>1, OperationOverEffect DEF PlayIInv
  <2>3. CASE ~GivenUp
    <3>1. loop.at = "fail" /\ OperationOver("failed", 1)
      BY <2>3 DEF Fail
    <3>2. loop.row \in Row
      BY <2>1, <3>1, OperationOverEffect DEF PlayIInv
    <3>3. row[loop.row].attempts \in Nat
      BY <3>2 DEF PlayIInv, TypeOK, Operation
    <3>4. row[loop.row].attempts < MaxAttempts
      BY <2>3, <3>3 DEF GivenUp
    <3>. QED  BY <2>1, <3>1, <3>4, OperationOverEffect DEF PlayIInv
  <2>. QED  BY <2>2, <2>3
<1>1. TypeOK'
  BY <1>a DEF PlayIInv, TypeOK
<1>2. LoopInPlace'
  BY <1>a DEF Fail, PlayIInv, LoopInPlace
<1>3. RequestsInPlace'
  BY <1>a DEF PlayIInv, RequestsInPlace
<1>4. Bought'
  <2>1. row[loop.row].status = "sending"
    BY <1>a DEF PlayIInv, OwnRows
  <2>. QED  BY <1>a, <2>1, RowOf DEF PlayIInv, Bought, None
<1>5. AttemptsCounted'
  BY <1>a DEF PlayIInv, AttemptsCounted, None
<1>6. SweepsApart'
  BY <1>a DEF PlayIInv, SweepsApart, Fail
<1>7. AcknowledgedByRow'
  BY <1>a, RowOf DEF PlayIInv, TypeOK, AcknowledgedByRow, None
<1>8. OwnRows'
  BY <1>a DEF PlayIInv, OwnRows, Pass
<1>. QED  BY <1>1, <1>2, <1>3, <1>4, <1>5, <1>6, <1>7, <1>8 DEF PlayIInv

\* The sweep reads Google's list, and the next one is due in a while.
LEMMA ListVoidedKeeps ==
  ASSUME PlayIInv, ListVoided
  PROVE  PlayIInv'
<1>1. TypeOK'
  <2>1. loop' \in Pass
    BY DEF ListVoided, PlayIInv, TypeOK, Pass
  <2>2. sweepIn' \in 0..Interval
    BY DEF ListVoided, ClaimedFor
  <2>. QED
    BY <2>1, <2>2 DEF ListVoided, PlayIInv, TypeOK, googleVars, bookVars, boundVars
<1>2. LoopInPlace'
  BY DEF ListVoided, AtSweep, ClaimedFor, PlayIInv, LoopInPlace, googleVars, bookVars
<1>3. RequestsInPlace'
  BY DEF ListVoided, PlayIInv, RequestsInPlace, googleVars
<1>4. Bought'
  BY DEF ListVoided, PlayIInv, Bought, googleVars, bookVars
<1>5. AttemptsCounted'
  BY DEF ListVoided, PlayIInv, AttemptsCounted, bookVars, boundVars
<1>6. SweepsApart'
  BY DEF ListVoided, AtSweep, ClaimedFor, PlayIInv, SweepsApart, boundVars
<1>7. AcknowledgedByRow'
  BY DEF ListVoided, PlayIInv, AcknowledgedByRow, googleVars, bookVars
<1>8. OwnRows'
  BY DEF ListVoided, PlayIInv, OwnRows, bookVars
<1>. QED  BY <1>1, <1>2, <1>3, <1>4, <1>5, <1>6, <1>7, <1>8 DEF PlayIInv

\* The list cannot be read: the pass ends before the mail, and the next try is due
\* in Retry ticks.
LEMMA ListFailsKeeps ==
  ASSUME PlayIInv, ListFails
  PROVE  PlayIInv'
<1>1. TypeOK'
  BY DEF ListFails, ClaimedFor, PassFails, Fault, Asleep, Pass, PlayIInv, TypeOK,
      googleVars, bookVars
<1>2. LoopInPlace'
  BY DEF ListFails, PassFails, Asleep, PlayIInv, LoopInPlace, googleVars
<1>3. RequestsInPlace'
  BY DEF ListFails, PlayIInv, RequestsInPlace, googleVars
<1>4. Bought'
  BY DEF ListFails, PlayIInv, Bought, googleVars, bookVars
<1>5. AttemptsCounted'
  BY DEF ListFails, AtSweep, PlayIInv, AttemptsCounted, bookVars
<1>6. SweepsApart'
  BY DEF ListFails, ClaimedFor, PassFails, Asleep, Pass, PlayIInv, TypeOK, SweepsApart
<1>7. AcknowledgedByRow'
  BY DEF ListFails, PlayIInv, AcknowledgedByRow, googleVars, bookVars
<1>8. OwnRows'
  BY DEF ListFails, PassFails, Asleep, PlayIInv, OwnRows, bookVars
<1>. QED  BY <1>1, <1>2, <1>3, <1>4, <1>5, <1>6, <1>7, <1>8 DEF PlayIInv

\* The sweep comes to an entry of the list.
LEMMA BeginEventKeeps ==
  ASSUME PlayIInv, NEW t \in Token, BeginEvent(t)
  PROVE  PlayIInv'
<1>1. TypeOK'
  <2>1. loop \in Pass /\ event \in [Token -> {None, "processing", "stale", "processed",
                                              "reconciliation_required"}]
    BY DEF PlayIInv, TypeOK
  <2>2. loop' \in Pass
    <3>1. CASE Takes(t)
      <4>1. loop' = [loop EXCEPT !.at = "void", !.entries = @ \ {t}, !.token = t]
        BY <3>1 DEF BeginEvent
      <4>. QED  BY <2>1, <4>1 DEF Pass
    <3>2. CASE ~Takes(t)
      BY <2>1, <3>2 DEF BeginEvent, Pass
    <3>. QED  BY <3>1, <3>2
  <2>3. event' \in [Token -> {None, "processing", "stale", "processed",
                             "reconciliation_required"}]
    BY <2>1 DEF BeginEvent
  <2>. QED
    BY <2>2, <2>3 DEF BeginEvent, PlayIInv, TypeOK, googleVars, clockVars, boundVars
<1>2. LoopInPlace'
  <2>1. loop \in Pass /\ loop.at = "entry" /\ loop.todo = {} /\ ~ran /\ ~ran'
    BY DEF BeginEvent, PlayIInv, TypeOK, LoopInPlace, clockVars
  <2>2. /\ loop'.at \in {"entry", "void"} /\ loop'.todo = {}
        /\ loop'.at = "void" => loop'.token \in Token
    BY <2>1 DEF BeginEvent, Pass
  <2>. QED  BY <2>1, <2>2 DEF LoopInPlace
<1>3. RequestsInPlace'
  BY DEF BeginEvent, PlayIInv, RequestsInPlace, googleVars
<1>4. Bought'
  BY DEF BeginEvent, PlayIInv, Bought, googleVars, bookVars
<1>5. AttemptsCounted'
  BY DEF BeginEvent, Pass, PlayIInv, TypeOK, AttemptsCounted, bookVars, boundVars
<1>6. SweepsApart'
  BY DEF BeginEvent, PlayIInv, SweepsApart, clockVars, boundVars
<1>7. AcknowledgedByRow'
  BY DEF BeginEvent, PlayIInv, AcknowledgedByRow, googleVars, bookVars
<1>8. OwnRows'
  BY DEF BeginEvent, Pass, PlayIInv, TypeOK, OwnRows, bookVars
<1>. QED  BY <1>1, <1>2, <1>3, <1>4, <1>5, <1>6, <1>7, <1>8 DEF PlayIInv

\* It applies the refund, or ends at a license that is inactive already.
LEMMA RefundKeeps ==
  ASSUME PlayIInv, Refund
  PROVE  PlayIInv'
<1>a. /\ loop' \in Pass /\ loop'.todo = {}
      /\ \/ /\ loop'.at = "settle" /\ loop'.token = loop.token
            /\ UNCHANGED <<event, ran, missed>>
         \/ loop'.at = "entry" /\ UNCHANGED <<purchase, ran, missed>>
         \/ loop' = Asleep /\ ran' = TRUE /\ missed' = missed + 1 /\ UNCHANGED <<purchase, event>>
  <2>1. loop \in Pass /\ loop.todo = {}
    BY DEF Refund, PlayIInv, TypeOK, LoopInPlace
  <2>2. Asleep \in Pass /\ Asleep.todo = {}
    BY DEF Asleep, Pass
  <2>. QED  BY <2>1, <2>2 DEF Refund, PassFails, Pass
<1>b. loop.at = "void" /\ loop.token \in Token /\ ~ran
  BY DEF Refund, PlayIInv, LoopInPlace
<1>1. TypeOK'
  <2>1. purchase' \in [Token -> {None, "paid", "suspended"} \cup Ended]
    BY DEF Refund, Write, Ended, PlayIInv, TypeOK
  <2>2. event' \in [Token -> {None, "processing", "stale", "processed",
                             "reconciliation_required"}]
    BY <1>a DEF Refund, FinishEvent, PlayIInv, TypeOK
  <2>3. missed' \in Nat
    BY <1>a DEF PlayIInv, TypeOK
  <2>4. ran' \in BOOLEAN
    BY <1>a DEF PlayIInv, TypeOK
  <2>. QED
    BY <1>a, <2>1, <2>2, <2>3, <2>4 DEF Refund, PlayIInv, TypeOK, googleVars, boundVars
<1>2. LoopInPlace'
  BY <1>a, <1>b, Asleep.at = "sleep"
  DEF Refund, PlayIInv, LoopInPlace, Asleep, googleVars
<1>3. RequestsInPlace'
  BY DEF Refund, PlayIInv, RequestsInPlace, googleVars
<1>4. Bought'
  BY DEF Refund, CanUpdate, Write, PassFails, PlayIInv, TypeOK, Bought, googleVars
<1>5. AttemptsCounted'
  BY DEF Refund, CanUpdate, Write, Pass, Ended, PlayIInv, TypeOK, LoopInPlace,
      RequestsInPlace, Bought, AttemptsCounted, SweepsApart, AcknowledgedByRow, OwnRows,
      boundVars
<1>6. SweepsApart'
  BY DEF Refund, CanUpdate, Write, PassFails, FinishEvent, Asleep, PlayIInv, TypeOK,
      SweepsApart, boundVars
<1>7. AcknowledgedByRow'
  BY DEF Refund, PlayIInv, AcknowledgedByRow, googleVars, bookVars
<1>8. OwnRows'
  BY <1>a DEF OwnRows
<1>. QED  BY <1>1, <1>2, <1>3, <1>4, <1>5, <1>6, <1>7, <1>8 DEF PlayIInv

\* It marks the entry as dealt with.
LEMMA SettleKeeps ==
  ASSUME PlayIInv, Settle
  PROVE  PlayIInv'
<1>1. TypeOK'
  BY DEF Settle, FinishEvent, Pass, PlayIInv, TypeOK, googleVars, clockVars, boundVars
<1>2. LoopInPlace'
  BY DEF Settle, PlayIInv, LoopInPlace, googleVars, bookVars, clockVars
<1>3. RequestsInPlace'
  BY DEF Settle, PlayIInv, RequestsInPlace, googleVars
<1>4. Bought'
  BY DEF Settle, PlayIInv, Bought, googleVars, bookVars
<1>5. AttemptsCounted'
  BY DEF Settle, PlayIInv, AttemptsCounted, bookVars, boundVars
<1>6. SweepsApart'
  BY DEF Settle, PlayIInv, SweepsApart, clockVars, boundVars
<1>7. AcknowledgedByRow'
  BY DEF Settle, PlayIInv, AcknowledgedByRow, googleVars, bookVars
<1>8. OwnRows'
  BY DEF Settle, PlayIInv, OwnRows, bookVars
<1>. QED  BY <1>1, <1>2, <1>3, <1>4, <1>5, <1>6, <1>7, <1>8 DEF PlayIInv

\* The pass comes to the mail, which ends the count of passes that did not.
LEMMA MailKeeps ==
  ASSUME PlayIInv, Mail
  PROVE  PlayIInv'
<1>1. TypeOK'
  BY DEF Mail, Asleep, Pass, PlayIInv, TypeOK, googleVars, bookVars, boundVars
<1>2. LoopInPlace'
  BY DEF Mail, Asleep, PlayIInv, LoopInPlace, googleVars, bookVars, clockVars
<1>3. RequestsInPlace'
  BY DEF Mail, PlayIInv, RequestsInPlace, googleVars
<1>4. Bought'
  BY DEF Mail, PlayIInv, Bought, googleVars, bookVars
<1>5. AttemptsCounted'
  BY DEF Mail, AtSweep, PlayIInv, TypeOK, LoopInPlace, RequestsInPlace, Bought,
      AttemptsCounted, OwnRows, bookVars, boundVars
<1>6. SweepsApart'
  BY DEF Mail, Asleep, PlayIInv, TypeOK, SweepsApart, boundVars
<1>7. AcknowledgedByRow'
  BY DEF Mail, PlayIInv, AcknowledgedByRow, googleVars, bookVars
<1>8. OwnRows'
  BY DEF Mail, AtSweep, Asleep, Pass, PlayIInv, OwnRows, bookVars
<1>. QED  BY <1>1, <1>2, <1>3, <1>4, <1>5, <1>6, <1>7, <1>8 DEF PlayIInv

\* Time passes: what failed is due, what was sending is lost, and a sweep that is
\* due has a pass before it.
LEMMA TickKeeps ==
  ASSUME PlayIInv, Tick
  PROVE  PlayIInv'
<1>a. loop.todo = {} /\ loop.at = "sleep"
  BY DEF Tick, PlayIInv, LoopInPlace, Asleep
<1>b. \A r \in Row :
        /\ row'[r] \in Operation
        /\ row'[r].status # None => row[r].status # None
        /\ r[2] = "acknowledge" /\ row[r].status # None => row'[r].status # None
        /\ row'[r].status # None => row'[r].attempts = row[r].attempts
        /\ row'[r].status \notin {"sending", "failed"}
        /\ row'[r].status = "lost" => row[r].status \in {"sending", "lost"}
        /\ row'[r].status = "pending" => row[r].status = "pending"
        /\ row'[r].status = "due" => row[r].status \in {"failed", "due"}
        /\ row'[r].status = None => row'[r].attempts = 0
  <2>. TAKE r \in Row
  <2>0. row[r] \in Operation /\ row'[r] = Later(r)
    BY DEF Tick, PlayIInv, TypeOK
  <2>1. CASE row[r].status = "failed"
    <3>1. row'[r] = [row[r] EXCEPT !.status = "due"]
      BY <2>0, <2>1 DEF Later, AtRest
    <3>2. /\ row'[r] \in Operation
          /\ row'[r].status = "due" /\ row'[r].attempts = row[r].attempts
      BY <2>0, <3>1 DEF Operation
    <3>. QED  BY <2>1, <3>2 DEF None
  <2>2. CASE row[r].status = "sending"
    <3>1. row'[r] = [row[r] EXCEPT !.status = "lost"]
      BY <2>0, <2>2 DEF Later, AtRest
    <3>2. /\ row'[r] \in Operation
          /\ row'[r].status = "lost" /\ row'[r].attempts = row[r].attempts
      BY <2>0, <3>1 DEF Operation
    <3>. QED  BY <2>2, <3>2 DEF None
  <2>3. CASE row[r].status \in AtRest /\ dayLeft = 1 /\ r[2] = "reconcile"
    <3>1. row'[r] = [status |-> None, attempts |-> 0]
      BY <2>0, <2>3 DEF Later, AtRest
    <3>. QED  BY <2>0, <2>3, <3>1 DEF Operation, None
  <2>4. CASE /\ row[r].status \notin {"failed", "sending"}
             /\ ~(row[r].status \in AtRest /\ dayLeft = 1 /\ r[2] = "reconcile")
    <3>1. row'[r] = row[r]
      BY <2>0, <2>4 DEF Later
    <3>2. row[r].status = None => row[r].attempts = 0
      BY DEF PlayIInv, AttemptsCounted
    <3>3. row[r].status \notin {"failed", "sending"}
      BY <2>4
    <3>4. row'[r] \in Operation
      BY <2>0, <3>1
    <3>. QED  BY <3>1, <3>2, <3>3, <3>4
  <2>. QED  BY <2>1, <2>2, <2>3, <2>4
<1>1. TypeOK'
  <2>1. row' \in [Row -> Operation]
    BY <1>b DEF Tick
  <2>2. listed' \in [Token -> 0..Window] /\ nextRec' \in [Token -> 0..Day]
    BY DEF Tick, Down, PlayIInv, TypeOK
  <2>3. sweepIn' \in 0..Interval /\ dayLeft' \in 1..Day
    BY DEF Tick, Down, PlayIInv, TypeOK
  <2>4. event' \in [Token -> {None, "processing", "stale", "processed",
                             "reconciliation_required"}]
    BY DEF Tick, PlayIInv, TypeOK
  <2>. QED  BY <2>1, <2>2, <2>3, <2>4 DEF Tick, PlayIInv, TypeOK, boundVars
<1>2. LoopInPlace'
  BY DEF Tick, PlayIInv, LoopInPlace, googleVars, bookVars, clockVars
<1>3. RequestsInPlace'
  BY DEF Tick, PlayIInv, RequestsInPlace, googleVars
<1>4. Bought'
  BY <1>b, RowOf DEF Tick, PlayIInv, Bought
<1>5. AttemptsCounted'
  <2>1. \A r \in Row : row[r].attempts \in Nat
    BY DEF PlayIInv, TypeOK, Operation
  <2>2. crashes' = crashes /\ crashes \in Nat
    BY DEF Tick, boundVars, PlayIInv, TypeOK
  <2>. QED  BY <1>a, <1>b, <2>1, <2>2 DEF PlayIInv, AttemptsCounted, None
<1>6. SweepsApart'
  BY DEF Tick, Down, Row, Kind, PlayIInv, TypeOK, SweepsApart, boundVars
<1>7. AcknowledgedByRow'
  BY <1>b, RowOf DEF Tick, PlayIInv, TypeOK, AcknowledgedByRow
<1>8. OwnRows'
  BY <1>a DEF Tick, OwnRows
<1>. QED  BY <1>1, <1>2, <1>3, <1>4, <1>5, <1>6, <1>7, <1>8 DEF PlayIInv

\* The relay starts again: what it was sending is nobody's, and the sweep is due at
\* once, so one pass more may miss the mail.
LEMMA RestartKeeps ==
  ASSUME PlayIInv, Restart
  PROVE  PlayIInv'
<1>a. loop' \in Pass /\ loop'.todo = {} /\ loop'.at = "sleep"
  BY DEF Restart, Asleep, Pass
<1>b. crashes' = crashes + 1 /\ crashes' \in 0..MaxCrashes /\ crashes \in Nat
  BY DEF Restart, PlayIInv, TypeOK
<1>1. TypeOK'
  <2>1. req' \in [Request -> Message]
    BY DEF Restart, Unsent, Over, Message
  <2>2. ran' \in BOOLEAN
    BY DEF Restart
  <2>3. sweepIn' \in 0..Interval
    BY DEF Restart
  <2>. QED
    BY <1>a, <1>b, <2>1, <2>2, <2>3 DEF Restart, PlayIInv, TypeOK, googleVars, bookVars
<1>2. LoopInPlace'
  BY DEF Restart, Asleep, PlayIInv, LoopInPlace, googleVars, bookVars, clockVars
<1>3. RequestsInPlace'
  BY DEF Restart, Asleep, Unsent, Over, PlayIInv, RequestsInPlace, googleVars
<1>4. Bought'
  BY DEF Restart, PlayIInv, Bought, googleVars, bookVars
<1>5. AttemptsCounted'
  <2>1. \A r \in Row : row[r].attempts \in Nat
    BY DEF PlayIInv, TypeOK, Operation
  <2>. QED  BY <1>b, <2>1 DEF Restart, PlayIInv, AttemptsCounted, bookVars
<1>6. SweepsApart'
  BY DEF Restart, Asleep, PlayIInv, TypeOK, SweepsApart
<1>7. AcknowledgedByRow'
  BY DEF Restart, PlayIInv, AcknowledgedByRow, googleVars, bookVars
<1>8. OwnRows'
  BY DEF Restart, Asleep, Unsent, Over, PlayIInv, OwnRows, bookVars
<1>. QED  BY <1>1, <1>2, <1>3, <1>4, <1>5, <1>6, <1>7, <1>8 DEF PlayIInv
-----------------------------------------------------------------------------
(* The invariant holds, and the invariants of the purchases with it.        *)

\* The invariant holds at first.
LEMMA PlayInit == Init => PlayIInv
<1>. SUFFICES ASSUME Init PROVE PlayIInv
  OBVIOUS
<1>1. Asleep \in Pass /\ Unsent \in Message
  BY DEF Asleep, Unsent, Pass, Message
<1>2. [status |-> None, attempts |-> 0] \in Operation
  BY DEF Operation
<1>3. \A r \in Row : row[r].status = None /\ row[r].attempts = 0
  BY DEF Init
<1>4. \A q \in Request : req[q].at = "unsent"
  BY DEF Init, Unsent
<1>5. TypeOK
  <2>1. ran \in BOOLEAN
    BY DEF Init
  <2>2. row \in [Row -> Operation] /\ req \in [Request -> Message] /\ loop \in Pass
    BY <1>1, <1>2 DEF Init
  <2>. QED  BY <2>1, <2>2 DEF Init, TypeOK
<1>6. LoopInPlace
  BY DEF Init, Asleep, LoopInPlace
<1>7. RequestsInPlace
  BY <1>4 DEF RequestsInPlace
<1>8. Bought
  BY <1>3, RowOf DEF Init, Bought
<1>9. AttemptsCounted
  BY <1>3 DEF Init, AttemptsCounted, None
<1>10. SweepsApart
  BY DEF Init, Asleep, SweepsApart
<1>11. AcknowledgedByRow /\ OwnRows
  BY DEF Init, Asleep, AcknowledgedByRow, OwnRows
<1>. QED  BY <1>5, <1>6, <1>7, <1>8, <1>9, <1>10, <1>11 DEF PlayIInv

\* Every step keeps it.
LEMMA PlayStep == PlayIInv /\ [Next]_vars => PlayIInv'
<1>. SUFFICES ASSUME PlayIInv, [Next]_vars PROVE PlayIInv'
  OBVIOUS
<1>1. ASSUME NEW t \in Token, Google(t) PROVE PlayIInv'
  BY <1>1, OrderKeeps, PayKeeps, DropKeeps, VoidKeeps DEF Google
<1>2. ASSUME NEW q \in Request, NEW t \in Token, Arrive(q, t) PROVE PlayIInv'
  BY <1>2, ArriveKeeps
<1>3. ASSUME NEW q \in Request, RequestStep(q) PROVE PlayIInv'
  BY <1>3, ReportKeeps, ReportQueuesKeeps DEF RequestStep
<1>4. ASSUME LoopStep PROVE PlayIInv'
  <2>1. ASSUME NEW r \in Row, CallAcknowledge(r) \/ CallVerify(r) \/ CallFails(r)
        PROVE  PlayIInv'
    BY <2>1, CallAcknowledgeKeeps, CallVerifyKeeps, CallFailsKeeps
  <2>2. ASSUME NEW t \in Token, BeginEvent(t) PROVE PlayIInv'
    BY <2>2, BeginEventKeeps
  <2>. QED
    BY <1>4, <2>1, <2>2, ClaimKeeps, ApplyKeeps, ApplyQueuesKeeps, FinishKeeps,
        FailKeeps, ListVoidedKeeps, ListFailsKeeps, RefundKeeps, SettleKeeps, MailKeeps
    DEF LoopStep
<1>5. CASE UNCHANGED vars
  BY <1>5
  DEF vars, googleVars, bookVars, clockVars, boundVars, PlayIInv, TypeOK, LoopInPlace,
      RequestsInPlace, Bought, AttemptsCounted, SweepsApart, AcknowledgedByRow, OwnRows
<1>. QED  BY <1>1, <1>2, <1>3, <1>4, <1>5, TickKeeps, RestartKeeps DEF Next

\* The purchases with what the proof needs, in every reachable state.
THEOREM InnerInvariant == Spec => []PlayIInv
BY PlayInit, PlayStep, PTL DEF Spec

\* The types of the state hold, what Google has an acknowledgement of was queued, what the
\* loop sends is being sent, and no pass but one after each restart goes by without
\* coming to the mail.
THEOREM PlayCorrect == Spec => []PlayInv
<1>1. PlayIInv => PlayInv
  BY DEF PlayIInv, PlayInv, SweepsApart, MailGoesOn
<1>. QED  BY InnerInvariant, <1>1, PTL

\* How many attempts an operation makes: those the limit allows, and one more for each
\* restart.
THEOREM AttemptsBounded ==
    Spec => [](\A r \in Row : row[r].attempts <= MaxAttempts + crashes)
<1>1. PlayIInv => \A r \in Row : row[r].attempts <= MaxAttempts + crashes
  BY DEF PlayIInv, AttemptsCounted
<1>. QED  BY InnerInvariant, <1>1, PTL
-----------------------------------------------------------------------------
(* What has ended stays ended.                                              *)

\* A write that may be made keeps what has ended.
LEMMA WriteKeepsEnded ==
    ASSUME NEW t \in Token, NEW answer \in Answer \cup {"refunded"},
           IF answer = "paid" THEN CanFulfil(t) ELSE CanUpdate(t, answer),
           Write(t, answer), NEW o \in Token, purchase[o] \in Ended
    PROVE  purchase'[o] = purchase[o]
<1>1. CASE o = t
  <2>1. answer # "paid"
    BY <1>1 DEF CanFulfil
  <2>. QED  BY <1>1, <2>1 DEF CanUpdate, Write
<1>2. CASE o # t
  BY <1>2 DEF Write
<1>. QED  BY <1>1, <1>2

\* A refunded or revoked purchase never authorises again: an answer of Google's that it
\* was paid, however late it is written, is refused by the write.
THEOREM EndedForGood == Spec => EndedStaysEnded
<1>. DEFINE Keeps == \A t \in Token : purchase[t] \in Ended => purchase'[t] = purchase[t]
<1>1. PlayIInv /\ [Next]_vars => Keeps
  <2>. SUFFICES ASSUME PlayIInv, [Next]_vars PROVE Keeps
    OBVIOUS
  <2>1. ASSUME NEW q \in Request, Report(q) PROVE Keeps
    <3>1. CASE UNCHANGED purchase
      BY <3>1
    <3>2. CASE ~UNCHANGED purchase
      <4>1. /\ Applicable(req[q].token, req[q].answer)
            /\ Write(req[q].token, req[q].answer)
            /\ req[q].at = "apply"
        BY <2>1, <3>2 DEF Report
      <4>2. req[q].token \in Token /\ req[q].answer \in Answer
        BY <4>1 DEF PlayIInv, RequestsInPlace
      <4>. QED  BY <4>1, <4>2, WriteKeepsEnded DEF Applicable
    <3>. QED  BY <3>1, <3>2
  <2>2. ASSUME Apply PROVE Keeps
    <3>1. CASE UNCHANGED purchase
      BY <3>1
    <3>2. CASE ~UNCHANGED purchase
      <4>1. /\ Applicable(loop.row[1], loop.answer)
            /\ Write(loop.row[1], loop.answer)
            /\ loop.at = "apply"
        BY <2>2, <3>2 DEF Apply
      <4>2. loop.row \in Row /\ loop.answer \in Answer
        BY <4>1 DEF PlayIInv, TypeOK, LoopInPlace, Pass
      <4>. QED  BY <4>1, <4>2, RowOf, WriteKeepsEnded DEF Applicable
    <3>. QED  BY <3>1, <3>2
  <2>3. ASSUME Refund PROVE Keeps
    <3>1. CASE UNCHANGED purchase
      BY <3>1
    <3>2. CASE ~UNCHANGED purchase
      <4>1. CanUpdate(loop.token, "refunded") /\ Write(loop.token, "refunded") /\ loop.at = "void"
        BY <2>3, <3>2 DEF Refund
      <4>2. loop.token \in Token
        BY <4>1 DEF PlayIInv, LoopInPlace
      <4>. QED  BY <4>1, <4>2, WriteKeepsEnded
    <3>. QED  BY <3>1, <3>2
  <2>4. CASE UNCHANGED purchase
    BY <2>4
  <2>. QED
    BY <2>1, <2>2, <2>3, <2>4
    DEF Next, Google, RequestStep, LoopStep, Order, Pay, Drop, Void, Arrive,
        ReportQueues, Claim, CallAcknowledge, CallVerify, CallFails, ApplyQueues,
        Finish, Fail, OperationOver, ListVoided, ListFails, BeginEvent, Settle, Mail,
        Tick, Restart, bookVars, vars
<1>. QED  BY InnerInvariant, <1>1, PTL DEF Spec, EndedStaysEnded
=============================================================================
