----------------------------- MODULE ReadsProofs -----------------------------
(***************************************************************************)
(* Theorems about BookingReads, at any number of clients, calls and        *)
(* bookings.                                                               *)
(***************************************************************************)
EXTENDS ReadsInvariant, BookingServiceProofs, FiniteSetTheorems, SequenceTheorems

\* The range test of ListBookingsByResource finds exactly the bookings that
\* occupy their resource at some moment of the range.
THEOREM SelectedIsInUse ==
  ASSUME NEW row \in BookingRow, row.startsAt < row.endsAt,
         NEW from \in Nat, NEW to \in Nat, from < to
  PROVE  (row.startsAt < to /\ row.endsAt > from) <=>
           \E t \in from..(to - 1) : row.startsAt <= t /\ t < row.endsAt
<1>1. ASSUME row.startsAt < to, row.endsAt > from
      PROVE  \E t \in from..(to - 1) : row.startsAt <= t /\ t < row.endsAt
  <2>1. CASE row.startsAt <= from
    <3> WITNESS from \in from..(to - 1)
    <3> QED BY <1>1, <2>1
  <2>2. CASE from < row.startsAt
    <3>1. row.startsAt \in from..(to - 1)
      BY <1>1, <2>2 DEF BookingRow
    <3> WITNESS row.startsAt \in from..(to - 1)
    <3> QED BY <1>1, <2>2 DEF BookingRow
  <2> QED BY <2>1, <2>2 DEF BookingRow
<1>2. ASSUME NEW t \in from..(to - 1), row.startsAt <= t, t < row.endsAt
      PROVE  row.startsAt < to /\ row.endsAt > from
  BY <1>2 DEF BookingRow
<1> QED BY <1>1, <1>2

-----------------------------------------------------------------------------
\* Steps

\* A step of the composed system is one of the calls that write, or none.
LEMMA StepIsNext == [ReadsNext]_allVars => [Next]_vars
BY DEF ReadsNext, allVars, Next

\* What the step of another client, or of a call that writes, leaves of a read.
LEMMA ReadCases ==
  ASSUME ReadTypeOK, [ReadsNext]_allVars, NEW r \in Reads
  PROVE  \/ /\ readPC'[r] = readPC[r]
            /\ readReq'[r] = readReq[r]
            /\ rows'[r] = rows[r]
            /\ told'[r] = told[r]
         \/ (ReceiveRead(r) \/ ReadStep(r) \/ ReadError(r)) /\ UNCHANGED vars
         \/ LoseReads
<1> SUFFICES ASSUME NEW q \in Reads \ {r},
                    ReceiveRead(q) \/ ReadStep(q) \/ ReadError(q)
             PROVE  /\ readPC'[r] = readPC[r]
                    /\ readReq'[r] = readReq[r]
                    /\ rows'[r] = rows[r]
                    /\ told'[r] = told[r]
  BY DEF ReadsNext, allVars, readVars
<1> QED BY DEF ReceiveRead, ReadStep, Query, Scan, ReadError, EndRead, ReadTypeOK

LEMMA RowType ==
  ASSUME ReadTypeOK, NEW r \in Reads, NEW i \in DOMAIN rows[r]
  PROVE  rows[r][i] \in Shown
<1>1. rows[r] \in Seq(Shown)
  BY DEF ReadTypeOK
<1> QED BY <1>1, ElementOfSeq

LEMMA EmptyRows == <<>> \in Seq(Shown)
OBVIOUS

\* A booking is asked for, or not, from its creation on.
LEMMA AskedForKept ==
  ASSUME IInv, [Next]_vars, NEW b \in DOMAIN bookings, NEW req
  PROVE  AskedFor(req, b)' <=> AskedFor(req, b)
<1>1. bookings[b] \in BookingRow
  BY DEF IInv, TypeOK, StorageTypeOK, IsTable
<1>2. /\ bookings'[b].user = bookings[b].user
      /\ bookings'[b].resource = bookings[b].resource
      /\ bookings'[b].startsAt = bookings[b].startsAt
      /\ bookings'[b].endsAt = bookings[b].endsAt
  BY <1>1, OnlyCanceledStep DEF BookingRow
<1> QED BY <1>2 DEF AskedFor

LEMMA HoldsKept ==
  ASSUME IInv, [Next]_vars, NEW f, Holds(f)
  PROVE  Holds(f)'
BY RowsKept DEF Holds

\* Whatever clients have been told so far is true.
LEMMA ToldHolds ==
  ASSUME ReadIInv, NEW f \in Told
  PROVE  Holds(f)
<1>1. CASE f \in ToldByCalls
  BY <1>1 DEF ToldByCalls, ReadIInv, IInv, TruthfulAnswers, Holds, Canceled
<1>2. CASE f \in ToldByReads
  <2>1. PICK r \in Reads : /\ readPC[r] = "ok"
                           /\ \E x \in RowsOf(rows[r]) : f = <<x.id, x.row.status>>
    BY <1>2 DEF ToldByReads
  <2>2. PICK i \in DOMAIN rows[r] : f = <<rows[r][i].id, rows[r][i].row.status>>
    BY <2>1 DEF RowsOf
  <2>3. /\ rows[r][i].id \in DOMAIN bookings
        /\ \/ bookings[rows[r][i].id] = rows[r][i].row
           \/ bookings[rows[r][i].id] = [rows[r][i].row EXCEPT !.status = "canceled"]
        /\ rows[r][i].row \in BookingRow
    BY <2>1, <2>2, RowType DEF ReadIInv, RowsFound, RowsMatch, RowMatches, Shown
  <2> QED BY <2>2, <2>3 DEF Holds, Canceled, BookingRow
<1>3. CASE \E r \in Reads : f \in told[r]
  BY <1>3 DEF ReadIInv, ToldIsTrue
<1> QED BY <1>1, <1>2, <1>3 DEF Told

LEMMA ToldTyped ==
  ASSUME ReadIInv
  PROVE  Told \subseteq Bookings \X Status
<1>1. ToldByCalls \subseteq Bookings \X Status
  <2> SUFFICES ASSUME NEW c \in Cancels, cancelPC[c] \in {"ok", "already_canceled"}
               PROVE  Target(c) \in Bookings
    BY DEF ToldByCalls, Status
  <2> QED BY DEF ReadIInv, IInv, TruthfulAnswers, Canceled, TypeOK, StorageTypeOK, IsTable
<1>2. ToldByReads \subseteq Bookings \X Status
  <2> SUFFICES ASSUME NEW r \in Reads, NEW i \in DOMAIN rows[r]
               PROVE  rows[r][i].id \in Bookings /\ rows[r][i].row.status \in Status
    BY DEF ToldByReads, RowsOf
  <2> QED BY RowType DEF ReadIInv, Shown, BookingRow
<1> QED BY <1>1, <1>2 DEF Told, ReadIInv, ReadTypeOK

-----------------------------------------------------------------------------
\* What a query finds

LEMMA MatchingIsAskedFor ==
  ASSUME IInv, RangesNotEmpty, NEW req \in ReadRequests, ValidRange(req),
         NEW b \in DOMAIN bookings
  PROVE  b \in Matching(req) <=> AskedFor(req, b)
<1>1. bookings[b] \in BookingRow /\ bookings[b].startsAt < bookings[b].endsAt
  BY DEF IInv, TypeOK, StorageTypeOK, IsTable, RangesNotEmpty
<1>2. req \in ReadRequest
  BY ReadsAssumption
<1>3. CASE req.api = "get"
  BY <1>3 DEF Matching, AskedFor
<1>4. CASE req.api = "user"
  BY <1>4 DEF Matching, Selected, AskedFor
<1>5. CASE req.api = "resource"
  <2>1. req.from \in Nat /\ req.to \in Nat /\ req.from < req.to
    BY <1>2, <1>5, ServiceAssumption DEF ReadRequest, ValidRange
  <2>2. (bookings[b].startsAt < req.to /\ bookings[b].endsAt > req.from) <=>
          \E t \in req.from..(req.to - 1) : bookings[b].startsAt <= t /\ t < bookings[b].endsAt
    BY <1>1, <2>1, SelectedIsInUse
  <2> QED BY <1>5, <2>2 DEF Matching, Selected, AskedFor
<1> QED BY <1>2, <1>3, <1>4, <1>5 DEF ReadRequest

\* The rows of a query match its request, and show whatever holds of the
\* bookings asked for.
LEMMA ListingsMatch ==
  ASSUME IInv, RangesNotEmpty, NEW req \in ReadRequests, ValidRange(req),
         NEW s \in Listings(req), NEW answer,
         answer = [i \in DOMAIN s |-> [id |-> s[i], row |-> bookings[s[i]]]]
  PROVE  /\ RowsMatch(req, answer)
         /\ \A f : Holds(f) /\ AskedFor(req, f[1]) => Shows(answer, f)
         /\ answer \in Seq(Shown)
<1>1. /\ \A i \in DOMAIN s : s[i] \in Matching(req)
      /\ \A i, j \in DOMAIN s : s[i] = s[j] => i = j
      /\ \A b \in Matching(req) : \E i \in DOMAIN s : s[i] = b
      /\ DOMAIN s = 1..Cardinality(Matching(req))
      /\ InOrder(req, s)
  BY DEF Listings, Bijection, Injection, Surjection, IsInjective
<1>2. \A b \in Matching(req) : /\ b \in DOMAIN bookings /\ b \in Bookings
                               /\ bookings[b] \in BookingRow
                               /\ AskedFor(req, b)
  BY MatchingIsAskedFor DEF Matching, IInv, TypeOK, StorageTypeOK, IsTable
<1>3. DOMAIN answer = DOMAIN s
      /\ \A i \in DOMAIN s : answer[i] = [id |-> s[i], row |-> bookings[s[i]]]
  OBVIOUS
<1>4. \A i \in DOMAIN answer : RowMatches(req, answer[i])
  BY <1>1, <1>2, <1>3 DEF RowMatches
<1>5. RowsOrdered(req, answer)
  <2> SUFFICES ASSUME NEW i \in DOMAIN s, NEW j \in DOMAIN s, i < j
               PROVE  /\ s[i] # s[j]
                      /\ IF req.api = "user"
                         THEN bookings[s[j]].startsAt <= bookings[s[i]].startsAt
                         ELSE bookings[s[i]].startsAt <= bookings[s[j]].startsAt
    BY <1>3 DEF RowsOrdered
  <2>1. i # j
    BY <1>1
  <2> QED BY <1>1, <1>2, <2>1 DEF InOrder, BookingRow
<1>6. ASSUME NEW f, Holds(f), AskedFor(req, f[1])
      PROVE  Shows(answer, f)
  <2>1. PICK i \in DOMAIN s : s[i] = f[1]
    BY <1>1, <1>6, MatchingIsAskedFor DEF Holds
  <2>2. answer[i].id = f[1] /\ (f[2] = "canceled" => answer[i].row.status = "canceled")
    BY <1>3, <1>6, <2>1 DEF Holds, Canceled
  <2> QED BY <1>3, <2>2 DEF Shows
<1>7. answer \in Seq(Shown)
  <2>1. Cardinality(Matching(req)) \in Nat
    BY ReadsAssumption, FS_Subset, FS_CardinalityType, <1>2
  <2>2. \A i \in DOMAIN s : answer[i] \in Shown
    BY <1>1, <1>2, <1>3 DEF Shown
  <2> QED BY <1>1, <2>1, <2>2
<1> QED BY <1>4, <1>5, <1>6, <1>7 DEF RowsMatch

\* A query that has found rows leaves an answer that matches, and shows what
\* had been told.
LEMMA QueryFinds ==
  ASSUME ReadIInv, NEW r \in Reads, Query(r), UNCHANGED vars, readPC'[r] = "scan"
  PROVE  \E req, answer, known :
           /\ readReq'[r] = req /\ rows'[r] = answer /\ told'[r] = known
           /\ RowsMatch(req, answer)' /\ RowsShow(req, answer, known)'
           /\ answer \in Seq(Shown)
<1>1. PICK req, known : req = readReq[r] /\ known = told[r]
  OBVIOUS
<1>2. /\ readReq'[r] = req /\ told'[r] = known /\ bookings' = bookings
      /\ req \in ReadRequests /\ ValidRange(req)
  BY <1>1 DEF Query, EndRead, ReadIInv, ReadTypeOK, RangesNotEmpty, ReadRunning, vars, storageVars
<1>3. PICK s \in Listings(req) :
        rows'[r] = [i \in DOMAIN s |-> [id |-> s[i], row |-> bookings[s[i]]]]
  BY <1>1 DEF Query, EndRead, ReadIInv, ReadTypeOK
<1>4. PICK answer : /\ answer = rows'[r]
                    /\ answer = [i \in DOMAIN s |-> [id |-> s[i], row |-> bookings[s[i]]]]
  BY <1>3
<1>5. /\ RowsMatch(req, answer)
      /\ \A f : Holds(f) /\ AskedFor(req, f[1]) => Shows(answer, f)
      /\ answer \in Seq(Shown)
  BY <1>2, <1>4, ListingsMatch DEF ReadIInv
<1>6. RowsShow(req, answer, known)
  BY <1>1, <1>5 DEF RowsShow, ReadIInv, ToldIsTrue
<1>7. RowsMatch(req, answer)' /\ RowsShow(req, answer, known)'
  BY <1>2, <1>5, <1>6 DEF RowsMatch, RowMatches, RowsOrdered, RowsShow, AskedFor
<1> QED BY <1>2, <1>4, <1>5, <1>7

-----------------------------------------------------------------------------
\* The invariant

LEMMA InitReadIInv == ReadInit => ReadIInv
<1> SUFFICES ASSUME ReadInit PROVE ReadIInv
  OBVIOUS
<1>1. IInv
  BY InitIInv DEF ReadInit
<1>2. ReadTypeOK /\ ToldIsTrue /\ RowsFound
  BY EmptyRows DEF ReadInit, ReadTypeOK, ReadRunning, ToldIsTrue, RowsFound
<1>3. RangesNotEmpty
  BY DEF ReadInit, Init, StorageInit, RangesNotEmpty, CreateRunning
<1> QED BY <1>1, <1>2, <1>3 DEF ReadIInv

LEMMA ReadTypeStep ==
  ASSUME ReadIInv, [ReadsNext]_allVars
  PROVE  ReadTypeOK'
<1> USE DEF ReadIInv, ReadTypeOK, ReadRunning, ReadEnded
<1>1. /\ readPC' \in [Reads -> {"idle"} \cup ReadRunning \cup ReadEnded]
      /\ readReq' \in [Reads -> ReadRequests \cup {NoRequest}]
  <2>1. ASSUME NEW r \in Reads, ReceiveRead(r) \/ ReadStep(r) \/ ReadError(r)
        PROVE  <1>1!:
    <3>1. readReq' = readReq \/ \E req \in ReadRequests : readReq' = [readReq EXCEPT ![r] = req]
      BY <2>1 DEF ReceiveRead, ReadStep, Query, Scan, ReadError, EndRead
    <3>2. \E pc \in ReadRunning \cup ReadEnded : readPC' = [readPC EXCEPT ![r] = pc]
      BY <2>1 DEF ReceiveRead, ReadStep, Query, Scan, ReadError, EndRead
    <3> QED BY <3>1, <3>2
  <2>2. CASE LoseReads
    BY <2>2 DEF LoseReads
  <2> QED BY <2>1, <2>2 DEF ReadsNext, allVars, readVars
<1>2. ASSUME NEW r \in Reads
      PROVE  /\ readPC'[r] \in ReadRunning \cup {"ok", "not_found"} => readReq'[r] \in ReadRequests
             /\ rows'[r] \in Seq(Shown)
             /\ told'[r] \subseteq Bookings \X Status
  <2>1. CASE ReceiveRead(r)
    BY <2>1, ToldTyped, EmptyRows DEF ReceiveRead
  <2>2. CASE Query(r) /\ UNCHANGED vars
    <3>1. CASE readPC'[r] = "scan"
      BY <2>2, <3>1, QueryFinds DEF Query, EndRead
    <3>2. CASE readPC'[r] # "scan"
      BY <2>2, <3>2, EmptyRows DEF Query, EndRead
    <3> QED BY <3>1, <3>2
  <2>3. CASE Scan(r)
    BY <2>3 DEF Scan
  <2>4. CASE ReadError(r)
    BY <2>4, EmptyRows DEF ReadError, EndRead
  <2>5. CASE LoseReads
    BY <2>5, EmptyRows DEF LoseReads
  <2>6. CASE /\ readPC'[r] = readPC[r]
             /\ readReq'[r] = readReq[r]
             /\ rows'[r] = rows[r]
             /\ told'[r] = told[r]
    BY <2>6
  <2> QED BY <2>1, <2>2, <2>3, <2>4, <2>5, <2>6, ReadCases DEF ReadStep
<1>3. DOMAIN rows' = Reads /\ rows' = [r \in Reads |-> rows'[r]]
      /\ told' = [r \in Reads |-> told'[r]]
  <2>1. ASSUME NEW r \in Reads, ReceiveRead(r) \/ ReadStep(r) \/ ReadError(r)
        PROVE  <1>3!:
    BY <2>1 DEF ReceiveRead, ReadStep, Query, Scan, ReadError, EndRead
  <2>2. CASE LoseReads
    BY <2>2 DEF LoseReads
  <2> QED BY <2>1, <2>2 DEF ReadsNext, allVars, readVars
<1> QED BY <1>1, <1>2, <1>3

LEMMA RangesNotEmptyStep ==
  ASSUME ReadIInv, [ReadsNext]_allVars
  PROVE  RangesNotEmpty'
<1> USE DEF ReadIInv, RangesNotEmpty
<1>0. IInv /\ [Next]_vars
  BY StepIsNext
<1>1. ASSUME NEW b \in Bookings, createPC'[b] \in CreateRunning
      PROVE  createReq'[b].startsAt < createReq'[b].endsAt
  BY <1>0, <1>1, CreateCases DEF ReceiveCreate, CreateStep, GetResource, CheckConflict,
     InsertBooking, InsertOutbox, CommitCreate, PublishCreate, CreateError, GoCreate,
     EndCreate, Crash, IInv, TypeOK, CreateRunning
<1>2. ASSUME NEW b \in DOMAIN bookings'
      PROVE  bookings'[b].startsAt < bookings'[b].endsAt
  <2>1. CASE b \in DOMAIN bookings
    BY <1>0, <2>1, RowsKept
  <2>2. CASE b \notin DOMAIN bookings
    <3>1. ASSUME NEW c \in Cancels, CommitCancel(c)
          PROVE  DOMAIN bookings' = DOMAIN bookings
      BY <3>1 DEF CommitCancel, CommitCancelTx
    <3>2. PICK a \in Bookings : CommitCreate(a)
      BY <1>0, <2>2, <3>1, TableSteps
    <3>3. a = b /\ bookings'[b] = NewRow(createReq[b])
      BY <2>2, <3>2 DEF CommitCreate, CommitCreateTx
    <3> QED BY <3>2, <3>3 DEF CommitCreate, NewRow, CreateRunning
  <2> QED BY <2>1, <2>2
<1>3. ASSUME NEW r \in Reads, readPC'[r] \in {"query", "scan", "ok"}
      PROVE  ValidRange(readReq'[r])
  BY <1>3, ReadCases DEF ReceiveRead, ReadStep, Query, Scan, ReadError, EndRead, LoseReads,
     ReadTypeOK, ReadRunning
<1> QED BY <1>1, <1>2, <1>3

LEMMA ToldIsTrueStep ==
  ASSUME ReadIInv, [ReadsNext]_allVars
  PROVE  ToldIsTrue'
<1> SUFFICES ASSUME NEW r \in Reads, NEW f \in told'[r]
             PROVE  Holds(f)'
  BY DEF ToldIsTrue
<1>1. f \in told[r] \/ f \in Told
  BY ReadCases DEF ReceiveRead, ReadStep, Query, Scan, ReadError, EndRead, LoseReads,
     ReadIInv, ReadTypeOK
<1>2. Holds(f)
  BY <1>1, ToldHolds DEF ReadIInv, ToldIsTrue
<1> QED BY <1>2, HoldsKept, StepIsNext DEF ReadIInv

\* The answer of a query goes on matching, whatever the tables become.
LEMMA RowsKeepMatching ==
  ASSUME IInv, [Next]_vars, NEW req, NEW answer \in Seq(Shown), NEW known,
         RowsMatch(req, answer), RowsShow(req, answer, known), \A f \in known : Holds(f)
  PROVE  RowsMatch(req, answer)' /\ RowsShow(req, answer, known)'
<1>1. ASSUME NEW i \in DOMAIN answer
      PROVE  RowMatches(req, answer[i])'
  <2>1. RowMatches(req, answer[i]) /\ answer[i] \in Shown
    BY ElementOfSeq DEF RowsMatch
  <2>2. /\ answer[i].id \in DOMAIN bookings'
        /\ bookings'[answer[i].id] \in
             {bookings[answer[i].id], [bookings[answer[i].id] EXCEPT !.status = "canceled"]}
    BY <2>1, OnlyCanceledStep DEF RowMatches
  <2>3. AskedFor(req, answer[i].id)'
    BY <2>1, AskedForKept DEF RowMatches
  <2> QED BY <2>1, <2>2, <2>3 DEF RowMatches, Shown, BookingRow
<1>2. RowsMatch(req, answer)'
  BY <1>1 DEF RowsMatch, RowsOrdered
<1>3. ASSUME NEW f \in known, AskedFor(req, f[1])'
      PROVE  Shows(answer, f)
  BY <1>3, AskedForKept DEF RowsShow, Holds
<1>4. RowsShow(req, answer, known)'
  BY <1>3 DEF RowsShow, Shows
<1> QED BY <1>2, <1>4

\* The request, the answer and the history of a read, named in the next state.
LEMMA NamedRows ==
  ASSUME NEW r \in Reads, NEW req, NEW answer, NEW known,
         readReq'[r] = req, rows'[r] = answer, told'[r] = known,
         RowsMatch(req, answer)', RowsShow(req, answer, known)'
  PROVE  (RowsMatch(readReq[r], rows[r]) /\ RowsShow(readReq[r], rows[r], told[r]))'
<1>1. ASSUME NEW i \in DOMAIN answer
      PROVE  RowMatches(readReq[r], rows[r][i])'
  <2>1. RowMatches(req, answer[i])'
    BY DEF RowsMatch
  <2>2. rows'[r][i] = answer[i]
    OBVIOUS
  <2> QED BY <2>1, <2>2 DEF RowMatches, AskedFor
<1>2. RowsOrdered(readReq[r], rows[r])'
  BY DEF RowsMatch, RowsOrdered
<1>3. RowsShow(readReq[r], rows[r], told[r])'
  BY DEF RowsShow, Shows, AskedFor
<1> QED BY <1>1, <1>2, <1>3 DEF RowsMatch

LEMMA RowsFoundStep ==
  ASSUME ReadIInv, [ReadsNext]_allVars
  PROVE  RowsFound'
<1> SUFFICES ASSUME NEW r \in Reads, readPC'[r] \in {"scan", "ok"}
             PROVE  \E req, answer, known :
                      /\ readReq'[r] = req /\ rows'[r] = answer /\ told'[r] = known
                      /\ RowsMatch(req, answer)' /\ RowsShow(req, answer, known)'
  BY NamedRows DEF RowsFound
<1>1. CASE Query(r) /\ UNCHANGED vars
  <2>1. readPC'[r] = "scan"
    BY <1>1 DEF Query, EndRead, ReadIInv, ReadTypeOK
  <2> QED BY <1>1, <2>1, QueryFinds
<1>2. CASE ~(Query(r) /\ UNCHANGED vars)
  <2>1. PICK req, answer, known : req = readReq[r] /\ answer = rows[r] /\ known = told[r]
    OBVIOUS
  <2>2. /\ readPC[r] \in {"scan", "ok"}
        /\ rows'[r] = answer /\ readReq'[r] = req /\ told'[r] = known
    BY <1>2, <2>1, ReadCases DEF ReceiveRead, ReadStep, Scan, ReadError, EndRead, LoseReads,
       ReadIInv, ReadTypeOK, ReadRunning
  <2>3. /\ RowsMatch(req, answer) /\ RowsShow(req, answer, known)
        /\ answer \in Seq(Shown) /\ \A f \in known : Holds(f)
    BY <2>1, <2>2 DEF ReadIInv, RowsFound, ReadTypeOK, ToldIsTrue
  <2> QED BY <2>2, <2>3, RowsKeepMatching, StepIsNext DEF ReadIInv
<1> QED BY <1>1, <1>2

LEMMA ReadIInvStep == ReadIInv /\ [ReadsNext]_allVars => ReadIInv'
BY StepIsNext, IInvStep, ReadTypeStep, RangesNotEmptyStep, ToldIsTrueStep, RowsFoundStep
   DEF ReadIInv

LEMMA ReadInvariance == ReadsSpec => []ReadIInv
BY InitReadIInv, ReadIInvStep, PTL DEF ReadsSpec

-----------------------------------------------------------------------------
\* The calls that read have states, requests, rows and history of the types
\* declared.
THEOREM ReadTypes == ReadsSpec => []ReadTypeOK
BY ReadInvariance, PTL DEF ReadIInv

\* Whoever has been told of a booking, or of its cancelation, finds it so in
\* every later answer: no answer of GetBooking or of a list is older than what
\* clients knew when they asked.
THEOREM ReadsAreMonotonic == ReadsSpec => []ReadsNeverGoBack
<1>1. ReadIInv => ReadsNeverGoBack
  BY DEF ReadIInv, RowsFound, ReadsNeverGoBack
<1> QED BY <1>1, ReadInvariance, PTL

\* Answers hold committed bookings only, those asked for, once and in order.
THEOREM AnswersAreExact == ReadsSpec => []AnswersMatchRequest
<1>1. ReadIInv => AnswersMatchRequest
  BY DEF ReadIInv, RowsFound, AnswersMatchRequest
<1> QED BY <1>1, ReadInvariance, PTL
=============================================================================
