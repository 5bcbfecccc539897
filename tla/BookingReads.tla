---------------------------- MODULE BookingReads ----------------------------
(***************************************************************************)
(* The calls that read, running beside the ones that change state:         *)
(* GetBooking, ListBookingsByUser and ListBookingsByResource, from the     *)
(* handler of internal/grpc/booking/handler.go to the statement of         *)
(* internal/repository/postgres/storage.go.                                *)
(*                                                                         *)
(* Each call runs one SELECT, which sees the committed rows of one moment  *)
(* (Query); its rows then come over the connection one after the other     *)
(* (Scan), and anything may be committed before the answer leaves. Either  *)
(* may fail (ReadError).                                                   *)
(***************************************************************************)
EXTENDS BookingService, Sequences

CONSTANTS
  Reads,        \* clients that read, each making one call after the other
  ReadRequests  \* bound: what they may ask for

ReadRequest ==
  [api: {"get"}, target: Bookings \cup {UnknownBooking}]
    \cup [api: {"user"}, user: Users]
    \cup [api: {"resource"}, resource: Resources, from: Instants, to: Instants]

ASSUME ReadsAssumption ==
  /\ ReadRequests \subseteq ReadRequest
  /\ IsFiniteSet(Bookings)

VARIABLES
  readPC,   \* where the latest call of each client is
  readReq,  \* its request
  rows,     \* the rows its query has found, in order
  told      \* history: what clients had been told when the call was made

readVars == <<readPC, readReq, rows, told>>
allVars == <<vars, readVars>>

-----------------------------------------------------------------------------

ReadRunning == {"query", "scan"}
ReadEnded == {"ok", "invalid", "not_found", "failed", "lost"}

\* A booking as an answer shows it.
Shown == [id: Bookings, row: BookingRow]

RowsOf(s) == {s[i] : i \in DOMAIN s}

ReadTypeOK ==
  /\ readPC \in [Reads -> {"idle"} \cup ReadRunning \cup ReadEnded]
  /\ readReq \in [Reads -> ReadRequests \cup {NoRequest}]
  /\ \A r \in Reads : readPC[r] \in ReadRunning \cup {"ok", "not_found"} =>
       readReq[r] \in ReadRequests
  /\ rows \in [Reads -> Seq(Shown)]
  /\ told \in [Reads -> SUBSET (Bookings \X Status)]

ReadInit ==
  /\ Init
  /\ readPC = [r \in Reads |-> "idle"]
  /\ readReq = [r \in Reads |-> NoRequest]
  /\ rows = [r \in Reads |-> <<>>]
  /\ told = [r \in Reads |-> {}]

\* What the answers given so far have told clients: of a booking that it
\* exists, or that it is canceled.
ToldByCalls ==
  {<<b, "confirmed">> : b \in {x \in Bookings : createPC[x] = "ok"}}
    \cup {<<Target(c), "canceled">> :
            c \in {x \in Cancels : cancelPC[x] \in {"ok", "already_canceled"}}}

ToldByReads ==
  UNION {{<<x.id, x.row.status>> : x \in RowsOf(rows[r])} :
           r \in {q \in Reads : readPC[q] = "ok"}}

Told == ToldByCalls \cup ToldByReads \cup UNION {told[r] : r \in Reads}

EndRead(r, pc) ==
  /\ readPC' = [readPC EXCEPT ![r] = pc]
  /\ rows' = [rows EXCEPT ![r] = <<>>]
  /\ UNCHANGED <<readReq, told>>

-----------------------------------------------------------------------------
\* The calls

\* ListBookingsByResource refuses an empty range before it asks the database.
ValidRange(req) == req.api = "resource" => req.from < req.to

\* The handler refuses a request without its id, or without its range.
ReceiveRead(r) ==
  /\ readPC[r] \notin ReadRunning
  /\ \/ \E req \in ReadRequests :
          /\ readReq' = [readReq EXCEPT ![r] = req]
          /\ readPC' = [readPC EXCEPT ![r] =
                          IF ValidRange(req) THEN "query" ELSE "failed"]
     \/ /\ readPC' = [readPC EXCEPT ![r] = "invalid"]
        /\ UNCHANGED readReq
  /\ told' = [told EXCEPT ![r] = Told]
  /\ rows' = [rows EXCEPT ![r] = <<>>]

\* Mutant: the bookings that only touch the range are found as well.
SelectedTouching(req, row) ==
  IF req.api = "user" THEN row.user = req.user
  ELSE /\ row.resource = req.resource
       /\ row.startsAt <= req.to /\ row.endsAt >= req.from

\* The WHERE clauses of the two lists, which show canceled bookings as well.
Selected(req, row) ==
  IF req.api = "user" THEN row.user = req.user
  ELSE /\ row.resource = req.resource
       /\ row.startsAt < req.to /\ row.endsAt > req.from

Matching(req) ==
  IF req.api = "get" THEN DOMAIN bookings \cap {req.target}
  ELSE {b \in DOMAIN bookings : Selected(req, bookings[b])}

\* ORDER BY starts_at: the lists of a user begin with the latest booking, those
\* of a resource with the earliest. Equal starts come in any order.
InOrder(req, s) ==
  \A i, j \in DOMAIN s : i < j =>
    IF req.api = "user"
    THEN bookings[s[i]].startsAt >= bookings[s[j]].startsAt
    ELSE bookings[s[i]].startsAt <= bookings[s[j]].startsAt

Listings(req) ==
  {s \in Bijection(1..Cardinality(Matching(req)), Matching(req)) : InOrder(req, s)}

\* The SELECT. Only GetBooking takes an empty result for an error of its own.
Query(r) ==
  /\ readPC[r] = "query"
  /\ \/ /\ readReq[r].api = "get" /\ Matching(readReq[r]) = {}
        /\ EndRead(r, "not_found")
     \/ /\ readReq[r].api = "get" => Matching(readReq[r]) # {}
        /\ \E s \in Listings(readReq[r]) :
             rows' = [rows EXCEPT ![r] =
                        [i \in DOMAIN s |-> [id |-> s[i], row |-> bookings[s[i]]]]]
        /\ readPC' = [readPC EXCEPT ![r] = "scan"]
        /\ UNCHANGED <<readReq, told>>

\* Scan, and the rows made into the answer.
Scan(r) ==
  /\ readPC[r] = "scan"
  /\ readPC' = [readPC EXCEPT ![r] = "ok"]
  /\ UNCHANGED <<readReq, rows, told>>

\* Mutant: rows.Err is not asked, and the rows read so far are the answer.
ReadErrorUnseen(r) ==
  /\ readPC[r] \in ReadRunning
  /\ readPC' = [readPC EXCEPT ![r] = "ok"]
  /\ rows' = [rows EXCEPT ![r] = <<>>]
  /\ UNCHANGED <<readReq, told>>

\* The query fails, or the connection while its rows are read, and none of
\* them is used. The handler of GetBooking answers NotFound to every error.
ReadError(r) ==
  /\ readPC[r] \in ReadRunning
  /\ EndRead(r, IF readReq[r].api = "get" THEN "not_found" ELSE "failed")

ReadStep(r) == Query(r) \/ Scan(r)

LoseReads ==
  /\ readPC' = [r \in Reads |->
       IF readPC[r] \in ReadRunning THEN "lost" ELSE readPC[r]]
  /\ rows' = [r \in Reads |->
       IF readPC[r] \in ReadRunning THEN <<>> ELSE rows[r]]
  /\ UNCHANGED <<readReq, told>>

-----------------------------------------------------------------------------
\* The specification

ReadsNext ==
  \/ (Calls \/ Clock) /\ UNCHANGED readVars
  \/ Crash /\ LoseReads
  \/ \E r \in Reads : (ReceiveRead(r) \/ ReadStep(r) \/ ReadError(r)) /\ UNCHANGED vars

ReadsSpec == ReadInit /\ [][ReadsNext]_allVars

-----------------------------------------------------------------------------
\* Properties

\* The bookings a request is about: by its id, by its user, or on its resource
\* at some moment of its range (a booking occupies [startsAt, endsAt)).
AskedFor(req, b) ==
  \/ req.api = "get" /\ b = req.target
  \/ req.api = "user" /\ bookings[b].user = req.user
  \/ /\ req.api = "resource"
     /\ bookings[b].resource = req.resource
     /\ \E t \in req.from..(req.to - 1) :
          bookings[b].startsAt <= t /\ t < bookings[b].endsAt

\* Reads never go back in time: an answer shows every booking the request is
\* about that any client had been told of when the call was made, and shows it
\* canceled when it had been told to be.
Shows(answer, f) ==
  \E i \in DOMAIN answer :
    answer[i].id = f[1] /\ (f[2] = "canceled" => answer[i].row.status = "canceled")

RowsShow(req, answer, known) ==
  \A f \in known : AskedFor(req, f[1]) => Shows(answer, f)

ReadsNeverGoBack ==
  \A r \in Reads : readPC[r] = "ok" => RowsShow(readReq[r], rows[r], told[r])

\* An answer holds nothing else: committed bookings the request is about, as
\* they are or as they were before they were canceled, each of them once, in
\* the order of the request.
RowMatches(req, x) ==
  /\ x.id \in DOMAIN bookings
  /\ AskedFor(req, x.id)
  /\ bookings[x.id] \in {x.row, [x.row EXCEPT !.status = "canceled"]}

RowsOrdered(req, answer) ==
  \A i, j \in DOMAIN answer : i < j =>
    /\ answer[i].id # answer[j].id
    /\ IF req.api = "user"
       THEN answer[j].row.startsAt <= answer[i].row.startsAt
       ELSE answer[i].row.startsAt <= answer[j].row.startsAt

RowsMatch(req, answer) ==
  /\ \A i \in DOMAIN answer : RowMatches(req, answer[i])
  /\ RowsOrdered(req, answer)

AnswersMatchRequest ==
  \A r \in Reads : readPC[r] = "ok" => RowsMatch(readReq[r], rows[r])

\* NotFound is answered for a booking no client had been told of. The code
\* does not ensure it: every error of GetBooking is answered NotFound.
NotFoundMeansAbsent ==
  \A r \in Reads : readPC[r] = "not_found" =>
    \A f \in told[r] : f[1] # readReq[r].target
=============================================================================
