---------------------------- MODULE BookPageProofs ----------------------------
(****************************************************************************)
(* What the booking page says is true, for any number of bookings made from *)
(* it and any POLL_MAX.  A fetch outlives the outcome that started it, so   *)
(* the argument is about every fetch in flight: it names a booking that was *)
(* asked for, no other fetch and no timer does, and what it brings was read *)
(* from a row that has not changed since, or says that it may.              *)
(****************************************************************************)
EXTENDS BookPage, TLAPS

Decided == {"CONFIRMED", "FAILED", "EXPIRED"}

\* What a fetch brings home still holds when it gets there.
FetchIsReal(p) ==
  /\ p.job \in asked
  /\ p.body \in Decided => outcome[p.job] = p.body
  /\ p.body = "CONFIRMED" => owns[p.job] = p.seat

PageInv ==
  /\ PageTypeOK
  /\ shown.kind \in {"polling", "success", "down"} => shown.job \in asked
  /\ armed => shown.kind = "polling"
  /\ \A p \in polls : FetchIsReal(p)
  /\ ShownIsReal
  /\ OneChainPerBooking

-----------------------------------------------------------------------------
(* The engine. *)

\* What is decided stays as it is when the engine moves.
DecisionsStay ==
  \A b \in Bookings : outcome[b] \in Decided =>
    outcome'[b] = outcome[b] /\ owns'[b] = owns[b]

\* The engine, as far as the page drives it, leaves what is decided alone.
LEMMA EngineStays ==
  ASSUME PageInv, Engine
  PROVE  SaleTypeOK' /\ DecisionsStay
<1> USE DEF PageInv, PageTypeOK, SaleTypeOK, DecisionsStay, Decided
<1>1. ASSUME NEW b \in asked, NEW s \in Seats, Sell(b, s) PROVE SaleTypeOK' /\ DecisionsStay
  BY <1>1 DEF Sell
<1>2. ASSUME NEW B \in SUBSET asked, NEW why \in {"FAILED", "EXPIRED"}, TurnDown(B, why)
      PROVE  SaleTypeOK' /\ DecisionsStay
  BY <1>2 DEF TurnDown
<1> QED
  BY <1>1, <1>2 DEF Engine

-----------------------------------------------------------------------------
(* The page. *)

\* What the page may show.
Outcomes == [kind : {"idle", "polling", "success"} \cup Failures,
             job : Bookings \cup {NoBooking}, seat : Seats \cup {NoSeat},
             attempt : 0 .. POLL_MAX - 1]

\* An outcome that the page takes over keeps the invariant when it is true and
\* nobody else follows its booking.
LEMMA ShowKeeps ==
  ASSUME PageInv, NEW o, Show(o), UNCHANGED saleVars,
         o \in Outcomes,
         o.kind \in {"polling", "success", "down"} => o.job \in asked',
         o.kind = "success" => outcome[o.job] = "CONFIRMED" /\ owns[o.job] = o.seat,
         o.kind = "down" => outcome[o.job] \in {"FAILED", "EXPIRED"},
         o.kind = "polling" => \A p \in polls' : p.job # o.job,
         polls' \subseteq polls, asked \subseteq asked', asked' \subseteq Bookings,
         dialogOpen' \in BOOLEAN, submitting' \in BOOLEAN
  PROVE  PageInv'
<1> USE DEF Show, saleVars
<1>1. PageTypeOK'
  BY DEF PageInv, PageTypeOK, SaleTypeOK, Outcomes
<1>2. ShownIsReal'
  BY DEF ShownIsReal
<1>3. OneChainPerBooking'
  BY DEF PageInv, OneChainPerBooking
<1>4. \A p \in polls' : FetchIsReal(p)'
  BY DEF PageInv, FetchIsReal
<1> QED
  BY <1>1, <1>2, <1>3, <1>4 DEF PageInv

\* A fetch that is over makes way: no other one follows its booking.
LEMMA FetchEnds ==
  ASSUME PageInv, NEW p \in polls, polls' = polls \ {p}
  PROVE  \A q \in polls' : q.job # p.job
<1> QED
  BY DEF PageInv, OneChainPerBooking

\* Polling again, or giving up, keeps the invariant.
LEMMA AgainKeeps ==
  ASSUME PageInv, NEW p \in polls, polls' = polls \ {p}, PollAgain(p.job, p.attempt + 1),
         UNCHANGED <<saleVars, dialogOpen, submitting, asked>>
  PROVE  PageInv'
<1>1. /\ p.job \in Bookings /\ p.job \in asked /\ p.attempt \in Nat
      /\ asked \subseteq Bookings /\ dialogOpen \in BOOLEAN /\ submitting \in BOOLEAN
      /\ POLL_MAX \in Nat \ {0}
  BY PollAssumption DEF PageInv, PageTypeOK, FetchIsReal
<1>2. \A q \in polls' : q.job # p.job
  BY FetchEnds
<1>3. CASE p.attempt + 1 >= POLL_MAX
  <2>1. Show(TimedOut(p.job))
    BY <1>3 DEF PollAgain
  <2>2. TimedOut(p.job) \in Outcomes /\ TimedOut(p.job).kind = "timeout"
    BY <1>1 DEF TimedOut, Outcomes, Failures
  <2> QED
    BY <1>1, <2>1, <2>2, ShowKeeps
<1>4. CASE p.attempt + 1 < POLL_MAX
  <2> DEFINE o == Polling(p.job, p.attempt + 1)
  <2>1. Show(o)
    BY <1>1, <1>4 DEF PollAgain
  <2>2. o \in Outcomes /\ o.kind = "polling" /\ o.job = p.job
    BY <1>1, <1>4 DEF Polling, Outcomes, Failures
  <2> HIDE DEF o
  <2> QED
    BY <1>1, <1>2, <2>1, <2>2, ShowKeeps
<1> QED
  BY <1>1, <1>3, <1>4

\* An answer keeps it.
LEMMA AnswerKeeps ==
  ASSUME PageInv, NEW p \in polls, PollAnswers(p)
  PROVE  PageInv'
<1>1. /\ p.job \in Bookings /\ p.job \in asked /\ p.seat \in Seats \cup {NoSeat}
      /\ asked \subseteq Bookings /\ dialogOpen \in BOOLEAN /\ submitting \in BOOLEAN
      /\ polls' = polls \ {p} /\ UNCHANGED <<saleVars, dialogOpen, submitting, asked>>
      /\ POLL_MAX \in Nat \ {0}
  BY PollAssumption DEF PageInv, PageTypeOK, FetchIsReal, PollAnswers
<1>2. CASE p.body = "CONFIRMED" /\ Show(Success(p.job, p.seat))
  <2> DEFINE o == Success(p.job, p.seat)
  <2>1. o \in Outcomes /\ o.kind = "success" /\ o.job = p.job /\ o.seat = p.seat
    BY <1>1 DEF Success, Outcomes, Failures
  <2>2. outcome[p.job] = "CONFIRMED" /\ owns[p.job] = p.seat
    BY <1>2 DEF PageInv, FetchIsReal, Decided
  <2> HIDE DEF o
  <2> QED
    BY <1>1, <1>2, <2>1, <2>2, ShowKeeps DEF o
<1>3. CASE p.body \in {"FAILED", "EXPIRED"} /\ Show(TurnedDown(p.job))
  <2> DEFINE o == TurnedDown(p.job)
  <2>1. o \in Outcomes /\ o.kind = "down" /\ o.job = p.job
    BY <1>1 DEF TurnedDown, Outcomes, Failures
  <2>2. outcome[p.job] \in {"FAILED", "EXPIRED"}
    BY <1>3 DEF PageInv, FetchIsReal, Decided
  <2> HIDE DEF o
  <2> QED
    BY <1>1, <1>3, <2>1, <2>2, ShowKeeps DEF o
<1>4. CASE PollAgain(p.job, p.attempt + 1)
  BY <1>1, <1>4, AgainKeeps
<1> QED
  BY <1>2, <1>3, <1>4 DEF PollAnswers

\* A fetch that is answered by the endpoint has read its booking's row.
LEMMA ReadKeeps ==
  ASSUME PageInv, NEW p \in polls, PollReads(p)
  PROVE  PageInv'
<1> DEFINE q == [p EXCEPT !.body = outcome[p.job], !.seat = owns[p.job]]
<1>1. /\ polls' = (polls \ {p}) \cup {q}
      /\ UNCHANGED <<saleVars, shown, dialogOpen, submitting, armed, asked>>
  BY DEF PollReads
<1>2. /\ p.job \in Bookings /\ p.job \in asked
      /\ p \in [job : Bookings, attempt : 0 .. POLL_MAX - 1, seat : Seats \cup {NoSeat},
                body : {"none", "OPEN", "CONFIRMED", "FAILED", "EXPIRED"}]
  BY DEF PageInv, PageTypeOK, FetchIsReal
<1>3. /\ q \in [job : Bookings, attempt : 0 .. POLL_MAX - 1, seat : Seats \cup {NoSeat},
                body : {"none", "OPEN", "CONFIRMED", "FAILED", "EXPIRED"}]
      /\ q.job = p.job /\ q.body = outcome[p.job] /\ q.seat = owns[p.job]
  BY <1>2 DEF PageInv, PageTypeOK, SaleTypeOK
<1> HIDE DEF q
<1>4. PageTypeOK'
  BY <1>1, <1>3 DEF PageInv, PageTypeOK, SaleTypeOK, saleVars
<1>5. \A r \in polls' : FetchIsReal(r)'
  BY <1>1, <1>2, <1>3 DEF PageInv, FetchIsReal, saleVars
<1>6. ShownIsReal'
  BY <1>1 DEF PageInv, ShownIsReal, saleVars
<1>7. OneChainPerBooking'
  BY <1>1, <1>3 DEF PageInv, OneChainPerBooking
<1> QED
  BY <1>1, <1>4, <1>5, <1>6, <1>7 DEF PageInv

\* The timer starts the only fetch of the booking on screen.
LEMMA TimerKeeps ==
  ASSUME PageInv, TimerFires
  PROVE  PageInv'
<1> DEFINE q == [job |-> shown.job, attempt |-> shown.attempt, seat |-> NoSeat, body |-> "none"]
<1>1. /\ armed /\ armed' = FALSE /\ polls' = polls \cup {q}
      /\ UNCHANGED <<saleVars, shown, dialogOpen, submitting, asked>>
  BY DEF TimerFires
<1>2. /\ shown.job \in asked /\ shown.job \in Bookings
      /\ \A p \in polls : p.job # shown.job
  BY <1>1 DEF PageInv, PageTypeOK, OneChainPerBooking
<1>3. /\ q \in [job : Bookings, attempt : 0 .. POLL_MAX - 1, seat : Seats \cup {NoSeat},
                body : {"none", "OPEN", "CONFIRMED", "FAILED", "EXPIRED"}]
      /\ q.job = shown.job /\ q.body = "none"
  BY <1>2 DEF PageInv, PageTypeOK
<1> HIDE DEF q
<1>4. PageTypeOK'
  BY <1>1, <1>3 DEF PageInv, PageTypeOK, SaleTypeOK, saleVars
<1>5. \A r \in polls' : FetchIsReal(r)'
  BY <1>1, <1>2, <1>3 DEF PageInv, FetchIsReal, Decided, saleVars
<1>6. ShownIsReal'
  BY <1>1 DEF PageInv, ShownIsReal, saleVars
<1>7. OneChainPerBooking'
  BY <1>1, <1>2, <1>3 DEF PageInv, OneChainPerBooking
<1> QED
  BY <1>1, <1>4, <1>5, <1>6, <1>7 DEF PageInv

\* The answers of POST: an accepted booking is one nobody followed before.
LEMMA PostKeeps ==
  ASSUME PageInv, PostRefused \/ \E b \in Bookings : PostAccepted(b)
  PROVE  PageInv'
<1>0. /\ asked \subseteq Bookings /\ dialogOpen \in BOOLEAN /\ submitting \in BOOLEAN
      /\ POLL_MAX \in Nat \ {0}
  BY PollAssumption DEF PageInv, PageTypeOK
<1>1. ASSUME NEW b \in Bookings, PostAccepted(b) PROVE PageInv'
  <2> DEFINE o == Polling(b, 0)
  <2>1. o \in Outcomes /\ o.kind = "polling" /\ o.job = b
    BY <1>0 DEF Polling, Outcomes, Failures
  <2>2. /\ Show(o) /\ asked' = asked \cup {b} /\ submitting' = FALSE
        /\ UNCHANGED <<saleVars, dialogOpen, polls>>
    BY <1>1 DEF PostAccepted
  <2>3. \A p \in polls : p.job # b
    BY <1>1 DEF PostAccepted, PageInv, FetchIsReal
  <2> HIDE DEF o
  <2> QED
    BY <1>0, <2>1, <2>2, <2>3, ShowKeeps
<1>2. CASE PostRefused
  <2>1. Refused \in Outcomes /\ Refused.kind = "refused"
    BY <1>0 DEF Refused, Outcomes, Failures
  <2>2. /\ Show(Refused) /\ asked \subseteq asked' /\ asked' \subseteq Bookings
        /\ submitting' = FALSE /\ UNCHANGED <<saleVars, dialogOpen, polls>>
    BY <1>0, <1>2 DEF PostRefused
  <2> QED
    BY <1>0, <2>1, <2>2, ShowKeeps
<1> QED
  BY <1>1, <1>2

\* The user's clicks.
LEMMA UserKeeps ==
  ASSUME PageInv, User
  PROVE  PageInv'
<1>0. /\ asked \subseteq Bookings /\ submitting \in BOOLEAN /\ POLL_MAX \in Nat \ {0}
  BY PollAssumption DEF PageInv, PageTypeOK
<1>1. CASE OpenBooking \/ Dismiss
  <2>1. Idle \in Outcomes /\ Idle.kind = "idle"
    BY <1>0 DEF Idle, Outcomes, Failures
  <2>2. /\ Show(Idle) /\ dialogOpen' \in BOOLEAN
        /\ UNCHANGED <<saleVars, submitting, polls, asked>>
    BY <1>1 DEF OpenBooking, Dismiss
  <2> QED
    BY <1>0, <2>1, <2>2, ShowKeeps
<1>2. CASE Submit \/ CloseDialog
  <2>1. /\ dialogOpen' \in BOOLEAN /\ submitting' \in BOOLEAN
        /\ UNCHANGED <<saleVars, shown, armed, polls, asked>>
    BY <1>0, <1>2 DEF Submit, CloseDialog, PageInv, PageTypeOK
  <2> QED
    BY <2>1
    DEF PageInv, PageTypeOK, SaleTypeOK, saleVars, FetchIsReal, ShownIsReal, OneChainPerBooking
<1> QED
  BY <1>1, <1>2 DEF User

-----------------------------------------------------------------------------
(* The theorems. *)

\* PageInv is inductive.
LEMMA PageStep == PageInv /\ [PageNext]_bookVars => PageInv'
<1> SUFFICES ASSUME PageInv, [PageNext]_bookVars PROVE PageInv'
  OBVIOUS
<1>1. ASSUME Engine PROVE PageInv'
  <2>1. SaleTypeOK' /\ DecisionsStay
    BY <1>1, EngineStays
  <2>2. UNCHANGED <<shown, dialogOpen, submitting, armed, polls, asked>>
    BY <1>1 DEF Engine, pageVars
  <2>3. asked \subseteq Bookings
    BY DEF PageInv, PageTypeOK
  <2>4. PageTypeOK'
    BY <2>1, <2>2 DEF PageInv, PageTypeOK
  <2>5. ShownIsReal'
    BY <2>1, <2>2, <2>3 DEF PageInv, PageTypeOK, SaleTypeOK, ShownIsReal, DecisionsStay, Decided
  <2>6. \A p \in polls' : FetchIsReal(p)'
    BY <2>1, <2>2, <2>3 DEF PageInv, FetchIsReal, DecisionsStay, Decided
  <2>7. OneChainPerBooking'
    BY <2>2 DEF PageInv, OneChainPerBooking
  <2> QED
    BY <2>2, <2>4, <2>5, <2>6, <2>7 DEF PageInv
<1>2. ASSUME NEW b \in Bookings, PollMoves(b) PROVE PageInv'
  <2> PICK p \in polls : PollReads(p) \/ PollAnswers(p) \/ PollFails(p)
    BY <1>2 DEF PollMoves
  <2>1. CASE PollFails(p)
    BY <2>1, AgainKeeps DEF PollFails
  <2> QED
    BY <2>1, ReadKeeps, AnswerKeeps
<1>3. CASE UNCHANGED bookVars
  BY <1>3
  DEF bookVars, pageVars, saleVars, PageInv, PageTypeOK, SaleTypeOK, FetchIsReal, ShownIsReal,
      OneChainPerBooking
<1> QED
  BY <1>1, <1>2, <1>3, UserKeeps, PostKeeps, TimerKeeps DEF PageNext

\* A fresh page follows nothing.
LEMMA PageStart == PageInit => PageInv
<1> SUFFICES ASSUME PageInit PROVE PageInv
  OBVIOUS
<1>1. Idle \in Outcomes /\ Idle.kind = "idle"
  BY PollAssumption DEF Idle, Outcomes, Failures
<1>2. PageTypeOK
  BY <1>1 DEF PageInit, SaleInit, PageTypeOK, SaleTypeOK, Outcomes
<1> QED
  BY <1>1, <1>2 DEF PageInit, PageInv, ShownIsReal, OneChainPerBooking

\* Every variable of the page keeps its type: no poll is counted past POLL_MAX.
THEOREM PageTyping == PageSpec => []PageTypeOK
<1>1. PageInv => PageTypeOK
  BY DEF PageInv
<1> QED
  BY PageStart, PageStep, <1>1, PTL DEF PageSpec

\* What the page shows of a booking is what became of it, however late the answer
\* came and whatever the user did meanwhile.
THEOREM PageTellsTheTruth == PageSpec => []ShownIsReal
<1>1. PageInv => ShownIsReal
  BY DEF PageInv
<1> QED
  BY PageStart, PageStep, <1>1, PTL DEF PageSpec

\* Each booking is followed by one chain of polls.
THEOREM PageFollowsOnce == PageSpec => []OneChainPerBooking
<1>1. PageInv => OneChainPerBooking
  BY DEF PageInv
<1> QED
  BY PageStart, PageStep, <1>1, PTL DEF PageSpec
=============================================================================
