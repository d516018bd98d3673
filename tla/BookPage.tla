------------------------------- MODULE BookPage -------------------------------
(****************************************************************************)
(* The booking page: one dialog, one POST in flight at most, and a chain of *)
(* timers and fetches that polls GET /api/book/:jobId.  A timer is cleared  *)
(* when the outcome on screen changes; a fetch is not, and what it brings   *)
(* replaces whatever is on screen by then.                                  *)
(*                                                                          *)
(* The engine behind the page is SeatSale, which Reservation implements.    *)
(* The seat grid is left out: the page sends no seat to the engine.         *)
(****************************************************************************)
EXTENDS SeatSale, Naturals

CONSTANT
  POLL_MAX        \* 60 in the code

ASSUME PollAssumption == POLL_MAX \in Nat \ {0}

VARIABLES
  shown,          \* the page's outcome: what the dialog shows
  dialogOpen,
  submitting,     \* a POST is in flight
  armed,          \* the timer of the outcome on screen has not fired
  polls,          \* fetches in flight
  asked           \* bookings that exist

pageVars == <<shown, dialogOpen, submitting, armed, polls, asked>>
bookVars == <<saleVars, pageVars>>

Idle            == [kind |-> "idle",    job |-> NoBooking, seat |-> NoSeat, attempt |-> 0]
Polling(b, n)   == [kind |-> "polling", job |-> b, seat |-> NoSeat, attempt |-> n]
Success(b, s)   == [kind |-> "success", job |-> b, seat |-> s, attempt |-> 0]
Refused         == [kind |-> "refused", job |-> NoBooking, seat |-> NoSeat, attempt |-> 0]
TurnedDown(b)   == [kind |-> "down",    job |-> b, seat |-> NoSeat, attempt |-> 0]
TimedOut(b)     == [kind |-> "timeout", job |-> b, seat |-> NoSeat, attempt |-> 0]

\* kind: 'failure' in the code, told apart by their reason
Failures == {"refused", "down", "timeout"}

PageTypeOK ==
  /\ SaleTypeOK
  /\ shown \in [kind : {"idle", "polling", "success"} \cup Failures,
                job : Bookings \cup {NoBooking}, seat : Seats \cup {NoSeat},
                attempt : 0 .. POLL_MAX - 1]
  /\ dialogOpen \in BOOLEAN
  /\ submitting \in BOOLEAN
  /\ armed \in BOOLEAN
  /\ polls \subseteq [job : Bookings, attempt : 0 .. POLL_MAX - 1, seat : Seats \cup {NoSeat},
                      body : {"none", "OPEN", "CONFIRMED", "FAILED", "EXPIRED"}]
  /\ asked \subseteq Bookings

PageInit ==
  /\ SaleInit
  /\ shown = Idle
  /\ dialogOpen = FALSE
  /\ submitting = FALSE
  /\ armed = FALSE
  /\ polls = {}
  /\ asked = {}

\* setOutcome and the effect that follows it: the old timer is cleared, and a
\* new one started for an outcome that polls.
Show(o) ==
  /\ shown' = o
  /\ armed' = (o.kind = "polling")

\* One more poll than POLL_MAX.
BugPollAgain(b, n) == Show(IF n > POLL_MAX THEN TimedOut(b) ELSE Polling(b, n))

\* The effect gives up at POLL_MAX.
PollAgain(b, n) == Show(IF n >= POLL_MAX THEN TimedOut(b) ELSE Polling(b, n))

-----------------------------------------------------------------------------
(* The user. *)

\* The dialog is modal: the grid is out of reach while it is open.
OpenBooking ==
  /\ ~dialogOpen
  /\ dialogOpen' = TRUE
  /\ Show(Idle)
  /\ UNCHANGED <<saleVars, submitting, polls, asked>>

Submit ==
  /\ dialogOpen /\ shown.kind = "idle" /\ ~submitting
  /\ submitting' = TRUE
  /\ UNCHANGED <<saleVars, shown, dialogOpen, armed, polls, asked>>

\* Done, Close, Try Another Seat.
Dismiss ==
  /\ dialogOpen /\ shown.kind \in {"success"} \cup Failures
  /\ dialogOpen' = FALSE
  /\ Show(Idle)
  /\ UNCHANGED <<saleVars, submitting, polls, asked>>

\* Cancel, Escape, a click outside: the outcome stays and goes on polling.
CloseDialog ==
  /\ dialogOpen
  /\ dialogOpen' = FALSE
  /\ UNCHANGED <<saleVars, shown, submitting, armed, polls, asked>>

-----------------------------------------------------------------------------
(* POST /api/book. *)

PostAccepted(b) ==
  /\ submitting
  /\ b \notin asked
  /\ asked' = asked \cup {b}
  /\ submitting' = FALSE
  /\ Show(Polling(b, 0))
  /\ UNCHANGED <<saleVars, dialogOpen, polls>>

\* An error response, or none; the booking may exist all the same.
PostRefused ==
  /\ submitting
  /\ asked' = asked \/ \E b \in Bookings \ asked : asked' = asked \cup {b}
  /\ submitting' = FALSE
  /\ Show(Refused)
  /\ UNCHANGED <<saleVars, dialogOpen, polls>>

-----------------------------------------------------------------------------
(* GET /api/book/:jobId. *)

\* setInterval instead of setTimeout.
BugTimerFires ==
  /\ armed
  /\ polls' = polls \cup {[job |-> shown.job, attempt |-> shown.attempt,
                           seat |-> NoSeat, body |-> "none"]}
  /\ UNCHANGED <<saleVars, shown, dialogOpen, submitting, armed, asked>>

TimerFires ==
  /\ armed
  /\ armed' = FALSE
  /\ polls' = polls \cup {[job |-> shown.job, attempt |-> shown.attempt,
                           seat |-> NoSeat, body |-> "none"]}
  /\ UNCHANGED <<saleVars, shown, dialogOpen, submitting, asked>>

\* The endpoint reads the row; the page gets to see it later.
PollReads(p) ==
  /\ p.body = "none"
  /\ polls' = (polls \ {p}) \cup
       {[p EXCEPT !.body = outcome[p.job], !.seat = owns[p.job]]}
  /\ UNCHANGED <<saleVars, shown, dialogOpen, submitting, armed, asked>>

\* The answer is taken for the job on screen.
BugPollAnswers(p) ==
  /\ p.body # "none"
  /\ polls' = polls \ {p}
  /\ \/ p.body = "CONFIRMED" /\ Show(Success(shown.job, p.seat))
     \/ p.body \in {"FAILED", "EXPIRED"} /\ Show(TurnedDown(p.job))
     \/ p.body = "OPEN" /\ PollAgain(p.job, p.attempt + 1)
  /\ UNCHANGED <<saleVars, dialogOpen, submitting, asked>>

\* The attempt is not counted.
BugPollForever(p) ==
  /\ p.body # "none"
  /\ polls' = polls \ {p}
  /\ \/ p.body = "CONFIRMED" /\ Show(Success(p.job, p.seat))
     \/ p.body \in {"FAILED", "EXPIRED"} /\ Show(TurnedDown(p.job))
     \/ p.body = "OPEN" /\ PollAgain(p.job, p.attempt)
  /\ UNCHANGED <<saleVars, dialogOpen, submitting, asked>>

PollAnswers(p) ==
  /\ p.body # "none"
  /\ polls' = polls \ {p}
  /\ \/ p.body = "CONFIRMED" /\ Show(Success(p.job, p.seat))
     \/ p.body \in {"FAILED", "EXPIRED"} /\ Show(TurnedDown(p.job))
     \/ p.body = "OPEN" /\ PollAgain(p.job, p.attempt + 1)
  /\ UNCHANGED <<saleVars, dialogOpen, submitting, asked>>

\* A network error, a 404 or a 502: the page tries again.
PollFails(p) ==
  /\ polls' = polls \ {p}
  /\ PollAgain(p.job, p.attempt + 1)
  /\ UNCHANGED <<saleVars, dialogOpen, submitting, asked>>

-----------------------------------------------------------------------------
\* The engine, for bookings that exist.
Engine ==
  /\ \/ \E b \in asked, s \in Seats : Sell(b, s)
     \/ \E B \in SUBSET asked, why \in {"FAILED", "EXPIRED"} : B # {} /\ TurnDown(B, why)
  /\ UNCHANGED pageVars

User == OpenBooking \/ Submit \/ Dismiss \/ CloseDialog

PollMoves(b) ==
  \E p \in polls : p.job = b /\ (PollReads(p) \/ PollAnswers(p) \/ PollFails(p))

PageNext ==
  \/ User
  \/ \E b \in Bookings : PostAccepted(b) \/ PollMoves(b)
  \/ PostRefused
  \/ TimerFires
  \/ Engine

PageSpec == PageInit /\ [][PageNext]_bookVars

\* Timers fire and every fetch is answered or fails.  The user and the engine
\* need never act.
PageFairSpec ==
  /\ PageSpec
  /\ WF_bookVars(TimerFires)
  /\ \A b \in Bookings : WF_bookVars(PollMoves(b))

-----------------------------------------------------------------------------
(* What must hold. *)

\* What the page says of a booking is what became of it, also when the answer
\* comes late and belongs to an earlier booking: the seat it shows is the
\* booking's, and a booking it calls turned down was turned down.
ShownIsReal ==
  /\ shown.kind = "success" =>
       /\ shown.job \in asked
       /\ outcome[shown.job] = "CONFIRMED" /\ owns[shown.job] = shown.seat
  /\ shown.kind = "down" => outcome[shown.job] \in {"FAILED", "EXPIRED"}

\* One chain of polls per booking, whatever is opened, closed and submitted
\* meanwhile: at most one fetch, and none while the timer runs.
OneChainPerBooking ==
  \A p \in polls :
    /\ \A q \in polls : p.job = q.job => p = q
    /\ armed => shown.job # p.job

\* Never a hang: the spinner gives way to an outcome although nothing is assumed
\* of the engine and every answer may be late or lost.
PollingEnds == (shown.kind = "polling") ~> (shown.kind # "polling")

\* submit, then poll until terminal: the page does not drop a booking it follows
\* unless it shows how it ended, gives up on it, or the user goes elsewhere.
AcceptedIsFollowed ==
  [][\A b \in Bookings :
       (shown.kind = "polling" /\ shown.job = b /\ shown' # shown) =>
         shown'.job = b \/ OpenBooking]_bookVars
=============================================================================
