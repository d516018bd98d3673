------------------------------ MODULE LivePanels ------------------------------
(***************************************************************************)
(* What the operator and the buyer watch: the panels of /ops and the seat  *)
(* grid of /book, each polling an endpoint on a timer.  A poll does not    *)
(* wait for the one before it, so answers overlap and arrive in any order; *)
(* some panels restart when the admin secret is edited.                    *)
(*                                                                         *)
(* The panels share the secret and nothing else: `panel`, one of them, is  *)
(* modelled at a time.  What an endpoint reads is a version of its source. *)
(***************************************************************************)
EXTENDS Naturals, Sequences

CONSTANTS
  Flights,      \* bound: polls of a panel under way at once
  MaxVersion,   \* bound: changes of the source
  MaxGens,      \* bound: edits of the secret and reloads of the page
  MaxFails,     \* bound: answers that are errors though the secret is right
  NoFlight, NoSecret, NoVersion

ASSUME PanelsAssumption ==
  MaxVersion \in Nat /\ MaxGens \in Nat /\ MaxFails \in Nat /\ NoVersion \notin Nat

Panels == {"stats", "recent", "dlq", "insight", "seats"}
Gated  == {"stats", "recent", "dlq"}       \* need the admin secret
Shared == {"insight", "seats"}             \* answers a CDN keeps

\* Reads an endpoint makes, each a statement of its own.
Statements == [p \in Panels |-> IF p = "stats" THEN 4 ELSE 1]

Secrets == {"right", "wrong"}

VARIABLES
  panel,      \* the panel that is watched
  version,    \* the version of its source
  edge,       \* the version the CDN keeps
  secret,     \* the secret input
  saved,      \* sessionStorage admin_secret
  gen,        \* runs of the panel's effect so far
  flight,     \* the polls under way
  shown,      \* what the panel shows, and the effect run that asked for it
  fails,
  busy,       \* an admin call holds the buttons
  calls       \* admin calls of this page under way

panelVars == <<panel, version, edge, secret, saved, gen, flight, shown, fails, busy, calls>>
pollVars  == <<edge, flight, shown, fails>>
pageVars  == <<secret, saved, gen>>
callVars  == <<busy, calls>>

PanelTypeOK ==
  /\ panel \in Panels
  /\ version \in 0 .. MaxVersion
  /\ edge \in 0 .. MaxVersion \cup {NoVersion}
  /\ {secret, saved} \subseteq Secrets \cup {NoSecret}
  /\ gen \in 0 .. MaxGens
  /\ DOMAIN flight = Flights
  /\ \A k \in Flights : flight[k] # NoFlight =>
       /\ flight[k].gen \in 0 .. gen
       /\ flight[k].read \in Seq(0 .. version)
       /\ Len(flight[k].read) <= Statements[panel]
  /\ shown.gen \in 0 .. gen
  /\ shown.read # <<>> => Len(shown.read) = Statements[panel]
  /\ fails \in 0 .. MaxFails
  /\ calls \in {0, 1}

PanelInit ==
  /\ panel \in Panels
  /\ version = 0
  /\ edge = NoVersion
  /\ secret = NoSecret
  /\ saved = NoSecret
  /\ gen = 0
  /\ flight = [k \in Flights |-> NoFlight]
  /\ shown = [gen |-> 0, read |-> <<>>]
  /\ fails = 0
  /\ busy = FALSE
  /\ calls = 0

\* The panel's effect is running.
Polled == panel \notin Gated \/ secret # NoSecret

-----------------------------------------------------------------------------
(* The page. *)

\* Editing the secret stops the gated panels' effects and, unless the input is
\* now empty, starts them again; the panels go on showing what they have.
EditSecret(s) ==
  /\ s # secret /\ gen < MaxGens
  /\ secret' = s
  /\ saved' = IF s = NoSecret THEN saved ELSE s
  /\ gen' = IF panel \in Gated THEN gen + 1 ELSE gen
  /\ UNCHANGED <<panel, version, pollVars, callVars>>

\* The button of /ops, or the browser's.  The polls' answers go nowhere; an admin
\* call goes on without the page.
Reload ==
  /\ gen < MaxGens
  /\ gen' = gen + 1
  /\ secret' = saved
  /\ flight' = [k \in Flights |-> NoFlight]
  /\ shown' = [gen |-> gen + 1, read |-> <<>>]
  /\ busy' = FALSE
  /\ calls' = 0
  /\ UNCHANGED <<panel, version, edge, saved, fails>>

\* The effect's first tick, without the interval.
BugPoll(k) ==
  /\ Polled /\ flight[k] = NoFlight /\ shown.read = <<>>
  /\ flight' = [flight EXCEPT ![k] = [gen |-> gen, key |-> secret, read |-> <<>>]]
  /\ UNCHANGED <<panel, version, edge, shown, fails, pageVars, callVars>>

Poll(k) ==
  /\ Polled /\ flight[k] = NoFlight
  /\ flight' = [flight EXCEPT ![k] = [gen |-> gen, key |-> secret, read |-> <<>>]]
  /\ UNCHANGED <<panel, version, edge, shown, fails, pageVars, callVars>>

\* The cleanup forgets `alive = false`.
BugAlive(f) == TRUE

Alive(f) == panel \in Gated => f.gen = gen

Land(k) == flight' = [flight EXCEPT ![k] = NoFlight]

Show(k) ==
  /\ flight[k] # NoFlight
  /\ Len(flight[k].read) = Statements[panel]
  /\ shown' = IF Alive(flight[k])
              THEN [gen |-> flight[k].gen, read |-> flight[k].read] ELSE shown
  /\ Land(k)
  /\ UNCHANGED <<panel, version, edge, fails, pageVars, callVars>>

\* 401 for a wrong secret; 429, 502, 503 or no answer with the right one.  The
\* panel ignores them all.
Ignore(k) ==
  /\ flight[k] # NoFlight
  /\ \/ panel \in Gated /\ flight[k].key = "wrong" /\ fails' = fails
     \/ fails < MaxFails /\ fails' = fails + 1
  /\ Land(k)
  /\ UNCHANGED <<panel, version, edge, shown, pageVars, callVars>>

\* disabled={!adminSecret}
BugPressable == secret # NoSecret /\ calls < 2

\* disabled={busy !== null || !adminSecret}
Pressable == secret # NoSecret /\ ~busy

\* Simulate, kill, reset.
Press ==
  /\ Pressable
  /\ busy' = TRUE
  /\ calls' = calls + 1
  /\ UNCHANGED <<panel, version, pollVars, pageVars>>

\* An answer, whatever its status, or an exception; then finally.
CallEnds ==
  /\ calls > 0
  /\ calls' = calls - 1
  /\ busy' = FALSE
  /\ UNCHANGED <<panel, version, pollVars, pageVars>>

-----------------------------------------------------------------------------
(* The endpoints. *)

SourceChanges ==
  /\ version < MaxVersion
  /\ version' = version + 1
  /\ UNCHANGED <<panel, pollVars, pageVars, callVars>>

Reads(k, v) ==
  flight' = [flight EXCEPT ![k].read = Append(@, v)]

\* requireAdmin, then one statement after the other.
ReadGated(k) ==
  /\ panel \in Gated
  /\ flight[k] # NoFlight
  /\ flight[k].key = "right"
  /\ Len(flight[k].read) < Statements[panel]
  /\ Reads(k, version)
  /\ UNCHANGED <<panel, version, edge, shown, fails, pageVars, callVars>>

\* s-maxage=1, stale-while-revalidate=5: the CDN answers with what it keeps, or
\* asks and keeps the answer.
ReadShared(k) ==
  /\ panel \in Shared
  /\ flight[k] # NoFlight /\ flight[k].read = <<>>
  /\ IF edge = NoVersion
     THEN Reads(k, version) /\ edge' = version
     ELSE Reads(k, edge) /\ UNCHANGED edge
  /\ UNCHANGED <<panel, version, shown, fails, pageVars, callVars>>

\* The answer is revalidated, or too old to be served.
EdgeRefreshes ==
  /\ edge \notin {NoVersion, version}
  /\ edge' \in {NoVersion, version}
  /\ UNCHANGED <<panel, version, flight, shown, fails, pageVars, callVars>>

FlightNext(k) == ReadGated(k) \/ ReadShared(k) \/ Show(k) \/ Ignore(k)

PanelNext ==
  \/ \E s \in Secrets \cup {NoSecret} : EditSecret(s)
  \/ Reload
  \/ Press \/ CallEnds
  \/ \E k \in Flights : Poll(k) \/ FlightNext(k)
  \/ SourceChanges \/ EdgeRefreshes

PanelSpec == PanelInit /\ [][PanelNext]_panelVars

\* The interval ticks, every poll ends, the CDN keeps an answer for six seconds.
PanelFairness ==
  /\ WF_panelVars(\E k \in Flights : Poll(k))
  /\ \A k \in Flights : WF_panelVars(FlightNext(k))
  /\ WF_panelVars(EdgeRefreshes)

PanelFairSpec == PanelSpec /\ PanelFairness

-----------------------------------------------------------------------------
(* What must hold. *)

\* What was asked for with an earlier secret never replaces what was asked for
\* with a later one, however late it arrives.
NoAnswerFromThePast == [][shown'.gen >= shown.gen]_panelVars

\* The buttons are held exactly while a call of this page is under way: two
\* simulations, resets or kills never overlap, and no end of one frees the
\* buttons under another.
BusyMeansCall == busy = (calls > 0)

\* An answer may replace a newer one, and a reading at the CDN may be old.  Still,
\* once the source rests and the secret is the right one, a panel ends up showing
\* the source as it is, and goes on doing so.
Current == shown.read = [i \in 1 .. Statements[panel] |-> version]

PanelsCatchUp == <>[]((panel \in Gated => secret = "right") => Current)

\* "single-shot DB snapshot": live-stats shows the four numbers of one moment.
\* Its four statements see four moments.
SingleShot == \A i, j \in DOMAIN shown.read : shown.read[i] = shown.read[j]

\* A panel never goes back to an older reading.  It does: answers overtake.
NeverGoesBack ==
  [][shown'.gen = shown.gen /\ shown.read # <<>> => shown'.read[1] >= shown.read[1]]_panelVars
=============================================================================
