-------------------------------- MODULE Views --------------------------------
(***************************************************************************)
(* The data views of the web app: lists, dialogs, sheets and reports that  *)
(* load rows for a key (a filter, a search, an id, a date range) and may   *)
(* change them.  They share one machine, loading and writing through       *)
(* apiFetch, and differ in what they do on a new key, on a late answer and *)
(* after a write; a view is the record of those differences.               *)
(*                                                                         *)
(* A row is reduced to the number of changes it has been through, which is *)
(* what the handlers of the other modules do to it; a final row changes    *)
(* once (a review, a settlement, a notification that was read).            *)
(***************************************************************************)
EXTENDS Naturals, FiniteSets

CONSTANTS
  ViewKeys,    \* what a view can be asked for
  ViewRows,    \* the rows it shows
  NoKey,       \* a dialog that is closed, or a row that is not chosen
  MaxAsks,     \* bound on loads the user starts
  MaxWrites,   \* bound on changes of the rows
  MaxLapses    \* bound on requests that fail or are given up after 20 s

ASSUME ViewAssumption ==
  /\ ViewKeys # {} /\ NoKey \notin ViewKeys \cup ViewRows
  /\ MaxWrites \in Nat \ {0} /\ {MaxAsks, MaxLapses} \subseteq Nat

-----------------------------------------------------------------------------
(* The views.                                                              *)

\* keyed: the key changes what is loaded; again: the same key can be loaded
\* again; typed: 250 ms after the last key only; closable: a dialog opened for
\* a key; clears: it forgets its data on closing; hides: a skeleton while
\* loading; cancels: a new key or closing discards what is still in flight;
\* after: what a write that succeeded does, and with two kinds of write what
\* either does; final: a row changes once;
\* dialog: a write is confirmed in a dialog, with a text typed there;
\* uploads: that text can be the address of a file being uploaded.
Report == [keyed |-> TRUE, again |-> TRUE, typed |-> FALSE, closable |-> FALSE,
           clears |-> FALSE, hides |-> TRUE, cancels |-> FALSE, after |-> "none",
           final |-> FALSE, dialog |-> FALSE, uploads |-> FALSE]

AnalyticsDashboard == Report
RevenuePanel == Report
TrafficQualityPanel == Report
StatisticsPage == Report
PublisherStatisticsPage == Report

List == [Report EXCEPT !.hides = FALSE, !.again = FALSE]

UsersPanel == List
PublishersPanel == [List EXCEPT !.typed = TRUE]
AdvertisersPanel == PublishersPanel
CampaignReviewPanel == [List EXCEPT !.after = "patch", !.final = TRUE, !.dialog = TRUE]
PayoutsPanel == CampaignReviewPanel
SitesPanel == [List EXCEPT !.after = "patch"]

Page == [List EXCEPT !.keyed = FALSE]

CampaignManager == [Page EXCEPT !.again = TRUE, !.after = "patch"]
CampaignEditDialog == [CampaignManager EXCEPT !.dialog = TRUE, !.uploads = TRUE]
WebsitesPage == [Page EXCEPT !.after = "patch"]
BlacklistPanel == [Page EXCEPT !.after = "patch or reload", !.hides = TRUE]
AdvertiserWalletPage == [Page EXCEPT !.after = "reload"]
PublisherEarningsPage == AdvertiserWalletPage
NotificationsBell == [Page EXCEPT !.again = TRUE, !.after = "optimistic", !.final = TRUE]
MoneyFlowPanel == [Page EXCEPT !.hides = TRUE]
PublisherCountryReport == [MoneyFlowPanel EXCEPT !.cancels = TRUE]
AdvertiserCountryReport == PublisherCountryReport
AdminOverview == [PublisherCountryReport EXCEPT !.again = TRUE]
AdvertiserOverview == AdminOverview
PublisherOverview == [AdminOverview EXCEPT !.hides = FALSE]

Sheet == [Report EXCEPT !.again = FALSE, !.closable = TRUE]

PublisherDetailSheet == Sheet
AdvertiserDetailSheet == Sheet
CampaignPerformanceDialog == [Sheet EXCEPT !.again = TRUE, !.clears = TRUE]
ZonePerformanceDialog == CampaignPerformanceDialog
CampaignFinancialsDialog == [Sheet EXCEPT !.clears = TRUE, !.cancels = TRUE]
ZoneSnippetDialog == CampaignFinancialsDialog

Views ==
  {AnalyticsDashboard, RevenuePanel, TrafficQualityPanel, StatisticsPage,
   PublisherStatisticsPage, UsersPanel, PublishersPanel, AdvertisersPanel,
   CampaignReviewPanel, PayoutsPanel, SitesPanel, CampaignManager, CampaignEditDialog,
   WebsitesPage, BlacklistPanel, AdvertiserWalletPage, PublisherEarningsPage,
   NotificationsBell, MoneyFlowPanel, PublisherCountryReport, AdvertiserCountryReport,
   AdminOverview, AdvertiserOverview, PublisherOverview, PublisherDetailSheet,
   AdvertiserDetailSheet, CampaignPerformanceDialog, ZonePerformanceDialog,
   CampaignFinancialsDialog, ZoneSnippetDialog}

-----------------------------------------------------------------------------
VARIABLES
  view,     \* the view, which never changes
  server,   \* server[r]: how often row r has changed
  asked,    \* the key last loaded, or NoKey
  timer,    \* the key typed, not loaded yet
  fetches,  \* GETs in flight; live if the answer will be used
  loading,
  shows,    \* the key and the rows shown
  target,   \* the row the confirmation dialog is open for
  text,     \* the row its text was typed for
  upload,   \* the row a file is being uploaded for
  writes,   \* writes in flight
  acked,    \* acked[r]: the latest change of r this view was told it made
  asks, lapses,
  overtaken, crossed, strayed, failed  \* history, see the properties

loadVars == <<asked, fetches, loading>>
dialogVars == <<target, text, upload, strayed>>
viewVars == <<view, server, asked, timer, fetches, loading, shows, target, text, upload,
              writes, acked, asks, lapses, overtaken, crossed, strayed, failed>>

Counts == [ViewRows -> 0..MaxWrites]
NoChanges == [r \in ViewRows |-> 0]
Nothing == [key |-> NoKey, rows |-> NoChanges]
Choice == ViewRows \cup {NoKey}

ViewTypeOK ==
  /\ view \in Views
  /\ server \in Counts /\ acked \in Counts
  /\ {asked, timer} \subseteq ViewKeys \cup {NoKey}
  /\ fetches \subseteq [key: ViewKeys, at: {"sent", "read"}, rows: Counts, live: BOOLEAN]
  /\ \A f, g \in fetches : f.key = g.key => f = g
  /\ shows \in [key: ViewKeys \cup {NoKey}, rows: Counts]
  /\ {target, text, upload} \subseteq Choice
  /\ writes \subseteq [row: ViewRows, text: Choice, at: {"sent", "ok", "refused"},
                       count: 0..MaxWrites, waiting: BOOLEAN]
  /\ asks \in 0..MaxAsks /\ lapses \in 0..MaxLapses
  /\ {loading, overtaken, crossed, strayed, failed} \subseteq BOOLEAN

-----------------------------------------------------------------------------
(* Loading.                                                                *)

\* inFlightGetRequests: a GET of the same path that is still in flight is shared.
InFlight(k) == {f \in fetches : f.key = k}

\* Where the effect's cleanup sets cancelled, the answers of other keys are
\* discarded.
Fetch(k) ==
  LET others == fetches \ InFlight(k)
      unused(f) == [f EXCEPT !.live = @ /\ ~view.cancels]
  IN {unused(f) : f \in others} \cup
     IF InFlight(k) = {} THEN {[key |-> k, at |-> "sent", rows |-> NoChanges, live |-> TRUE]}
     ELSE {[f EXCEPT !.live = TRUE] : f \in InFlight(k)}

load(k) ==
  /\ asked' = k
  /\ fetches' = Fetch(k)
  /\ loading' = TRUE

ViewInit ==
  /\ view \in Views
  /\ server = NoChanges /\ acked = NoChanges
  /\ timer = NoKey
  /\ LET first == CHOOSE k \in ViewKeys : TRUE IN
       /\ asked = IF view.closable THEN NoKey ELSE first
       /\ fetches = IF view.closable THEN {}
                    ELSE {[key |-> first, at |-> "sent", rows |-> NoChanges, live |-> TRUE]}
  /\ loading = ~view.closable
  /\ shows = Nothing
  /\ target = NoKey /\ text = NoKey /\ upload = NoKey
  /\ writes = {}
  /\ asks = 0 /\ lapses = 0
  /\ overtaken = FALSE /\ crossed = FALSE /\ strayed = FALSE /\ failed = FALSE

Asks(k) ==
  /\ asks < MaxAsks /\ asks' = asks + 1
  /\ ~view.keyed => k = asked
  /\ k = asked => view.again

\* A filter, Apply, a poll, a refresh token, or a row opened in a dialog.
Ask(k) ==
  /\ ~view.typed /\ Asks(k)
  /\ view.closable => asked \in {NoKey, k}
  /\ load(k)
  /\ UNCHANGED <<view, server, timer, shows, dialogVars, writes, acked, lapses, overtaken,
                 crossed, failed>>

\* A search, loaded when the typing stops.
Type(k) ==
  /\ view.typed /\ k # timer
  /\ asks < MaxAsks /\ asks' = asks + 1
  /\ timer' = k
  /\ UNCHANGED <<view, server, loadVars, shows, dialogVars, writes, acked, lapses,
                 overtaken, crossed, failed>>

TypingStops ==
  /\ timer # NoKey
  /\ load(timer)
  /\ timer' = NoKey
  /\ UNCHANGED <<view, server, shows, dialogVars, writes, acked, asks, lapses, overtaken,
                 crossed, failed>>

Close ==
  /\ view.closable /\ asked # NoKey
  /\ asked' = NoKey
  /\ fetches' = {[f EXCEPT !.live = @ /\ ~view.cancels] : f \in fetches}
  /\ shows' = IF view.clears THEN Nothing ELSE shows
  /\ UNCHANGED <<view, server, timer, loading, dialogVars, writes, acked, asks, lapses,
                 overtaken, crossed, failed>>

ServerReads(f) ==
  /\ f.at = "sent"
  /\ fetches' = (fetches \ {f}) \cup {[f EXCEPT !.at = "read", !.rows = server]}
  /\ UNCHANGED <<view, server, asked, timer, loading, shows, dialogVars, writes, acked, asks,
                 lapses, overtaken, crossed, failed>>

MutUsed(f) == TRUE

\* if (cancelled) return.
Used(f) == f.live

\* setRows, then setLoading(false), whatever was asked for since.
Answer(f) ==
  /\ f.at = "read"
  /\ fetches' = fetches \ {f}
  /\ IF Used(f)
       THEN /\ shows' = [key |-> f.key, rows |-> f.rows]
            /\ loading' = FALSE
            /\ overtaken' = (overtaken \/ f.key # asked)
            /\ crossed' = (crossed \/ (view.after = "optimistic" /\ writes # {}))
       ELSE UNCHANGED <<shows, loading, overtaken, crossed>>
  /\ UNCHANGED <<view, server, asked, timer, dialogVars, writes, acked, asks, lapses,
                 failed>>

\* An error is toasted and what was shown stays.
FetchFails(f) ==
  /\ lapses < MaxLapses /\ lapses' = lapses + 1
  /\ fetches' = fetches \ {f}
  /\ loading' = IF Used(f) THEN FALSE ELSE loading
  /\ overtaken' = (overtaken \/ (Used(f) /\ f.key # asked))
  /\ failed' = TRUE
  /\ UNCHANGED <<view, server, asked, timer, shows, dialogVars, writes, acked, asks, crossed>>

-----------------------------------------------------------------------------
(* Writing.                                                                *)

\* The row's buttons: not while a write of it runs, which saving an edit does
\* not count as, nor once the row is final.
Offered(r) ==
  /\ view.after # "none" /\ shows # Nothing
  /\ view.uploads \/ \A w \in writes : w.row = r => ~w.waiting
  /\ view.final => shows.rows[r] = 0

SendWrite(r, t) ==
  /\ Cardinality(writes) < 2      \* bound
  /\ writes' = writes \cup {[row |-> r, text |-> t, at |-> "sent", count |-> 0,
                             waiting |-> TRUE]}

\* A row's button; a notification is shown as read before the server knows.
Press(r) ==
  /\ ~view.dialog /\ Offered(r)
  /\ SendWrite(r, NoKey)
  /\ shows' = IF view.after = "optimistic" THEN [shows EXCEPT !.rows[r] = 1] ELSE shows
  /\ crossed' = (crossed \/ (view.after = "optimistic" /\ fetches # {}))
  /\ UNCHANGED <<view, server, loadVars, timer, dialogVars, acked, asks, lapses, overtaken,
                 failed>>

OpenDialog(r) ==
  /\ view.dialog /\ target = NoKey /\ Offered(r)
  /\ target' = r
  /\ text' = IF view.uploads THEN NoKey ELSE text     \* form.reset
  /\ UNCHANGED <<view, server, loadVars, timer, shows, upload, strayed, writes, acked, asks,
                 lapses, overtaken, crossed, failed>>

TypeText ==
  /\ target # NoKey /\ text = NoKey
  /\ text' = target
  /\ UNCHANGED <<view, server, loadVars, timer, shows, target, upload, strayed, writes, acked,
                 asks, lapses, overtaken, crossed, failed>>

MutClosed == text

\* The reason or reference is cleared with the dialog.
Closed == IF view.uploads THEN text ELSE NoKey

CloseDialog ==
  /\ target # NoKey
  /\ target' = NoKey /\ text' = Closed
  /\ UNCHANGED <<view, server, loadVars, timer, shows, upload, strayed, writes, acked, asks,
                 lapses, overtaken, crossed, failed>>

Confirm ==
  /\ target # NoKey /\ Offered(target)
  /\ SendWrite(target, text)
  /\ UNCHANGED <<view, server, loadVars, timer, shows, dialogVars, acked, asks, lapses,
                 overtaken, crossed, failed>>

UploadStarts ==
  /\ view.uploads /\ target # NoKey /\ upload = NoKey
  /\ upload' = target
  /\ UNCHANGED <<view, server, loadVars, timer, shows, target, text, strayed, writes, acked,
                 asks, lapses, overtaken, crossed, failed>>

\* form.setValue on the form, whose campaign may be another by now.
UploadAnswered ==
  /\ upload # NoKey
  /\ text' = upload /\ upload' = NoKey
  /\ strayed' = (strayed \/ target # upload)
  /\ UNCHANGED <<view, server, loadVars, timer, shows, target, writes, acked, asks, lapses,
                 overtaken, crossed, failed>>

\* The handlers: a final row changes once, and then is refused or answered as it is.
ServerWrites(w) ==
  LET at(a, n) == writes' = (writes \ {w}) \cup {[w EXCEPT !.at = a, !.count = n]} IN
  /\ w.at = "sent"
  /\ IF view.final /\ server[w.row] > 0
       THEN /\ at("refused", 0) \/ at("ok", server[w.row])
            /\ UNCHANGED server
       ELSE /\ server[w.row] < MaxWrites
            /\ server' = [server EXCEPT ![w.row] = @ + 1]
            /\ at("ok", server[w.row] + 1)
  /\ UNCHANGED <<view, loadVars, timer, shows, dialogVars, acked, asks, lapses, overtaken,
                 crossed, failed>>

\* Another admin, the advertiser, the publisher or a job.
OtherWrites(r) ==
  /\ server[r] < MaxWrites /\ (view.final => server[r] = 0)
  /\ server' = [server EXCEPT ![r] = @ + 1]
  /\ UNCHANGED <<view, loadVars, timer, shows, dialogVars, writes, acked, asks, lapses,
                 overtaken, crossed, failed>>

MutWritten(w) == UNCHANGED <<shows, loadVars>>

\* applyUpdate on the row, or await load(): the blacklist drops an address that
\* was removed and reloads for one that was added.
Written(w) ==
  \/ view.after \in {"patch", "patch or reload"} /\ UNCHANGED loadVars
       /\ shows' = [shows EXCEPT !.rows[w.row] = w.count]
  \/ view.after \in {"reload", "patch or reload"} /\ load(asked) /\ UNCHANGED shows
  \/ view.after = "optimistic" /\ UNCHANGED <<shows, loadVars>>

WriteAnswered(w) ==
  /\ w.at = "ok" /\ w.waiting
  /\ writes' = writes \ {w}
  /\ acked' = [acked EXCEPT ![w.row] = IF w.count > @ THEN w.count ELSE @]
  /\ Written(w)
  /\ target' = NoKey /\ text' = IF view.dialog THEN Closed ELSE text
  /\ crossed' = (crossed \/ fetches # {} \/ w.count < acked[w.row])
  /\ UNCHANGED <<view, server, timer, upload, strayed, asks, lapses, overtaken, failed>>

\* Refused, or answered to nobody: the dialog stays, the buttons work again.
WriteEnds(w) ==
  /\ w.at = "refused" \/ (w.at = "ok" /\ ~w.waiting)
  /\ writes' = writes \ {w}
  /\ UNCHANGED <<view, server, loadVars, timer, shows, dialogVars, acked, asks, lapses,
                 overtaken, crossed, failed>>

GiveUpWrite(w) ==
  /\ w.waiting /\ lapses < MaxLapses /\ lapses' = lapses + 1
  /\ writes' = (writes \ {w}) \cup {[w EXCEPT !.waiting = FALSE]}
  /\ UNCHANGED <<view, server, loadVars, timer, shows, dialogVars, acked, asks, overtaken,
                 crossed, failed>>

-----------------------------------------------------------------------------
ViewNext ==
  \/ \E k \in ViewKeys : Ask(k) \/ Type(k)
  \/ TypingStops \/ Close
  \/ \E f \in fetches : ServerReads(f) \/ Answer(f) \/ FetchFails(f)
  \/ \E r \in ViewRows : Press(r) \/ OpenDialog(r) \/ OtherWrites(r)
  \/ TypeText \/ CloseDialog \/ Confirm \/ UploadStarts \/ UploadAnswered
  \/ \E w \in writes : ServerWrites(w) \/ WriteAnswered(w) \/ WriteEnds(w) \/ GiveUpWrite(w)

ViewSpec == ViewInit /\ [][ViewNext]_viewVars

-----------------------------------------------------------------------------
Visible == asked # NoKey /\ shows # Nothing /\ IF view.hides THEN ~loading ELSE fetches = {}

\* What a view shows is the answer to what it was asked last.  Only the views
\* that cancel guarantee it; in the others an answer, or a failure, that comes
\* after another key was asked for is taken for that key's.
ShownIsAsked ==
  Visible /\ shows.key # asked => (overtaken /\ ~view.cancels) \/ failed

\* A change the user was told of is shown.  Only a GET in flight when its
\* answer came can hide it, read before the change: it lands on the patch, or
\* the reload after the change shares it.  Two edits of a campaign can also be
\* answered in the other order, and a notification that was read can turn
\* unread until the next poll.
OwnWritesAreShown ==
  /\ fetches = {} /\ shows # Nothing
  /\ \E r \in ViewRows : shows.rows[r] < acked[r]
  => crossed \/ failed

\* A reason, a payout's reference or a creative's address is sent for the row
\* it was typed for, unless an upload ended in a dialog opened for another.  (With
\* the types of the variables.)
TextGoesToItsRow ==
  /\ ViewTypeOK
  /\ \A w \in writes : w.text \in {NoKey, w.row} \/ strayed
=============================================================================
