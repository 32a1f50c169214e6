-------------------------------- MODULE Sites --------------------------------
(***************************************************************************)
(* A publisher's site: the PublisherSite row of one domain.  It comes into *)
(* being verified, by an ads.txt file that the publisher has fetched when  *)
(* adding the website, or by an ad request whose Referer names the domain. *)
(* Both await between what they read and what they write.                  *)
(***************************************************************************)
EXTENDS Naturals, FiniteSets

CONSTANTS
  Formats,      \* ad units the dialog offers
  Submissions,  \* times the publisher adds the website
  Pings         \* ad requests that come from the domain

VARIABLES
  site,        \* the row, or NoSite
  zones,       \* zones[f]: how many zones of the format belong to the site
  submission,  \* submission[s]: a submitted form, and its handlers
  ping,        \* ping[p]: an auto-verification, started and not awaited by serve
  passed       \* history: ad requests that had found no verified row when the
               \* row's last ads.txt verification was written

siteVars == <<site, zones, submission, ping, passed>>

NoSite == [method |-> "none", adsTxt |-> FALSE, status |-> "none"]

\* No writer makes a row that is not verified; adsTxt says that adsTxtUrl and
\* expectedText are there.
SiteRows == [method: {"ADS_TXT", "AD_SNIPPET"}, adsTxt: BOOLEAN, status: {"ACTIVE", "INACTIVE"}]

NewForm == [at |-> "unused", creating |-> {}, failures |-> {}]

SitesTypeOK ==
  /\ site \in SiteRows \cup {NoSite}
  /\ zones \in [Formats -> 0..Cardinality(Submissions)]
  /\ submission \in [Submissions ->
       [at: {"unused", "fetching", "verified", "added", "done"},
        creating: SUBSET Formats, failures: SUBSET Formats]]
  /\ ping \in [Pings -> {"unused", "started", "unverified", "done"}]
  /\ passed \subseteq Pings

SitesInit ==
  /\ site = NoSite
  /\ zones = [f \in Formats |-> 0]
  /\ submission = [s \in Submissions |-> NewForm]
  /\ ping = [p \in Pings |-> "unused"]
  /\ passed = {}

MoveTo(s, at) == submission' = [submission EXCEPT ![s].at = at]

-----------------------------------------------------------------------------
(* AddWebsiteDialog, and validateDomain behind it.                         *)

\* The dialog can be closed and opened again while a submission runs.
SubmitWebsite(s) ==
  /\ submission[s].at = "unused"
  /\ \E chosen \in SUBSET Formats :
       submission' = [submission EXCEPT ![s] = [NewForm EXCEPT !.at = "fetching",
                                                             !.creating = chosen]]
  /\ UNCHANGED <<site, zones, ping, passed>>

\* fetch of ads.txt: unreachable, not found, without the text, or verified.
FetchAdsTxt(s) ==
  /\ submission[s].at = "fetching"
  /\ \/ MoveTo(s, "verified")
     \/ submission' = [submission EXCEPT ![s] = [NewForm EXCEPT !.at = "done"]]
  /\ UNCHANGED <<site, zones, ping, passed>>

\* The upsert; a row that exists keeps its status.
ValidateDomain(s) ==
  /\ submission[s].at = "verified"
  /\ site' = [method |-> "ADS_TXT", adsTxt |-> TRUE,
              status |-> IF site = NoSite THEN "ACTIVE" ELSE site.status]
  /\ passed' = {p \in Pings : ping[p] = "unverified"}
  /\ MoveTo(s, "added")
  /\ UNCHANGED <<zones, ping>>

\* createAdZone for every checked format at once: each succeeds or fails alone.
CreateZone(s, f) ==
  /\ submission[s].at = "added" /\ f \in submission[s].creating
  /\ \E created, answered \in BOOLEAN :
       /\ zones' = IF created THEN [zones EXCEPT ![f] = @ + 1] ELSE zones
       /\ submission' = [submission EXCEPT ![s].creating = @ \ {f},
            ![s].failures = IF created /\ answered THEN @ ELSE @ \cup {f}]
  /\ UNCHANGED <<site, ping, passed>>

\* onCreated, with a word on the formats that failed.
Added(s) ==
  /\ submission[s].at = "added" /\ submission[s].creating = {}
  /\ MoveTo(s, "done")
  /\ UNCHANGED <<site, zones, ping, passed>>

\* The site's answer comes too late for the browser, or the page is left: the
\* zones not yet asked for are not created.
GiveUp(s) ==
  /\ submission[s].at = "added"
  /\ submission' = [submission EXCEPT ![s].at = "done", ![s].creating = {}]
  /\ UNCHANGED <<site, zones, ping, passed>>

-----------------------------------------------------------------------------
(* SiteAutoVerificationService.                                            *)

\* A request of one of the publisher's zones that cleared fraud detection.
Serve(p) ==
  /\ ping[p] = "unused"
  /\ ping' = [ping EXCEPT ![p] = "started"]
  /\ UNCHANGED <<site, zones, submission, passed>>

MutAlreadyVerified == site.method = "AD_SNIPPET"

\* "Already verified (by either method)".
AlreadyVerified == site # NoSite

FindSite(p) ==
  /\ ping[p] = "started"
  /\ ping' = [ping EXCEPT ![p] = IF AlreadyVerified THEN "done" ELSE "unverified"]
  /\ UNCHANGED <<site, zones, submission, passed>>

\* The upsert, whose update says nothing of the ads.txt columns.
VerifyFromRequestHeader(p) ==
  /\ ping[p] = "unverified"
  /\ site' = IF site = NoSite
               THEN [method |-> "AD_SNIPPET", adsTxt |-> FALSE, status |-> "ACTIVE"]
               ELSE [site EXCEPT !.method = "AD_SNIPPET"]
  /\ ping' = [ping EXCEPT ![p] = "done"]
  /\ UNCHANGED <<zones, submission, passed>>

\* "Best-effort": an error is logged.
VerificationFails(p) ==
  /\ ping[p] \in {"started", "unverified"}
  /\ ping' = [ping EXCEPT ![p] = "done"]
  /\ UNCHANGED <<site, zones, submission, passed>>

-----------------------------------------------------------------------------
\* updateSite and deactivateSite of the publisher, updateSiteStatus of an admin:
\* each finds the row, which is never deleted, and writes the status by id.
UpdateSiteStatus ==
  /\ site # NoSite
  /\ \E status \in {"ACTIVE", "INACTIVE"} : site' = [site EXCEPT !.status = status]
  /\ UNCHANGED <<zones, submission, ping, passed>>

SitesNext ==
  \/ \E s \in Submissions :
       \/ SubmitWebsite(s) \/ FetchAdsTxt(s) \/ ValidateDomain(s)
       \/ Added(s) \/ GiveUp(s)
       \/ \E f \in Formats : CreateZone(s, f)
  \/ \E p \in Pings :
       Serve(p) \/ FindSite(p) \/ VerifyFromRequestHeader(p) \/ VerificationFails(p)
  \/ UpdateSiteStatus

SitesSpec == SitesInit /\ [][SitesNext]_siteVars

-----------------------------------------------------------------------------
\* "Don't downgrade/overwrite an ads.txt verification's metadata": the ads.txt
\* columns, "only populated for ADS_TXT verifications", agree with the method,
\* unless an ad request that had found no verified row was on its way while
\* ads.txt was verified, and wrote after it.  A later verification by ads.txt
\* repairs the row.
AdsTxtIsKept ==
  site # NoSite /\ site.adsTxt # (site.method = "ADS_TXT") =>
    \E p \in passed : ping[p] = "done"
=============================================================================
