------------------------------- MODULE Zones -------------------------------
(***************************************************************************)
(* A publisher's ad zones: the rows, the PublisherService handlers that    *)
(* change them, and the zone manager in the browser.                       *)
(*                                                                         *)
(* Every handler reads the row (ownership and status check), awaits, and   *)
(* then updates it by id, so the check may be stale when the row is        *)
(* written.  The browser keeps its own copy of the list, disables a zone's *)
(* buttons while a status request of its own runs, and gives a request up  *)
(* after 20 s without stopping the handler.                                *)
(***************************************************************************)
EXTENDS Naturals, FiniteSets

CONSTANTS
  ZoneIds,    \* zones, those that exist at first and those still to be created
  Existing,   \* the ones that exist at first
  Tabs,       \* browser tabs showing the zone manager
  ZoneCalls   \* writing requests: the bound on what the publisher does

VARIABLES
  zone,     \* zone[z]: the AdZone row, with the number of its writes
  list,     \* view[t][z]: the row as the tab's list shows it
  busy,     \* busy[t]: the zones with an actionState
  zoneCall, \* zoneCall[c]: a writing request, its handler, and if the tab still waits
  listing   \* listing[t]: the tab's GET of the list, and the rows it read

zoneVars == <<zone, list, busy, zoneCall, listing>>

Statuses == {"ACTIVE", "PAUSED", "ARCHIVED"}

AD_ZONE_TRANSITIONS ==
  [ACTIVE |-> {"PAUSED", "ARCHIVED"}, PAUSED |-> {"ACTIVE", "ARCHIVED"}, ARCHIVED |-> {}]

NoZone == [status |-> "none", writes |-> 0]

Rows == [status: Statuses \cup {"none"}, writes: Nat]

UnusedCall == [at |-> "unused", kind |-> "none", tab |-> "nobody", zone |-> "none",
               to |-> "none", waiting |-> FALSE, reply |-> NoZone]

NotListing == [at |-> "none", rows |-> [z \in ZoneIds |-> NoZone]]

ZoneTypeOK ==
  /\ zone \in [ZoneIds -> Rows]
  /\ list \in [Tabs -> [ZoneIds -> Rows]]
  /\ busy \in [Tabs -> SUBSET ZoneIds]
  /\ zoneCall \in [ZoneCalls ->
       [at: {"unused", "sent", "checked", "answered", "done"},
        kind: {"none", "status", "edit", "create"},
        tab: Tabs \cup {"nobody"}, zone: ZoneIds \cup {"none"},
        to: Statuses \cup {"none"}, waiting: BOOLEAN, reply: Rows]]
  /\ listing \in [Tabs -> [at: {"none", "sent", "answered"}, rows: [ZoneIds -> Rows]]]

ZonesInit ==
  /\ zone = [z \in ZoneIds |->
       IF z \in Existing THEN [status |-> "ACTIVE", writes |-> 1] ELSE NoZone]
  /\ list = [t \in Tabs |-> [z \in ZoneIds |-> NoZone]]
  /\ busy = [t \in Tabs |-> {}]
  /\ zoneCall = [c \in ZoneCalls |-> UnusedCall]
  /\ listing = [t \in Tabs |-> [NotListing EXCEPT !.at = "sent"]]  \* on mount

-----------------------------------------------------------------------------
(* The browser: ad-zone-manager.tsx and the list of publisher-dashboard.   *)

Send(c, kind, t, z, to) ==
  /\ zoneCall[c].at = "unused"
  /\ zoneCall' = [zoneCall EXCEPT ![c] =
       [UnusedCall EXCEPT !.at = "sent", !.kind = kind, !.tab = t, !.zone = z, !.to = to,
                          !.waiting = TRUE]]

MutZoneActions(t, z) == list[t][z].status \in {"ACTIVE", "PAUSED"}

\* ZoneActions offers its buttons for a zone not archived and not busy.
ZoneActions(t, z) == list[t][z].status \in {"ACTIVE", "PAUSED"} /\ z \notin busy[t]

\* toggleStatus and confirmArchive.
SetStatus(c, t, z) ==
  /\ ZoneActions(t, z)
  /\ \E to \in {"ARCHIVED", IF list[t][z].status = "ACTIVE" THEN "PAUSED" ELSE "ACTIVE"} :
       Send(c, "status", t, z, to)
  /\ busy' = [busy EXCEPT ![t] = @ \cup {z}]
  /\ UNCHANGED <<zone, list, listing>>

\* ZoneEditDialog: no actionState, and the dialog can be closed while it saves.
Edit(c, t, z) ==
  /\ ZoneActions(t, z)
  /\ Send(c, "edit", t, z, "none")
  /\ UNCHANGED <<zone, list, busy, listing>>

\* onCreateZone; its button is disabled while the form submits.
Create(c, t) ==
  /\ \A d \in ZoneCalls :
       zoneCall[d].kind = "create" /\ zoneCall[d].tab = t => ~zoneCall[d].waiting
  /\ \E z \in ZoneIds : zone[z] = NoZone      \* bound: an id is left
  /\ Send(c, "create", t, "none", "none")
  /\ UNCHANGED <<zone, list, busy, listing>>

\* loadZones: an identical GET still in flight is shared, not sent again.
GetList(t) ==
  listing' = IF listing[t].at = "none" THEN [listing EXCEPT ![t].at = "sent"] ELSE listing

Settle(c, at) ==
  /\ zoneCall' = [zoneCall EXCEPT ![c].waiting = FALSE, ![c].at = at, ![c].reply = NoZone]
  /\ busy' = IF zoneCall[c].kind = "status"
               THEN [busy EXCEPT ![zoneCall[c].tab] = @ \ {zoneCall[c].zone}] ELSE busy

\* AbortSignal.timeout, or the answer is lost: an error, and the buttons work again.
GiveUp(c) ==
  /\ zoneCall[c].waiting
  /\ Settle(c, zoneCall[c].at)
  /\ UNCHANGED <<zone, list, listing>>

GiveUpList(t) ==
  /\ listing[t].at # "none"
  /\ listing' = [listing EXCEPT ![t] = NotListing]
  /\ UNCHANGED <<zone, list, busy, zoneCall>>

\* setZones(zs => zs.map(...)) with the answered row; a creation bumps
\* zoneListVersion, which loads the list again.
Receive(c) ==
  LET t == zoneCall[c].tab
      z == zoneCall[c].zone
      row == zoneCall[c].reply
      shows == zoneCall[c].kind # "create" /\ row # NoZone
  IN
  /\ zoneCall[c].at = "answered" /\ zoneCall[c].waiting
  /\ Settle(c, "done")
  /\ list' = IF shows THEN [list EXCEPT ![t][z] = row] ELSE list
  /\ IF zoneCall[c].kind = "create" THEN GetList(t) ELSE UNCHANGED listing
  /\ UNCHANGED zone

\* setZones(result.zones).
ReceiveList(t) ==
  /\ listing[t].at = "answered"
  /\ list' = [list EXCEPT ![t] = listing[t].rows]
  /\ listing' = [listing EXCEPT ![t] = NotListing]
  /\ UNCHANGED <<zone, busy, zoneCall>>

-----------------------------------------------------------------------------
(* The handlers of PublisherService.                                       *)

\* Owner's requests only: findOwnedZoneOrThrow never fails on these.
MayChange(c) ==
  LET status == zone[zoneCall[c].zone].status IN
  IF zoneCall[c].kind = "status" THEN zoneCall[c].to \in AD_ZONE_TRANSITIONS[status]
  ELSE status # "ARCHIVED"

\* findOwnedZoneOrThrow, then assertTransition or the archived check.
Check(c) ==
  /\ zoneCall[c].at = "sent" /\ zoneCall[c].kind \in {"status", "edit"}
  /\ zoneCall' = [zoneCall EXCEPT ![c].at = IF MayChange(c) THEN "checked" ELSE "answered"]
  /\ UNCHANGED <<zone, list, busy, listing>>

\* prisma.adZone.update by id, which returns the row.
Update(c) ==
  LET z == zoneCall[c].zone
      row == [status |-> IF zoneCall[c].kind = "status" THEN zoneCall[c].to
                         ELSE zone[z].status,
              writes |-> zone[z].writes + 1]
  IN
  /\ zoneCall[c].at = "checked"
  /\ zone' = [zone EXCEPT ![z] = row]
  /\ zoneCall' = [zoneCall EXCEPT ![c].at = "answered",
                                  ![c].reply = IF zoneCall[c].waiting THEN row ELSE NoZone]
  /\ UNCHANGED <<list, busy, listing>>

\* createAdZone of a zone without a site.
Insert(c) ==
  /\ zoneCall[c].at = "sent" /\ zoneCall[c].kind = "create"
  /\ \E z \in ZoneIds :
       /\ zone[z] = NoZone
       /\ zone' = [zone EXCEPT ![z] = [status |-> "ACTIVE", writes |-> 1]]
  /\ zoneCall' = [zoneCall EXCEPT ![c].at = "answered"]
  /\ UNCHANGED <<list, busy, listing>>

\* listAdZones.
ReadList(t) ==
  /\ listing[t].at = "sent"
  /\ listing' = [listing EXCEPT ![t] = [at |-> "answered", rows |-> zone]]
  /\ UNCHANGED <<zone, list, busy, zoneCall>>

-----------------------------------------------------------------------------
Browser ==
  \/ \E c \in ZoneCalls, t \in Tabs :
       Create(c, t) \/ \E z \in ZoneIds : SetStatus(c, t, z) \/ Edit(c, t, z)
  \/ \E t \in Tabs : GiveUpList(t) \/ ReceiveList(t)
  \/ \E c \in ZoneCalls : GiveUp(c) \/ Receive(c)

Server ==
  \/ \E c \in ZoneCalls : Check(c) \/ Update(c) \/ Insert(c)
  \/ \E t \in Tabs : ReadList(t)

ZonesNext == Browser \/ Server

ZonesSpec == ZonesInit /\ [][ZonesNext]_zoneVars

-----------------------------------------------------------------------------
\* Requests the tab timed out on, whose handlers run on.
GaveUp(t) ==
  \E c \in ZoneCalls : zoneCall[c].tab = t /\ zoneCall[c].at # "done" /\ ~zoneCall[c].waiting

\* "A final, permanent stop": an archived zone is changed only by a handler
\* that checked it before it was archived.  One tab cannot revive a zone by
\* itself, its buttons being disabled while a status request runs, unless it gave
\* a request up; its overlapping edits leave the status alone.
ArchivedChangesOnlyByOverlap ==
  [][\A z \in ZoneIds :
       zone[z].status = "ARCHIVED" /\ zone'[z] # zone[z] =>
         \E c \in ZoneCalls :
           /\ zoneCall[c].at = "checked" /\ zoneCall[c].zone = z
           /\ zoneCall'[c].at = "answered"
           /\ \/ zone'[z].status = "ARCHIVED"
              \/ \E d \in ZoneCalls :
                   zoneCall[d].to = "ARCHIVED" /\ zoneCall[d].tab # zoneCall[c].tab
              \/ GaveUp(zoneCall[c].tab)]_zoneVars
=============================================================================
