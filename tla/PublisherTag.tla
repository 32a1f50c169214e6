---------------------------- MODULE PublisherTag ----------------------------
(***************************************************************************)
(* publisher_tag.js on a publisher's page: each section asks /serve once,  *)
(* and its format decides when the creative is shown.  The formats that    *)
(* would annoy are shown once per session, which sessionStorage remembers  *)
(* from one page to the next of the same browser tab.                      *)
(***************************************************************************)
EXTENDS Naturals, FiniteSets

CONSTANTS
  Sections,   \* the [data-zone-id] elements of the page
  ZoneOf,     \* ZoneOf[s]: the zone of a section; sections may share one
  MaxLoads    \* bound on pages loaded

ASSUME TagAssumption == IsFiniteSet(Sections) /\ MaxLoads \in Nat

VARIABLES
  family,     \* family[z]: the render family of the zone's ads
  storage,    \* whether sessionStorage works
  seen,       \* its keys
  status,     \* status[s]: data-ad-network-status
  leaving,    \* an intercepted link, followed when the overlay's time is over
  loads,
  shown       \* history: shown[k]: how often the ads of a key were shown

tagVars == <<family, storage, seen, status, leaving, loads, shown>>

Zones == {ZoneOf[s] : s \in Sections}

Inline == {"inline", "sticky", "native", "video", "video_overlay"}
Windows == {"popup", "popunder"}
AtOnce == {"welcome_screen", "interstitial"}
Families == Inline \cup Windows \cup AtOnce
              \cup {"floating", "exit_intent", "page_transition", "newsletter"}

\* The sessionStorage key of a zone's ads: two families have one for the page.
Key(z) ==
  IF family[z] \in {"welcome_screen", "page_transition"} THEN <<family[z]>>
  ELSE IF family[z] \in Windows THEN <<"popup", z>>
  ELSE <<family[z], z>>

Keys == {Key(z) : z \in Zones}

TagTypeOK ==
  /\ family \in [Zones -> Families] /\ storage \in BOOLEAN
  /\ seen \subseteq Keys
  /\ status \in [Sections -> {"loading", "empty", "failed", "unsupported", "skipped",
                              "dismissed", "armed", "rendered"}]
  /\ leaving \in BOOLEAN /\ loads \in 0..MaxLoads
  /\ shown \in [Keys -> Nat]

TagInit ==
  /\ family \in [Zones -> {"inline", "floating", "popup", "exit_intent", "welcome_screen",
                           "interstitial", "page_transition", "newsletter"}]
  /\ storage \in BOOLEAN
  /\ seen = {}
  /\ status = [s \in Sections |-> "loading"]
  /\ leaving = FALSE /\ loads = 0
  /\ shown = [k \in Keys |-> 0]

MutHasSeen(k) == FALSE

\* "Fails open".
hasSeen(k) == k \in seen

markSeen(keys) == seen' = IF storage THEN seen \cup keys ELSE seen

\* These sections put their creatives on the screen.
Show(sections) ==
  shown' = [k \in Keys |-> shown[k] + Cardinality({s \in sections : Key(ZoneOf[s]) = k})]

\* boot on a new page: its sections ask again, its listeners are gone.
Load ==
  /\ loads < MaxLoads /\ loads' = loads + 1
  /\ status' = [s \in Sections |-> "loading"]
  /\ leaving' = FALSE
  /\ UNCHANGED <<family, storage, seen, shown>>

NoAd(s) ==
  /\ status[s] = "loading"
  /\ \E outcome \in {"empty", "failed"} : status' = [status EXCEPT ![s] = outcome]
  /\ UNCHANGED <<family, storage, seen, leaving, loads, shown>>

\* renderCreative.
Render(s) ==
  LET z == ZoneOf[s]
      k == Key(z)
      becomes(new) == status' = [status EXCEPT ![s] = new]
  IN
  /\ status[s] = "loading"
  /\ \/ /\ family[z] \in Inline
        /\ becomes("rendered") /\ UNCHANGED <<seen, shown>>
     \/ /\ family[z] = "newsletter"
        /\ becomes("unsupported") /\ UNCHANGED <<seen, shown>>
     \/ /\ family[z] = "floating"
        /\ becomes(IF hasSeen(k) THEN "dismissed" ELSE "rendered") /\ UNCHANGED <<seen, shown>>
     \/ /\ family[z] \notin Inline \cup {"newsletter", "floating"} /\ hasSeen(k)
        /\ becomes("skipped") /\ UNCHANGED <<seen, shown>>
     \/ /\ family[z] \in AtOnce /\ ~hasSeen(k)
        /\ becomes("rendered") /\ markSeen({k}) /\ Show({s})
     \/ /\ family[z] \in Windows \cup {"exit_intent", "page_transition"} /\ ~hasSeen(k)
        /\ becomes("armed") /\ UNCHANGED <<seen, shown>>
  /\ UNCHANGED <<family, storage, leaving, loads>>

\* The close button of a floating ad.
Dismiss(s) ==
  /\ family[ZoneOf[s]] = "floating" /\ status[s] = "rendered"
  /\ markSeen({Key(ZoneOf[s])})
  /\ UNCHANGED <<family, storage, status, leaving, loads, shown>>

Armed(families) == {s \in Sections : status[s] = "armed" /\ family[ZoneOf[s]] \in families}

KeysOf(sections) == {Key(ZoneOf[s]) : s \in sections}

\* A click anywhere runs every armed listener: a window opens per zone not seen
\* (without storage, per section), and a click on a link of the site is held back.
ClickPage(onLink) ==
  LET windows == Armed(Windows)
      transitions == IF onLink /\ ~leaving THEN Armed({"page_transition"}) ELSE {}
      unseen == {s \in windows \cup transitions : ~hasSeen(Key(ZoneOf[s]))}
  IN
  /\ windows \cup transitions # {}
  /\ \E first \in SUBSET unseen :
       /\ KeysOf(first) = KeysOf(unseen)
       /\ storage => Cardinality(first) = Cardinality(KeysOf(first))
       /\ ~storage => first = unseen
       /\ Show(first)
       /\ status' = [s \in Sections |-> IF s \in first THEN "rendered" ELSE status[s]]
  /\ markSeen(KeysOf(unseen))
  /\ leaving' = (leaving \/ unseen \cap transitions # {})
  /\ UNCHANGED <<family, storage, loads>>

\* The pointer leaves through the top edge: no listener looks if it was seen.
LeaveWindow ==
  LET exits == Armed({"exit_intent"}) IN
  /\ exits # {}
  /\ markSeen(KeysOf(exits))
  /\ Show(exits)
  /\ status' = [s \in Sections |-> IF s \in exits THEN "rendered" ELSE status[s]]
  /\ UNCHANGED <<family, storage, leaving, loads>>

TagNext ==
  \/ Load \/ LeaveWindow
  \/ \E onLink \in BOOLEAN : ClickPage(onLink)
  \/ \E s \in Sections : NoAd(s) \/ Render(s) \/ Dismiss(s)

TagSpec == TagInit /\ [][TagNext]_tagVars

-----------------------------------------------------------------------------
\* Popups, welcome screens, interstitials and transitions "must not re-fire on
\* every single pageview": with a working storage each is shown once in a
\* session, whatever pages and sections it is on.  An exit intent is shown once
\* per section of its zone, on one page.
OncePerSession ==
  storage => \A z \in Zones :
    shown[Key(z)] <= IF family[z] = "exit_intent"
                     THEN Cardinality({s \in Sections : ZoneOf[s] = z}) ELSE 1
=============================================================================
