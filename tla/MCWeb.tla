------------------------------- MODULE MCWeb -------------------------------
(* Four modules about the web front end and the settings it edits.         *)
(* They share no variable, so one of them runs at a time.                  *)
EXTENDS Settings, CampaignWizard, PublisherTag, Zones, TLC

CONSTANTS a, b, c1, c2, c3, s3, home, m, f, g

\* Two sections of one zone, and one of another.
MCZoneOf == [s \in Sections |-> IF s = s3 THEN m ELSE home]

VARIABLE active

Init ==
  /\ active \in {"settings", "zones", "wizard", "tag"}
  /\ SettingsInit /\ ZonesInit /\ WizardInit /\ TagInit
  /\ active # "wizard" => draft = NoForm
  /\ active # "tag" => storage /\ family = [z \in Zones |-> "inline"]

Next ==
  /\ UNCHANGED active
  /\ \/ active = "settings" /\ SettingsNext
          /\ UNCHANGED <<zoneVars, wizardVars, tagVars>>
     \/ active = "zones" /\ ZonesNext
          /\ UNCHANGED <<settingsVars, wizardVars, tagVars>>
     \/ active = "wizard" /\ WizardNext
          /\ UNCHANGED <<settingsVars, zoneVars, tagVars>>
     \/ active = "tag" /\ TagNext
          /\ UNCHANGED <<settingsVars, zoneVars, wizardVars>>

Spec == Init /\ [][Next]_<<active, settingsVars, zoneVars, wizardVars, tagVars>>

Symmetry == Permutations({a, b}) \cup Permutations({c1, c2, c3}) \cup Permutations({f, g})
=============================================================================
