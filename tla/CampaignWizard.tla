--------------------------- MODULE CampaignWizard ---------------------------
(***************************************************************************)
(* The advertiser's campaign wizard: the form in the browser, the draft it *)
(* saves by itself 1.5 s after a change, the creative it uploads, and the  *)
(* submission, against the handlers of AdvertiserService and               *)
(* CreativeUploadService.                                                  *)
(*                                                                         *)
(* Requests are in flight together and land in any order: nothing numbers  *)
(* the saves, waits for one before the next, or cancels one that is out.   *)
(* A form is reduced to what the properties tell apart: its ad format and  *)
(* its creative, known by the format its pixel size fits.                  *)
(***************************************************************************)
EXTENDS Naturals, FiniteSets

CONSTANTS
  AdFormats,   \* ad formats; each has its own pixel size
  WizardTabs,  \* browser tabs with the campaigns page open
  NoForm,      \* no draft, no pending draft, no scheduled save
  MaxEdits,    \* bound on formats chosen, files picked and creatives pasted
  MaxFailures, \* bound on requests lost or given up after 20 s
  MaxSubmits   \* bound on submissions

VARIABLES
  wiz,       \* wiz[t]: the state of the mounted wizard
  draft,     \* the CampaignDraft row
  puts,      \* saves in flight
  deletes,   \* tabs whose DELETE of the draft is in flight
  creates,   \* createCampaign requests: where the handler is, if the tab waits
  campaigns, \* the campaign rows created, by submission
  edits, failures, submits,
  should,    \* history: the draft a reader of the comments expects to be saved
  blurred    \* history: draft requests overlapped, failed or were cut off

wizardVars == <<wiz, draft, puts, deletes, creates, campaigns, edits,
                failures, submits, should, blurred>>

Unset == "unset"      \* no format chosen, or a video: nothing to check against
Pasted == "pasted"    \* a creative that was typed in, not uploaded

Creatives == [size: AdFormats, for: AdFormats \cup {Unset, Pasted}]
NoCreative == [size |-> "none", for |-> "none"]
Forms == [format: AdFormats \cup {Unset}, creative: Creatives \cup {NoCreative}]
ASSUME WizardAssumption ==
  NoForm \notin Forms /\ {MaxEdits, MaxFailures, MaxSubmits} \subseteq Nat

Blank == [format |-> Unset, creative |-> NoCreative]

NoUpload == [size |-> "none", for |-> "none"]
NoIssue == [size |-> "none", expected |-> "none"]

Unmounted == [at |-> "closed", get |-> "none", got |-> NoForm, checked |-> FALSE,
              pending |-> NoForm, form |-> Blank, timer |-> NoForm,
              upload |-> NoUpload, issue |-> NoIssue]

WizardTypeOK ==
  /\ wiz \in [WizardTabs ->
       [at: {"closed", "open"}, get: {"none", "sent", "read"}, got: Forms \cup {NoForm},
        checked: BOOLEAN, pending: Forms \cup {NoForm}, form: Forms,
        timer: Forms \cup {NoForm},
        upload: [size: AdFormats, for: AdFormats \cup {Unset}] \cup {NoUpload},
        issue: [size: AdFormats, expected: AdFormats] \cup {NoIssue}]]
  /\ {draft, should} \subseteq Forms \cup {NoForm}
  /\ puts \subseteq [tab: WizardTabs, form: Forms]
  /\ deletes \subseteq WizardTabs
  /\ creates \subseteq [n: 1..MaxSubmits, tab: WizardTabs, form: Forms,
                        at: {"sent", "inserted", "answered"}, waiting: BOOLEAN]
  /\ campaigns \subseteq [n: 1..MaxSubmits, form: Forms]
  /\ edits \in 0..MaxEdits /\ failures \in 0..MaxFailures /\ submits \in 0..MaxSubmits
  /\ blurred \in BOOLEAN

WizardInit ==
  /\ wiz = [t \in WizardTabs |-> Unmounted]
  /\ draft \in {NoForm} \cup {[Blank EXCEPT !.format = f] : f \in AdFormats}
  /\ should = draft
  /\ puts = {} /\ deletes = {} /\ creates = {} /\ campaigns = {}
  /\ edits = 0 /\ failures = 0 /\ submits = 0
  /\ blurred = FALSE

Open(t) == wiz[t].at = "open"

Fail == failures < MaxFailures /\ failures' = failures + 1

serverVars == <<draft, puts, deletes, creates, campaigns, submits>>

-----------------------------------------------------------------------------
(* Mounting, and the draft the wizard finds.                               *)

Mount(t) ==
  /\ ~Open(t)
  /\ wiz' = [wiz EXCEPT ![t] = [Unmounted EXCEPT !.at = "open", !.get = "sent"]]
  /\ blurred' = (blurred \/ puts # {} \/ deletes # {} \/ creates # {}
                   \/ \E o \in WizardTabs : Open(o))
  /\ UNCHANGED <<serverVars, edits, failures, should>>

\* Leaving the page: the effect's cleanup drops a save still scheduled.
Unmount(t) ==
  /\ Open(t)
  /\ wiz' = [wiz EXCEPT ![t] = Unmounted]
  /\ blurred' = (blurred \/ wiz[t].timer # NoForm)
  /\ UNCHANGED <<serverVars, edits, failures, should>>

\* getCampaignDraft, and its answer: an empty draft offers nothing.
ReadDraft(t) ==
  /\ wiz[t].get = "sent"
  /\ wiz' = [wiz EXCEPT ![t].get = "read", ![t].got = draft]
  /\ UNCHANGED <<serverVars, edits, failures, should, blurred>>

DraftChecked(t) ==
  /\ wiz[t].get = "read"
  /\ wiz' = [wiz EXCEPT ![t].get = "none", ![t].got = NoForm, ![t].checked = TRUE,
                        ![t].pending = wiz[t].got]
  /\ UNCHANGED <<serverVars, edits, failures, should, blurred>>

\* .catch, then .finally: the wizard saves from now on, not knowing the draft.
DraftCheckFails(t) ==
  /\ wiz[t].get # "none" /\ Fail
  /\ wiz' = [wiz EXCEPT ![t].get = "none", ![t].got = NoForm, ![t].checked = TRUE]
  /\ blurred' = TRUE
  /\ UNCHANGED <<serverVars, edits, should>>

restoreDraft(t) ==
  /\ wiz[t].pending # NoForm
  /\ wiz' = [wiz EXCEPT ![t].form = wiz[t].pending, ![t].pending = NoForm]
  /\ UNCHANGED <<serverVars, edits, failures, should, blurred>>

discardDraft(t) ==
  /\ wiz[t].pending # NoForm
  /\ wiz' = [wiz EXCEPT ![t].pending = NoForm]
  /\ deletes' = deletes \cup {t}
  /\ should' = NoForm
  /\ UNCHANGED <<draft, puts, creates, campaigns, submits, edits, failures,
                 blurred>>

-----------------------------------------------------------------------------
(* The form and its autosave.                                              *)

MutAutosaves(t) == wiz[t].pending = NoForm

\* The subscription's early return.
Autosaves(t) == wiz[t].checked /\ wiz[t].pending = NoForm

\* form.setValue, and the debounce: the save scheduled before is dropped.
Changed(t, w, form) ==
  /\ wiz' = [wiz EXCEPT ![t] =
       [w EXCEPT !.form = form, !.timer = IF Autosaves(t) THEN form ELSE @]]
  /\ should' = IF wiz[t].checked /\ wiz[t].pending = NoForm THEN form ELSE should

SelectFormat(t, f) ==
  /\ Open(t) /\ edits < MaxEdits /\ f # wiz[t].form.format
  /\ Changed(t, wiz[t], [wiz[t].form EXCEPT !.format = f])
  /\ edits' = edits + 1
  /\ UNCHANGED <<serverVars, failures, blurred>>

\* The Creative URL and Creative HTML fields, typed into or emptied: an address
\* or markup of any size, which nothing checks.
PasteCreative(t, size) ==
  /\ Open(t) /\ edits < MaxEdits
  /\ \E creative \in {[size |-> size, for |-> Pasted], NoCreative} \ {wiz[t].form.creative} :
       Changed(t, wiz[t], [wiz[t].form EXCEPT !.creative = creative])
  /\ edits' = edits + 1
  /\ UNCHANGED <<serverVars, failures, blurred>>

\* The timer fires: saveCampaignDraft.
Save(t) ==
  /\ wiz[t].timer # NoForm
  /\ puts' = puts \cup {[tab |-> t, form |-> wiz[t].timer]}
  /\ blurred' = (blurred \/ puts # {} \/ deletes # {} \/ creates # {})
  /\ wiz' = [wiz EXCEPT ![t].timer = NoForm]
  /\ UNCHANGED <<draft, deletes, creates, campaigns, submits, edits, failures,
                 should>>

saveCampaignDraft(p) ==
  /\ puts' = puts \ {p}
  /\ \/ draft' = p.form /\ UNCHANGED <<failures, blurred>>
     \/ Fail /\ blurred' = TRUE /\ UNCHANGED draft
  /\ UNCHANGED <<wiz, deletes, creates, campaigns, submits, edits, should>>

deleteCampaignDraft(t) ==
  /\ t \in deletes
  /\ deletes' = deletes \ {t}
  /\ \/ draft' = NoForm /\ UNCHANGED <<failures, blurred>>
     \/ Fail /\ blurred' = TRUE /\ UNCHANGED draft
  /\ UNCHANGED <<wiz, puts, creates, campaigns, submits, edits, should>>

-----------------------------------------------------------------------------
(* The creative.                                                           *)

uploadVars == <<serverVars, edits, failures, should, blurred>>

Uploading(t) == wiz[t].upload # NoUpload

\* doUpload sends the format of the render it was called from.
Upload(t, w, size, for) ==
  wiz' = [wiz EXCEPT ![t] = [w EXCEPT !.upload = [size |-> size, for |-> for]]]

\* handleFileSelected: an image of another size than the format's is held
\* back; a video, or an image the browser cannot measure, is not.
handleFileSelected(t, size) ==
  LET w == [wiz[t] EXCEPT !.issue = NoIssue]
      format == wiz[t].form.format
  IN
  /\ Open(t) /\ ~Uploading(t) /\ edits < MaxEdits
  /\ edits' = edits + 1
  /\ \/ format \notin {Unset, size}
        /\ wiz' = [wiz EXCEPT ![t] = [w EXCEPT !.issue = [size |-> size, expected |-> format]]]
     \/ Upload(t, w, size, format)           \* fits, or cannot be measured
     \/ Upload(t, w, size, Unset)     \* a video
  /\ UNCHANGED <<serverVars, failures, should, blurred>>

\* Fitted to the format the issue was raised for, sent for the one chosen now.
resolveDimensionIssueWithAutoFit(t) ==
  /\ wiz[t].issue # NoIssue /\ ~Uploading(t)
  /\ Upload(t, [wiz[t] EXCEPT !.issue = NoIssue], wiz[t].issue.expected,
            wiz[t].form.format)
  /\ UNCHANGED uploadVars

\* setValue("adFormat", suggested), then doUpload, whose adFormat is still the
\* one of the render before.
resolveDimensionIssueWithSuggestedFormat(t) ==
  LET size == wiz[t].issue.size
      form == [wiz[t].form EXCEPT !.format = size]
  IN
  /\ wiz[t].issue # NoIssue /\ ~Uploading(t) /\ edits < MaxEdits
  /\ Changed(t, [wiz[t] EXCEPT !.issue = NoIssue,
                   !.upload = [size |-> size, for |-> wiz[t].form.format]], form)
  /\ edits' = edits + 1
  /\ UNCHANGED <<serverVars, failures, blurred>>

CancelIssue(t) ==
  /\ wiz[t].issue # NoIssue /\ ~Uploading(t)
  /\ wiz' = [wiz EXCEPT ![t].issue = NoIssue]
  /\ UNCHANGED uploadVars

MutAccepts(upload) == TRUE

\* uploadCreative's check of an image's size against the format sent with it.
Accepts(upload) == upload.for \in {Unset, upload.size}

\* The answer: setValue("creativeUrl") on whatever the form holds by now.
Uploaded(t) ==
  /\ Uploading(t) /\ Accepts(wiz[t].upload)
  /\ Changed(t, [wiz[t] EXCEPT !.upload = NoUpload],
       [wiz[t].form EXCEPT !.creative =
          [size |-> wiz[t].upload.size, for |-> wiz[t].upload.for]])
  /\ UNCHANGED <<serverVars, edits, failures, blurred>>

UploadRefused(t) ==
  /\ Uploading(t) /\ ~Accepts(wiz[t].upload)
  /\ wiz' = [wiz EXCEPT ![t].upload = NoUpload]
  /\ UNCHANGED uploadVars

UploadFails(t) ==
  /\ Uploading(t) /\ Fail
  /\ wiz' = [wiz EXCEPT ![t].upload = NoUpload]
  /\ UNCHANGED <<serverVars, edits, should, blurred>>

-----------------------------------------------------------------------------
(* Submission.                                                             *)

Submitting(t) == \E c \in creates : c.tab = t /\ c.waiting

\* The submit button, disabled while isSubmitting; the form stays editable.
Submit(t) ==
  /\ Open(t) /\ ~Submitting(t) /\ submits < MaxSubmits
  /\ wiz[t].form.creative # NoCreative
  /\ submits' = submits + 1
  /\ creates' = creates \cup {[n |-> submits + 1, tab |-> t, form |-> wiz[t].form,
                               at |-> "sent", waiting |-> TRUE]}
  /\ UNCHANGED <<wiz, draft, puts, deletes, campaigns, edits, failures, should,
                 blurred>>

At(c, at) == (creates \ {c}) \cup {[c EXCEPT !.at = at]}

\* createCampaign looks at the fields, not at the creative's size, and at no
\* key of the submission: the row is new each time.
InsertCampaign(c) ==
  /\ c.at = "sent"
  /\ campaigns' = campaigns \cup {[n |-> c.n, form |-> c.form]}
  /\ creates' = At(c, "inserted")
  /\ UNCHANGED <<wiz, draft, puts, deletes, submits, edits, failures, should,
                 blurred>>

\* The draft is "now redundant": deleted, and a failure is ignored.
DeleteRedundantDraft(c) ==
  /\ c.at = "inserted"
  /\ creates' = At(c, "answered")
  /\ \/ draft' = NoForm /\ UNCHANGED failures
        /\ blurred' = (blurred \/ puts # {} \/ \E t \in WizardTabs : wiz[t].timer # NoForm)
     \/ Fail /\ blurred' = TRUE /\ UNCHANGED draft
  /\ UNCHANGED <<wiz, puts, deletes, campaigns, submits, edits, should>>

\* The answer: onCreated closes the wizard, and the cleanup drops the timer.
Submitted(c) ==
  /\ c.at = "answered"
  /\ creates' = creates \ {c}
  /\ IF c.waiting
       THEN /\ wiz' = [wiz EXCEPT ![c.tab] = Unmounted]
            /\ should' = NoForm
       ELSE UNCHANGED <<wiz, should>>
  /\ UNCHANGED <<draft, puts, deletes, campaigns, submits, edits, failures, blurred>>

\* The 20 s are over or the page was left: the handler runs on.
GiveUpCreate(c) ==
  /\ c.waiting /\ Fail
  /\ creates' = (creates \ {c}) \cup {[c EXCEPT !.waiting = FALSE]}
  /\ blurred' = TRUE
  /\ UNCHANGED <<wiz, draft, puts, deletes, campaigns, submits, edits, should>>

-----------------------------------------------------------------------------
WizardNext ==
  \/ \E t \in WizardTabs :
       \/ Mount(t) \/ (Unmount(t) /\ ~Submitting(t))
       \/ ReadDraft(t) \/ DraftChecked(t) \/ DraftCheckFails(t)
       \/ restoreDraft(t) \/ discardDraft(t)
       \/ \E f \in AdFormats : SelectFormat(t, f) \/ handleFileSelected(t, f) \/ PasteCreative(t, f)
       \/ Save(t) \/ deleteCampaignDraft(t)
       \/ resolveDimensionIssueWithAutoFit(t) \/ resolveDimensionIssueWithSuggestedFormat(t)
       \/ CancelIssue(t) \/ Uploaded(t) \/ UploadRefused(t) \/ UploadFails(t)
       \/ Submit(t)
  \/ \E p \in puts : saveCampaignDraft(p)
  \/ \E c \in creates :
       InsertCampaign(c) \/ DeleteRedundantDraft(c) \/ Submitted(c) \/ GiveUpCreate(c)

WizardSpec == WizardInit /\ [][WizardNext]_wizardVars

-----------------------------------------------------------------------------
\* "Restorable any time until the campaign is actually submitted": when no
\* request is out and no save is due, the row holds the last saved work, and
\* nothing once the work was submitted or discarded, unless two requests that
\* write the draft were out together or one failed.
DraftFollowsWork ==
  /\ puts = {} /\ deletes = {} /\ creates = {}
  /\ \A t \in WizardTabs : wiz[t].timer = NoForm
  => draft = should \/ blurred

\* "The creative must match it exactly": a campaign whose creative does not
\* fit its format was never checked, because it was pasted, a video, or uploaded
\* before there was a format; or it was checked against another format, chosen
\* when its upload began.  Nothing checks it again, neither the form nor
\* createCampaign; a creative checked for the campaign's own format does fit.
MisfitWasNotChecked ==
  \A c \in campaigns :
    c.form.creative.size # c.form.format =>
      \/ c.form.creative.for \in {Unset, Pasted}
      \/ c.form.creative.for # c.form.format
=============================================================================
