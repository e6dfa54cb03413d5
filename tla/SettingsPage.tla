------------------------------ MODULE SettingsPage ------------------------------
(***************************************************************************)
(* The settings page: a form with the parameters of the learning scans.    *)
(* After a save the page shows the settings of the answer, before it and   *)
(* after an error those of the loader.                                     *)
(***************************************************************************)
EXTENDS BrowserTab, ScanSettings

CONSTANTS Form,       \* what the form can be submitted with
          Document    \* documents somebody has written by hand

ASSUME FormsAssumption == Form \subseteq Documents /\ Document \subseteq Documents

\* A missing row is not a document.
ASSUME RowAssumption == None \notin Documents

VARIABLE stored   \* row detection.learning_scan of the configurations, or None

SettingsInit == stored \in {None} \cup Document

getLearningScanSettings ==
  IF stored = None THEN DEFAULT_LEARNING_SCAN_SETTINGS
  ELSE parseLearningScanSettingsValue(stored)
-------------------------------------------------------------------------------
SettingsLoader == /\ LoaderAnswers("settings", getLearningScanSettings)
                  /\ UNCHANGED stored

SaveSettings(form) == /\ fetcher.state = "idle"
                      /\ Submit("settings", form)
                      /\ UNCHANGED stored

\* parseFormLearningScanSettings
AllNumbers(form) == \A k \in Key : form[k] # NoNumber

\* Faulty variant: the answer repeats what was submitted.
SavedAnswerRaw(form) == form

SavedAnswer(form) == parseLearningScanSettingsValue(form)

UpsertSettings(s) ==
  /\ Handling(s, "settings", "sent")
  /\ AllNumbers(action[s].form)
  /\ stored' = parseLearningScanSettingsValue(action[s].form)
  /\ ActionAnswers(s, TRUE, SavedAnswer(action[s].form))

\* "All fields must be valid numbers.", or the database fails: before the row
\* is written, or after.
SaveFails(s) ==
  /\ Handling(s, "settings", "sent")
  /\ \/ ActionAnswers(s, FALSE, "error") /\ UNCHANGED stored
     \/ /\ AllNumbers(action[s].form)
        /\ stored' = parseLearningScanSettingsValue(action[s].form)
        /\ AnswersUntold(action, s)

OtherSaves == /\ stored' \in Document
              /\ alone' = FALSE
              /\ UNCHANGED <<shell, fetcher, action, selected, reader, saved,
                             untold>>

shownSettings == IF fetcher.ok THEN fetcher.data ELSE loaded

SettingsServer == \/ SettingsLoader
                  \/ \E s \in Slot : UpsertSettings(s) \/ SaveFails(s)
-------------------------------------------------------------------------------
\* Between two saves the form shows the settings the next scan is sent with:
\* the clamped ones, not the typed ones, and never those of a save before the
\* last.  A save that was stored but answered with an error is the exception:
\* the form goes back to the settings of the loader, until a save succeeds.
ShownSettingsAreStored ==
  On("settings") /\ alone /\ ~untold /\ fetcher.state # "submitting" =>
    shownSettings = getLearningScanSettings
===============================================================================
