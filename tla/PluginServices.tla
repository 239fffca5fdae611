---------------------------- MODULE PluginServices ----------------------------
(***************************************************************************)
(* Three plugins of one program side by side: the catalogue of the uploads *)
(* (UploadCatalog), the schedules of the tasks (TaskSchedule) and the      *)
(* settings (Settings).  They share neither tables nor locks, so one of    *)
(* them runs at a time: "at" says which.                                   *)
(***************************************************************************)
EXTENDS UploadCatalog, TaskSchedule, Settings

VARIABLE at \* the plugin that runs, from the start

Plugin == {"uploadfile", "task", "settings"}

vars == <<at, catalogVars, taskVars, settingVars>>

\* What does not run starts in one way.
Init ==
  /\ at \in Plugin
  /\ CatalogInit /\ TaskInit /\ SettingInit
  /\ at # "uploadfile" => plot = CHOOSE p \in CatalogAreas : TRUE
  /\ at # "settings" => subject = "dictionary"

UploadfileNext ==
  /\ at = "uploadfile" /\ CatalogNext
  /\ UNCHANGED <<at, taskVars, settingVars>>

TasksNext ==
  /\ at = "task" /\ TaskNext
  /\ UNCHANGED <<at, catalogVars, settingVars>>

SettingsNext ==
  /\ at = "settings" /\ SettingNext
  /\ UNCHANGED <<at, catalogVars, taskVars>>

Next == UploadfileNext \/ TasksNext \/ SettingsNext

Spec == Init /\ [][Next]_vars

-----------------------------------------------------------------------------
\* The tables of the three plugins, the local states and the histories hold
\* what they should: fields that a request leaves out are filled in before
\* they are written (sceneParamForUpdate, storageParamForUpdate), a bounded
\* number of ids is given, and the lease is free or held by a request.
TypeOK ==
  /\ at \in Plugin
  /\ CatalogTypeOK /\ TaskTypeOK /\ SettingTypeOK
=============================================================================
