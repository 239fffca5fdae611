--------------------------- MODULE MCPluginServices ---------------------------
(* Small instances of PluginServices for TLC.                                *)
EXTENDS PluginServices, TLC

CONSTANTS local, second, default, attachment, t1, t2, t3, p1, p2

\* Two handlers share a process, a third has one of its own.
MCHome == (t1 :> p1) @@ (t2 :> p1) @@ (t3 :> p2)

\* The handlers of one plugin are interchangeable, those of the tasks if they
\* run in one process.
Symmetry ==
  Permutations(CatalogRequest) \cup Permutations({t1, t2})
    \cup Permutations(TaskName) \cup Permutations(SettingRequest)

PlotOf(ops, n, flags, there) ==
  [ops |-> ops, calls |-> n, flags |-> flags, there |-> there]

\* Scenes and what refers to them; storages and their flags; both storages
\* and uploads while codes change.
MCCatalogAreas ==
  {PlotOf({"createScene", "updateScene", "deleteScene", "deleteStorage",
           "upload"}, 4, {TRUE}, {local, second, default}),
   PlotOf({"createStorage", "updateStorage"}, 3, BOOLEAN, {local}),
   PlotOf({"createStorage", "updateStorage", "deleteStorage", "upload"}, 4,
          {TRUE}, {local, default})}
=============================================================================
