\* Two codes of each kind, three or four requests to each plugin.
CONSTANTS
  local = local
  second = second
  default = default
  attachment = attachment
  StorageCode = {local, second}
  SceneCode = {default, attachment}
  NoCode = NoCode
  Keep = Keep
  LocalStorage = local
  SeedScene = default
  File = {f1}
  CatalogRequest = {q1, q2}
  MaxRows = 4
  CatalogAreas <- MCCatalogAreas
  TaskName = {n1, n2}
  t1 = t1
  t2 = t2
  t3 = t3
  p1 = p1
  p2 = p2
  Process = {p1, p2}
  TaskRequest = {t1, t2, t3}
  Home <- MCHome
  NoHolder = NoHolder
  MaxTasks = 2
  MaxChanges = 3
  Key = {k1, k2, k3}
  Code = {x1, x2}
  NoneYet = NoneYet
  SettingRequest = {s1, s2}
  MaxSettings = 2
  MaxEdits = 4
SYMMETRY Symmetry
SPECIFICATION Spec
INVARIANTS CodesKeepTheirRow DefaultIsSingle UndoneOnlyIfOutdated RuntimeIsCurrent TogglesCount KeysAreUnique DataFollowTheirType
CHECK_DEADLOCK FALSE
