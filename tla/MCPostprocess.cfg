SPECIFICATION FairSpec
CONSTANTS
  m = m own = own other = other score = score t1 = t1 t2 = t2
  None = None
  ModelBundles <- OneModel
  MotionBundles <- TwoMotions
  NameOf <- Names
  Alias <- Aliases
  Docs <- TwoDocs
  Scores <- OneScore
  LegacyStorages <- OneStorage
  Storages <- TwoStorages
  ChartStorages <- OneStorage
  Clips <- ClipTable
  Moc <- Moc3
  Layouts <- AllLayouts
  Archives <- AllArchives
  Configs <- FreshConfigs
  MaxVersion = 1
  MaxChanges = 1
  MaxFaults = 1
INVARIANTS
  SkipIsSound
  ListedAssetsPresent
  CatalogSound
PROPERTIES
  Converges
