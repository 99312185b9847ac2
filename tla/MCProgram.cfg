SPECIFICATION Spec
CONSTANTS Lrcat = 4
          Lrdat = 5
          Database = 6
          Previews = 9
          Entry <- MCEntry
          Catalog <- MCCatalog
          Uuid = {1, 2}
          Own <- MCOwn
          Destination = "d"
          Identifier = {"d"}
          Profile = {"p", "q"}
          Files <- MCFiles
          MaxEntries = 4
INVARIANTS TypeOK ProfilesAreLoaded HalvesBelongTogether OnlyClashesAreLeftOut PutAgainOnlyOnOverlapOrMiss ForeignPreviewsStay RegistryIsExact RequestsEndBeforeTheirDestination
PROPERTIES ProgramEnds ImplementsSharedSync
