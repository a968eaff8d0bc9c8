SPECIFICATION Spec
CONSTANTS
  Library <- MCLibrary
  Queries <- MCQueries
  Reruns <- MCReruns
  Similarity <- MCSimilarity
  Shapes <- MCShapes
  UpsertBatch = 100
  ChunkSize = 6
  ChunkOverlap = 2
  ChunkMinSize = 3
  ChunkMaxSize = 12
  RetrievalTopK = 500
  RerankTopK = 100
  ScoreThreshold = 20
  MinRuleChunks = 4
  MinFrameworkChunks = 3
INVARIANTS
    
    BundleIsAudited
