SPECIFICATION Spec
CONSTANTS
  page_size = 4
  entries_per_page = 2
  Pages = 5
  Sizes = {0, 3, 4, 5}
INVARIANTS
  TypeOK
  RegistryExact
  MappingsExact
PROPERTIES
  ShadowExact
  ImplementsHeap
