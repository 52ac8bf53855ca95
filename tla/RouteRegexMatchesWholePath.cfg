CONSTANTS
  Methods <- MCMethods
  HeaderMatchers <- MCHeaders
  QueryMatchers <- MCQueries
  Paths <- MCPaths
  Tables <- MCTables
SPECIFICATION Spec
INVARIANTS
  RegexMatchesWholePath
