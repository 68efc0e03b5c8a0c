SPECIFICATION Spec
CONSTANTS
    Calls = {c1, c2}
    SearchKeys = {search}
    SuggestionKeys = {suggest}
    Marketplaces = {m1, m2}
    SearchTtl = 2
    SuggestionTtl = 1
    MemoryTtl = 1
    MaxKeys = 2
    None = None
INVARIANTS
    StaleBound
    SupersededBriefly
PROPERTY RequestAnswered
