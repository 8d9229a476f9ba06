CONSTANTS
    games = games
    music = music
    Readers = {r1}
    Writers = {w1}
    Categories = {games, music}
    AllCategories = all
    Chosen = {all, games}
    PageSize = 1
    MaxBoosted = 1
    BlockSize = 1
    Oldest <- TwoPrompts
    MaxPrompts = 3
    MaxOpens = 2
    MaxResurfaced = 1
SPECIFICATION Spec
INVARIANTS
    TypeOK
    PagesAdvance
    NothingSkipped
    
CHECK_DEADLOCK FALSE
