SPECIFICATION FairSpec
CONSTANTS
    Dirs = {home, work, ftp}
    Remote = {ftp}
    Home = home
    TypesAhead = FALSE
    MaxTyped = 2
    MaxDeaths = 2
INVARIANTS Consistent InactiveMeansPrompt CommandsRunInPanelDir
PROPERTIES KeyboardComesBack PromptComes
CHECK_DEADLOCK FALSE
