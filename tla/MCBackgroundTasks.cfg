SPECIFICATION FairSpec
CONSTANTS
    a = a  b = b
    Tasks <- MCTasks
    Forks <- MCForks
    MaxReplaced <- MCReplaced
INVARIANTS
    AnnouncedOnce
    
    EndedIsDead
    
PROPERTY
    EveryTaskAnnounced
