\* Requests one after the other; the child has up to two descendants at a time.
SPECIFICATION FairSpec
CONSTANTS
    Release = release
    Artifacts = {release, other, broken}
    Broken = broken
    NoDir = NoDir
    Child = child
    Others = {p1, p2}
    Results <- MCResults
    Forged <- MCForged
INVARIANTS TypeOK AnswerQuiet
PROPERTIES AnswersSound RunsEnd
