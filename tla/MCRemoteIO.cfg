CONSTANTS
    Messages = {m1}
    Words = {word}
    Files = {"two", "missing"}
    Content <- Terminated
    NoLine = noline
    a = a
    b = b
    Window = 4
    MaxOps = 7
SPECIFICATION Spec
INVARIANTS TypeOK InStep AnswersMatch
PROPERTIES ActsLocally ReadsAnswered ClosedClientExits
