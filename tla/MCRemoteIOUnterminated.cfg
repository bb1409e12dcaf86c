CONSTANTS
    Messages = {m1}
    Words = {word}
    Files = {"one"}
    Content <- Unterminated
    NoLine = noline
    a = a
    b = b
    Window = 4
    MaxOps = 6
SPECIFICATION SafetySpec
PROPERTY ActsLocally
