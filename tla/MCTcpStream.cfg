CONSTANTS
    Tokens = {send_token, end_token}
    Chars = {a, b}
    Strings <- SomeStrings
    TokenSize = 2
    LengthSize = 2
    Capacity = 3
    MaxObjects = 3
    a = a
    b = b
SPECIFICATION Spec
INVARIANTS TypeOK ThrowsAtTheEnd
PROPERTIES ImplementsChannel DeliveredOrThrown
