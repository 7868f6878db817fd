SPECIFICATION Spec
CONSTANTS
    MaxIds = 1
    MaxKeys = 2
    Name = {n1}
    Event = {}
    Handler = {h1, h2}
    Ingest = {}
    NONE = NONE
PROPERTY ReplacedStaysReplaced
