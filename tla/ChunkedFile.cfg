SPECIFICATION Spec
CONSTANTS
    Client = {c1}
    ChunkSize = 2
    Byte = {0, 1}
    Zero = 0
    MaxSize = 6
    Unread = Unread
INVARIANTS
    NothingBehindEnd
    RowsSpellContent
    PartsAgree
