SPECIFICATION SerialSpec
CONSTANTS
    WordNumbers = 4
    Unknown = Unknown
PROPERTIES
    WordsInOrder
