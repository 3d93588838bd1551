SPECIFICATION FairSpec
CONSTANTS
    Newline = nl
    Text = {"{", "}", "o", "x"}
    JSON <- EntryJSON
    LineTexts <- Texts
    MaxLine = 2
    MaxLen = 9
    MaxErrors = 1
CHECK_DEADLOCK FALSE
INVARIANTS WholeLinesShown EachLineOnce
PROPERTY CompleteEntryShown
