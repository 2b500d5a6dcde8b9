SPECIFICATION Spec
CONSTANTS
    MAX_LEN = 3
    MAX_FQDN_SIZE = 3
    IPv4_BYTES = 1
    IPv6_BYTES = 2
    MAX_PASS_LEN = 3
    MAX_DATA_SIZE = 3
    ARGUMENT_LENGTH = 4
    Offered <- MCOffered
    Dialogues <- MCDialogues
    Replies <- MCReplies
INVARIANTS
    ParserBlocks
    VerdictIsTheGrammars
    FieldsAreWhatWasSent
    LoginsAreCaptured
CHECK_DEADLOCK FALSE
