SPECIFICATION GenerationSpec
CONSTANTS
  Vocabulary <- MCVocabulary
  Earlier = "earlier"
  MaxSent = 3
  MaxChunk = 2
  MaxItems = 2
  CHAT_RESPONSE_MAX_TOOL_CALL_RETRIES = 2
  MAX_RETRIES = 1
  MaxCancels = 2
INVARIANTS GenerationTypeOK  ParsedAsTagged ResponseAligned  RealtimeSaved StoppedIsRecorded
PROPERTIES Terminates
CHECK_DEADLOCK FALSE
