SPECIFICATION Spec
CONSTANTS
    r1 = r1
    r2 = r2
    Requests <- OneRequest
    MaxConcurrent = 1
    MaxRetries = 1
    ChannelCap = 2
    MaxLines = 3
    Dialects = {"openai", "anthropic", "responses", "gemini", "ollama"}
INVARIANTS NoErrorAfterFinish
