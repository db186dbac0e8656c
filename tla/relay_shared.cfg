SPECIFICATION Spec
CONSTANTS
    r1 = r1
    r2 = r2
    Requests <- TwoRequests
    MaxConcurrent = 1
    MaxRetries = 1
    ChannelCap = 1
    MaxLines = 0
    Dialects = {"openai"}
INVARIANTS ResourcesAccounted
 
