CONSTANTS
    aiass1 = aiass1
    aiass2 = aiass2
    local = local
    ollama1 = ollama1
    ollama2 = ollama2
    ModelCalls = {aiass1, aiass2, local, ollama1, ollama2}
    ModelTimed = {aiass1, aiass2, local}
    MayHang = {aiass1, aiass2, ollama1, ollama2}
    Places = 2
SPECIFICATION GenerationFairSpec
CHECK_DEADLOCK FALSE
PROPERTIES
    CallsEnd
