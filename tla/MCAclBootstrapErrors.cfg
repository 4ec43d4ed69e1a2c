CONSTANT MaxTokens = 2
SPECIFICATION Spec
INVARIANT OtherErrorsAreFatal
CHECK_DEADLOCK FALSE
